--------------------------- MODULE PayrollService ---------------------------
(***************************************************************************)
(* payroll.service.ts: the life of a payroll, from create to apply, with   *)
(* the actions it links, computes and consumes, the reactivation items it  *)
(* leaves when it is inactivated, and the cron that reassigns the orphans. *)
(*                                                                         *)
(* A handler is LoadX (findOne and the guards on the entity), ViewX (the   *)
(* other queries, and the read that starts the transaction or that save()  *)
(* compares with) and CommitX (what reaches the tables).                   *)
(***************************************************************************)
EXTENDS HrTables

Included(p) == {e \in Employee : selection[p][e] # "out"}

ActiveForReassignment(row) == row.activo /\ row.estado \in Operational

Bump(p, n) == payroll[p].versionLock + n

\* A request starts on a payroll only while its version is within the bound.
InBound(p) == payroll[p].versionLock <= MaxVersion

KeepCronAndFaults == UNCHANGED <<cronTodo, faults>>
----------------------------------------------------------------------------
(* create *)

LoadCreate(s, slot) ==
    /\ Accepts(s, "create")
    /\ ~SlotTaken(NoPayroll, slot)
    /\ Step(s, [Idle EXCEPT !.op = "create", !.pc = "new",
          !.ent = [estado |-> "ABIERTA", versionLock |-> 0, requiresRecalculation |-> FALSE,
                   activo |-> TRUE, slot |-> slot, slotKey |-> Key(slot), isActiveSlot |-> TRUE]])
    /\ UNCHANGED <<tables, cronTodo, faults>>

\* The INSERT, which the unique index may refuse.  The name then gets the id as a
\* suffix, and the entity that was inserted is saved once more.
CommitCreate(s, p) ==
    LET r == request[s] IN
    /\ At(s, "create", "new")
    /\ ~Exists(p) /\ IndexAllows(p, r.ent)
    /\ payroll' = [payroll EXCEPT ![p] = r.ent]
    /\ Step(s, [r EXCEPT !.pc = "loaded", !.p = p])
    /\ UNCHANGED <<action, selection, inputs, results, aguinaldo, orphans>>
    /\ KeepCronAndFaults
----------------------------------------------------------------------------
(* create (its second save), update, verify, employee selection and reopen *)
(* save the entity they hold                                               *)

\* Mutant: a payroll in process may be moved too.
LoadUpdateInProcess(s, p, slot) ==
    /\ Accepts(s, "update") /\ InBound(p)
    /\ payroll[p].estado \in {"ABIERTA", "EN_PROCESO"} /\ payroll[p].activo
    /\ Load(s, "update", p, NoAction,
            [payroll[p] EXCEPT !.slot = slot, !.slotKey = Key(slot), !.versionLock = Bump(p, 1)])

LoadUpdate(s, p, slot) ==
    /\ Accepts(s, "update") /\ InBound(p)
    /\ payroll[p].estado = "ABIERTA" /\ payroll[p].activo
    /\ Load(s, "update", p, NoAction,
            [payroll[p] EXCEPT !.slot = slot, !.slotKey = Key(slot), !.versionLock = Bump(p, 1)])

LoadVerify(s, p) ==
    /\ Accepts(s, "verify") /\ InBound(p)
    /\ payroll[p].estado = "EN_PROCESO" /\ payroll[p].activo
    /\ Load(s, "verify", p, NoAction,
            [payroll[p] EXCEPT !.estado = "VERIFICADA", !.versionLock = Bump(p, 1)])

\* Mutant: an applied payroll may be reopened.
LoadReopenApplied(s, p) ==
    /\ Accepts(s, "reopen") /\ InBound(p)
    /\ payroll[p].estado \in {"VERIFICADA", "APLICADA"}
    /\ Load(s, "reopen", p, NoAction,
            [payroll[p] EXCEPT !.estado = "ABIERTA", !.versionLock = Bump(p, 1)])

LoadReopen(s, p) ==
    /\ Accepts(s, "reopen") /\ InBound(p)
    /\ payroll[p].estado = "VERIFICADA"
    /\ Load(s, "reopen", p, NoAction,
            [payroll[p] EXCEPT !.estado = "ABIERTA", !.versionLock = Bump(p, 1)])

\* Mutant: the selection of an applied payroll may change.
LoadSelectionApplied(s, p, op, emps) ==
    /\ Accepts(s, op) /\ op \in {"include", "exclude"} /\ InBound(p)
    /\ Exists(p) /\ payroll[p].activo
    /\ Step(s, [Idle EXCEPT !.op = op, !.pc = "loaded", !.p = p, !.emps = emps,
                            !.ent = [payroll[p] EXCEPT !.requiresRecalculation = TRUE,
                                                       !.versionLock = Bump(p, 1)]])
    /\ UNCHANGED <<tables, cronTodo, faults>>

\* Mutant: a change of the selection does not ask for a recalculation.
LoadSelectionNoRecalculation(s, p, op, emps) ==
    /\ Accepts(s, op) /\ op \in {"include", "exclude"} /\ InBound(p)
    /\ Exists(p) /\ payroll[p].activo /\ payroll[p].estado # "APLICADA"
    /\ Step(s, [Idle EXCEPT !.op = op, !.pc = "loaded", !.p = p, !.emps = emps,
                            !.ent = [payroll[p] EXCEPT !.versionLock = Bump(p, 1)]])
    /\ UNCHANGED <<tables, cronTodo, faults>>

LoadSelection(s, p, op, emps) ==
    /\ Accepts(s, op) /\ op \in {"include", "exclude"} /\ InBound(p)
    /\ Exists(p) /\ payroll[p].activo /\ payroll[p].estado # "APLICADA"
    /\ Step(s, [Idle EXCEPT !.op = op, !.pc = "loaded", !.p = p, !.emps = emps,
                            !.ent = [payroll[p] EXCEPT !.requiresRecalculation = TRUE,
                                                       !.versionLock = Bump(p, 1)]])
    /\ UNCHANGED <<tables, cronTodo, faults>>

ReadyToSave(s) ==
    /\ Step(s, [request[s] EXCEPT !.pc = "ready", !.db = payroll[request[s].p]])
    /\ KeepCronAndFaults

ViewCreate(s) ==
    /\ At(s, "create", "loaded")
    /\ ReadyToSave(s) /\ UNCHANGED tables

ViewUpdate(s) ==
    /\ At(s, "update", "loaded")
    /\ ~SlotTaken(request[s].p, request[s].ent.slot)
    /\ ReadyToSave(s) /\ UNCHANGED tables

\* Every employee of the company has a snapshot once results exist.
ViewVerify(s) ==
    LET p == request[s].p IN
    /\ At(s, "verify", "loaded")
    /\ inputs[p] # {} \/ SocialCharges
    /\ results[p] # {}
    /\ Included(p) # {}
    /\ \A e \in Included(p) : selection[p][e] # "reval"
    /\ ReadyToSave(s) /\ UNCHANGED tables

ViewReopen(s) ==
    /\ At(s, "reopen", "loaded")
    /\ ReadyToSave(s) /\ UNCHANGED tables

\* The marks are saved before the payroll is, and outside any transaction.
ViewSelection(s) ==
    LET r == request[s] IN
    /\ \E op \in {"include", "exclude"} : At(s, op, "loaded")
    /\ selection' = [selection EXCEPT ![r.p] =
          [e \in Employee |-> IF e \notin r.emps THEN selection[r.p][e]
                              ELSE IF r.op = "include" THEN "in" ELSE "out"]]
    /\ ReadyToSave(s)
    /\ UNCHANGED <<payroll, action, inputs, results, aguinaldo, orphans>>

SavedByEntity == {"create", "update", "verify", "include", "exclude", "reopen"}

Merged(s) == MergePayroll(payroll[request[s].p], request[s].db, request[s].ent)

CommitSave(s) ==
    LET r == request[s] IN
    /\ r.op \in SavedByEntity /\ r.pc = "ready"
    /\ IndexAllows(r.p, Merged(s))
    /\ payroll' = [payroll EXCEPT ![r.p] = Merged(s)]
    /\ Step(s, IF r.op \in {"create", "reopen"}
               THEN [Idle EXCEPT !.op = r.op, !.pc = "orphans", !.p = r.p]
               ELSE Idle)
    /\ UNCHANGED <<action, selection, inputs, results, aguinaldo, orphans>>
    /\ KeepCronAndFaults
----------------------------------------------------------------------------
(* process, also run by the preview table *)

\* Mutant: the collector ignores the payroll an action is linked to.
CollectedFromAny(p, slot) ==
    {a \in Action : action[a].estado = "APPROVED"}

\* The approved actions the collector takes: those of the payroll, and the
\* unlinked ones of the period approved before the cutoff, once auto-invalidation
\* has removed the unfit ones.
Collected(p, slot) ==
    {a \in Action :
        /\ action[a].estado = "APPROVED"
        /\ \/ action[a].idCalendarioNomina = p
           \/ /\ action[a].idCalendarioNomina = NoPayroll
              /\ Period[a] = slot /\ a \notin Late /\ a \notin Unfit}

LoadProcess(s, p) ==
    /\ Accepts(s, "process") /\ InBound(p)
    /\ payroll[p].estado \in {"ABIERTA", "EN_PROCESO"} /\ payroll[p].activo
    /\ Load(s, "process", p, NoAction,
            [payroll[p] EXCEPT !.estado = "EN_PROCESO", !.requiresRecalculation = FALSE,
                               !.versionLock = Bump(p, 2)])

\* The transaction starts by deleting the snapshots and results of the payroll,
\* whose locks keep a second one out.
Processing(p) == \E t \in Session : At(t, "process", "ready") /\ request[t].p = p

\* The read view of the transaction; only the actions unlinked in it get a link.
ViewProcess(s) ==
    LET r == request[s]
        acts == Collected(r.p, r.ent.slot)
    IN  /\ At(s, "process", "loaded")
        /\ ~Processing(r.p)
        /\ Step(s, [r EXCEPT !.pc = "ready", !.db = payroll[r.p], !.acts = acts,
                             !.fresh = {a \in acts : action[a].idCalendarioNomina = NoPayroll},
                             !.emps = Included(r.p)])
        /\ UNCHANGED <<tables, cronTodo, faults>>

CommitProcess(s) ==
    LET r == request[s] IN
    /\ At(s, "process", "ready")
    /\ IndexAllows(r.p, Merged(s))
    /\ payroll' = [payroll EXCEPT ![r.p] = Merged(s)]
    /\ inputs' = [inputs EXCEPT ![r.p] = r.acts]
    /\ results' = [results EXCEPT ![r.p] = r.emps]
    /\ action' = [a \in Action |->
          IF a \in r.fresh THEN [action[a] EXCEPT !.idCalendarioNomina = r.p]
          ELSE IF Invalidable(a) THEN [action[a] EXCEPT !.estado = "INVALIDATED"]
          ELSE action[a]]
    /\ Step(s, Idle)
    /\ UNCHANGED <<selection, aguinaldo, orphans>>
    /\ KeepCronAndFaults
----------------------------------------------------------------------------
(* apply *)

LoadApply(s, p) ==
    /\ Accepts(s, "apply") /\ InBound(p)
    /\ payroll[p].estado = "VERIFICADA" /\ ~payroll[p].requiresRecalculation
    /\ Load(s, "apply", p, NoAction, payroll[p])

\* The selected employees are those that have a result.
ViewApply(s) ==
    LET r == request[s] IN
    /\ At(s, "apply", "loaded")
    /\ results[r.p] # {}
    /\ \A e \in results[r.p] : selection[r.p][e] # "reval"
    /\ Step(s, [r EXCEPT !.pc = "ready", !.emps = results[r.p]])
    /\ UNCHANGED <<tables, cronTodo, faults>>

Applied(row) == [row EXCEPT !.estado = "APLICADA", !.isActiveSlot = FALSE,
                            !.versionLock = @ + 1]

\* Mutant: apply does not look at the recalculation flag again.
StillAsLoadedNoFlag(s) ==
    LET r == request[s] IN
    payroll[r.p].estado = "VERIFICADA" /\ payroll[r.p].versionLock = r.ent.versionLock

\* The compare-and-set of the UPDATE: estado, version and recalculation.
StillAsLoaded(s) ==
    LET r == request[s] IN
    /\ payroll[r.p].estado = "VERIFICADA"
    /\ payroll[r.p].versionLock = r.ent.versionLock
    /\ ~payroll[r.p].requiresRecalculation

\* Mutant: the consumption is not restricted to the payroll.
ConsumedAnywhere(s, a) == Owner[a] \in request[s].emps /\ action[a].estado \in ApprovedStates

Consumed(s, a) ==
    /\ action[a].idCalendarioNomina = request[s].p
    /\ Owner[a] \in request[s].emps
    /\ action[a].estado \in ApprovedStates

\* Mutant: the provisions come from the input snapshots.
ProvisionsOfInputs(p) == {p} \X {Owner[a] : a \in inputs[p]}

\* createAguinaldoProvisionsFromPayroll; every result has a positive gross.
Provisions(p) == {p} \X results[p]

CommitApply(s) ==
    LET r == request[s] IN
    /\ At(s, "apply", "ready")
    /\ StillAsLoaded(s)
    /\ IndexAllows(r.p, Applied(payroll[r.p]))
    /\ payroll' = [payroll EXCEPT ![r.p] = Applied(payroll[r.p])]
    /\ action' = [a \in Action |->
          IF Consumed(s, a) THEN [action[a] EXCEPT !.estado = "CONSUMED"] ELSE action[a]]
    /\ aguinaldo' = aguinaldo \cup Provisions(r.p)
    /\ Step(s, Idle)
    /\ UNCHANGED <<selection, inputs, results, orphans>>
    /\ KeepCronAndFaults
----------------------------------------------------------------------------
(* inactivate *)

\* Mutant: only approved actions are detached.
DetachableApproved == {"APPROVED"}

Detachable == PendingStates \cup {"APPROVED"}

Attached(p) == {a \in Action : /\ action[a].idCalendarioNomina = p
                               /\ action[a].estado \in Detachable}

LoadInactivate(s, p) ==
    /\ Accepts(s, "inactivate") /\ InBound(p)
    /\ payroll[p].estado \in Operational
    /\ Load(s, "inactivate", p, NoAction,
            [payroll[p] EXCEPT !.estado = "INACTIVA", !.activo = FALSE,
                               !.slotKey = [@ EXCEPT !.tagged = TRUE],
                               !.isActiveSlot = FALSE, !.versionLock = Bump(p, 1)])

ViewInactivate(s) ==
    LET r == request[s] IN
    /\ At(s, "inactivate", "loaded")
    /\ Step(s, [r EXCEPT !.pc = "ready", !.db = payroll[r.p], !.acts = Attached(r.p)])
    /\ UNCHANGED <<tables, cronTodo, faults>>

\* The items are those of the read view; the UPDATE detaches what is attached by then.
CommitInactivate(s) ==
    LET r == request[s]
        detached == IF r.acts = {} THEN {} ELSE Attached(r.p)
    IN  /\ At(s, "inactivate", "ready")
        /\ IndexAllows(r.p, Merged(s))
        /\ payroll' = [payroll EXCEPT ![r.p] = Merged(s)]
        /\ orphans' = orphans \cup ({r.p} \X r.acts)
        /\ action' = [a \in Action |->
              IF a \in detached
              THEN [estado |-> "PENDING_RRHH", idCalendarioNomina |-> NoPayroll]
              ELSE action[a]]
        /\ Step(s, Idle)
        /\ UNCHANGED <<selection, inputs, results, aguinaldo>>
        /\ KeepCronAndFaults
----------------------------------------------------------------------------
(* reactivate and the reassignment of orphans *)

\* resolveReactivationIneligibilityReason, in the order of its tests: the item's
\* payroll has the same period, type and currency; the action is not in another
\* payroll; it is not final; its effect falls in the period.
SamePeriod(q, row) == payroll[q].slot = row.slot

LinkedElsewhere(a, p) == action[a].idCalendarioNomina \notin {NoPayroll, p}

IsFinal(a) == action[a].estado \in FinalStates

\* Mutant: only approved actions are given back.
ReassignableApproved(q, a, p, row) ==
    /\ SamePeriod(q, row)
    /\ ~LinkedElsewhere(a, p)
    /\ action[a].estado = "APPROVED"
    /\ Period[a] = row.slot

Reassignable(q, a, p, row) ==
    /\ SamePeriod(q, row)
    /\ ~LinkedElsewhere(a, p)
    /\ ~IsFinal(a)
    /\ Period[a] = row.slot

\* The reasons for which the reassignment gives an item up.
Terminal(q, a, p, row) == SamePeriod(q, row) /\ (LinkedElsewhere(a, p) \/ IsFinal(a))

Relinked(a, p) == [action[a] EXCEPT !.idCalendarioNomina = p, !.estado = "PENDING_RRHH"]

\* Mutant: the reactivated payroll keeps its inactive slot key.
LoadReactivateTagged(s, p) ==
    /\ Accepts(s, "reactivate") /\ InBound(p)
    /\ payroll[p].estado = "INACTIVA"
    /\ Load(s, "reactivate", p, NoAction,
            [payroll[p] EXCEPT !.estado = "ABIERTA", !.activo = TRUE,
                               !.isActiveSlot = TRUE, !.versionLock = Bump(p, 1)])

LoadReactivate(s, p) ==
    /\ Accepts(s, "reactivate") /\ InBound(p)
    /\ payroll[p].estado = "INACTIVA"
    /\ Load(s, "reactivate", p, NoAction,
            [payroll[p] EXCEPT !.estado = "ABIERTA", !.activo = TRUE,
                               !.slotKey = Key(payroll[p].slot),
                               !.isActiveSlot = TRUE, !.versionLock = Bump(p, 1)])

ViewReactivate(s) ==
    LET r == request[s]
        mine == {i \in orphans : i[1] = r.p}
    IN  /\ At(s, "reactivate", "loaded")
        /\ ~SlotTaken(r.p, r.ent.slot)
        /\ Step(s, [r EXCEPT !.pc = "ready", !.db = payroll[r.p], !.items = mine,
                             !.acts = {i[2] : i \in {j \in mine :
                                           Reassignable(j[1], j[2], r.p, r.ent)}}])
        /\ UNCHANGED <<tables, cronTodo, faults>>

\* The eligible actions are linked by id alone; all the items of the view close.
CommitReactivate(s) ==
    LET r == request[s] IN
    /\ At(s, "reactivate", "ready")
    /\ IndexAllows(r.p, Merged(s))
    /\ payroll' = [payroll EXCEPT ![r.p] = Merged(s)]
    /\ action' = [a \in Action |-> IF a \in r.acts THEN Relinked(a, r.p) ELSE action[a]]
    /\ orphans' = orphans \ r.items
    /\ Step(s, [Idle EXCEPT !.op = "reactivate", !.pc = "orphans", !.p = r.p])
    /\ UNCHANGED <<selection, inputs, results, aguinaldo>>
    /\ KeepCronAndFaults

\* reassignOrphanActionsForPayroll, after create, reopen and reactivate and from
\* the cron: the eligibility of every open item against payroll r.p.
ViewOrphans(s) ==
    LET r == request[s]
        row == payroll[r.p]
        eligible == {i \in orphans : Reassignable(i[1], i[2], r.p, row)}
        closed == {i \in orphans : Terminal(i[1], i[2], r.p, row)}
    IN  /\ r.pc = "orphans"
        /\ ActiveForReassignment(row)
        /\ orphans # {}
        /\ Step(s, [r EXCEPT !.pc = "link", !.acts = {i[2] : i \in eligible}, !.items = closed])
        /\ UNCHANGED <<tables, cronTodo, faults>>

\* The UPDATE keeps to unlinked actions; the items of the eligible actions close
\* whether it matched or not.
CommitOrphans(s) ==
    LET r == request[s] IN
    /\ r.pc = "link"
    /\ action' = [a \in Action |->
          IF a \in r.acts /\ action[a].idCalendarioNomina = NoPayroll
          THEN Relinked(a, r.p) ELSE action[a]]
    /\ orphans' = {i \in orphans : i[2] \notin r.acts /\ i \notin r.items}
    /\ Step(s, Idle)
    /\ UNCHANGED <<payroll, selection, inputs, results, aguinaldo>>
    /\ KeepCronAndFaults

SkipOrphans(s) ==
    /\ request[s].pc = "orphans"
    /\ ~ActiveForReassignment(payroll[request[s].p]) \/ orphans = {}
    /\ Step(s, Idle)
    /\ UNCHANGED <<tables, cronTodo, faults>>

\* Mutant: the cron visits open payrolls only.
CronTickOpenOnly ==
    /\ "cron" \in Requests
    /\ request[Cron] = Idle /\ cronTodo = {}
    /\ cronTodo' = {p \in Payroll : payroll[p].estado = "ABIERTA"}
    /\ UNCHANGED <<tables, request, faults>>

\* processPendingOrphansNow: the active payrolls, one after the other.
CronTick ==
    /\ "cron" \in Requests
    /\ request[Cron] = Idle /\ cronTodo = {}
    /\ cronTodo' = {p \in Payroll : ActiveForReassignment(payroll[p])}
    /\ UNCHANGED <<tables, request, faults>>

CronNext ==
    /\ request[Cron] = Idle
    /\ \E p \in cronTodo :
          /\ cronTodo' = cronTodo \ {p}
          /\ Step(Cron, [Idle EXCEPT !.op = "cron", !.pc = "orphans", !.p = p])
    /\ UNCHANGED <<tables, faults>>
----------------------------------------------------------------------------
PayrollLoad(s) ==
    \/ \E slot \in Slot : LoadCreate(s, slot)
    \/ \E p \in Payroll :
          \/ LoadVerify(s, p) \/ LoadReopen(s, p) \/ LoadProcess(s, p) \/ LoadApply(s, p)
          \/ LoadInactivate(s, p) \/ LoadReactivate(s, p)
          \/ \E slot \in Slot : LoadUpdate(s, p, slot)
          \/ \E op \in {"include", "exclude"}, emps \in (SUBSET Employee) \ {{}} :
                LoadSelection(s, p, op, emps)

PayrollView(s) ==
    \/ ViewCreate(s) \/ ViewUpdate(s) \/ ViewVerify(s) \/ ViewReopen(s) \/ ViewSelection(s)
    \/ ViewProcess(s) \/ ViewApply(s) \/ ViewInactivate(s) \/ ViewReactivate(s)

PayrollCommit(s) ==
    \/ \E p \in Payroll : CommitCreate(s, p)
    \/ CommitSave(s) \/ CommitProcess(s) \/ CommitApply(s)
    \/ CommitInactivate(s) \/ CommitReactivate(s)

Reassign(s) == ViewOrphans(s) \/ CommitOrphans(s) \/ SkipOrphans(s)
=============================================================================
