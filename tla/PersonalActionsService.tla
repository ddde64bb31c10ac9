----------------------- MODULE PersonalActionsService -----------------------
(***************************************************************************)
(* personal-actions.service.ts, the hygiene job and the employee-context   *)
(* listener: the life of a personal action up to the point where a payroll *)
(* consumes it.  The nine kinds of action (absence, licence, disability,   *)
(* bonus, overtime, retention, discount, increase, vacation) have handlers *)
(* of their own that make the same reads and writes; they are one here.    *)
(***************************************************************************)
EXTENDS HrTables

\* The payrolls a form may name: active and ABIERTA or EN_PROCESO.
Eligible(p) == payroll[p].activo /\ payroll[p].estado \in {"ABIERTA", "EN_PROCESO"}

\* assertEmployeeNotVerifiedForPayrolls
NotVerified(p, a) == selection[p][Owner[a]] # "in"

KeepPayrollTables == UNCHANGED <<payroll, selection, inputs, results, aguinaldo, orphans>>

Insert(a, estado, link) ==
    /\ action[a].estado = "NONE"
    /\ action' = [action EXCEPT ![a] = [estado |-> estado, idCalendarioNomina |-> link]]
    /\ KeepPayrollTables
----------------------------------------------------------------------------
(* Creation: the generic draft, the form of a kind, the overtime bulk load *)

CreateDraft(s, a) ==
    /\ Accepts(s, "register")
    /\ Insert(a, "DRAFT", NoPayroll)
    /\ UNCHANGED <<request, cronTodo, faults>>

LoadRegister(s, a, p) ==
    /\ Accepts(s, "register")
    /\ action[a].estado = "NONE"
    /\ Eligible(p) /\ NotVerified(p, a)
    /\ Load(s, "register", p, a, NoRow)

CommitRegister(s) ==
    LET r == request[s] IN
    /\ At(s, "register", "loaded")
    /\ Insert(r.a, "PENDING_SUPERVISOR", r.p)
    /\ Step(s, Idle)
    /\ UNCHANGED <<cronTodo, faults>>

\* The commit of an overtime bulk load inserts approved actions.  Its preview, an
\* earlier request, refuses rows of verified employees; the commit does not look
\* again, and as nobody is marked in a new payroll the preview may have passed.
LoadBulk(s, a, p) ==
    /\ Accepts(s, "bulk")
    /\ action[a].estado = "NONE"
    /\ Eligible(p)
    /\ Load(s, "bulk", p, a, NoRow)

CommitBulk(s) ==
    LET r == request[s] IN
    /\ At(s, "bulk", "loaded")
    /\ Insert(r.a, "APPROVED", r.p)
    /\ Step(s, [r EXCEPT !.pc = "flag"])
    /\ UNCHANGED <<cronTodo, faults>>
----------------------------------------------------------------------------
(* approve *)

\* The payroll is the one the action has or, failing that, the one the caller names.
LoadApprove(s, a, p) ==
    /\ Accepts(s, "approve")
    /\ action[a].estado \in PendingStates
    /\ action[a].idCalendarioNomina \in {p, NoPayroll}
    /\ Load(s, "approve", p, a, action[a])

ViewApprove(s) ==
    LET r == request[s] IN
    /\ At(s, "approve", "loaded")
    /\ NotVerified(r.p, r.a) /\ Eligible(r.p)
    /\ Step(s, [r EXCEPT !.pc = "ready"])
    /\ UNCHANGED <<tables, cronTodo, faults>>

\* An UPDATE by id: it does not look at what the row holds by then.
CommitApprove(s) ==
    LET r == request[s] IN
    /\ At(s, "approve", "ready")
    /\ action' = [action EXCEPT ![r.a] = [estado |-> "APPROVED", idCalendarioNomina |-> r.p]]
    /\ Step(s, [r EXCEPT !.pc = "mark"])
    /\ KeepPayrollTables /\ UNCHANGED <<cronTodo, faults>>

\* markPayrollEmployeeRevalidationRequired
MarkRevalidation(s) ==
    LET r == request[s]
        e == Owner[r.a]
    IN  /\ r.pc = "mark"
        /\ IF selection[r.p][e] = "out"
           THEN UNCHANGED <<selection, payroll>>
           ELSE /\ selection' = [selection EXCEPT ![r.p] = [@ EXCEPT ![e] = "reval"]]
                /\ payroll' = [payroll EXCEPT ![r.p] = [@ EXCEPT !.requiresRecalculation = TRUE]]
        /\ Step(s, [r EXCEPT !.pc = "flag"])
        /\ UNCHANGED <<action, inputs, results, aguinaldo, orphans, cronTodo, faults>>

\* flagRecalculationForOpenPayrolls: by the dates of the action, not by its
\* link, and only payrolls in process.  A revived action has no approval date.
Flagged(q, r) ==
    /\ payroll[q].estado = "EN_PROCESO" /\ payroll[q].activo
    /\ payroll[q].slot = Period[r.a]
    /\ r.op = "revive" \/ r.a \notin Late

FlagRecalculation(s) ==
    LET r == request[s] IN
    /\ r.pc = "flag"
    /\ payroll' = [q \in Payroll |->
          IF Flagged(q, r) THEN [payroll[q] EXCEPT !.requiresRecalculation = TRUE] ELSE payroll[q]]
    /\ Step(s, Idle)
    /\ UNCHANGED <<action, selection, inputs, results, aguinaldo, orphans, cronTodo, faults>>
----------------------------------------------------------------------------
(* The handlers that save the action they read *)

\* Mutant: the last step writes the legacy name of the state.
NextStateLegacy == [DRAFT |-> "PENDING_SUPERVISOR", PENDING_SUPERVISOR |-> "PENDING_RRHH",
                    PENDING_RRHH |-> "APROBADA"]

NextState == [DRAFT |-> "PENDING_SUPERVISOR", PENDING_SUPERVISOR |-> "PENDING_RRHH",
              PENDING_RRHH |-> "APPROVED"]

LoadAdvance(s, a) ==
    /\ Accepts(s, "advance")
    /\ action[a].estado \in PendingStates
    /\ Load(s, "advance", NoPayroll, a, [action[a] EXCEPT !.estado = NextState[action[a].estado]])

LoadEdit(s, a, p) ==
    /\ Accepts(s, "edit")
    /\ action[a].estado \in PendingStates
    /\ Eligible(p)
    /\ Load(s, "edit", p, a, [action[a] EXCEPT !.idCalendarioNomina = p])

LoadAssociate(s, a, p) ==
    /\ Accepts(s, "associate")
    /\ action[a].estado \in ApprovedStates
    /\ Exists(p)
    /\ Load(s, "associate", p, a, [action[a] EXCEPT !.idCalendarioNomina = p])

LoadReject(s, a) ==
    /\ Accepts(s, "reject")
    /\ action[a].estado \in PendingStates
    /\ Load(s, "reject", NoPayroll, a, [action[a] EXCEPT !.estado = "REJECTED"])

LoadInvalidate(s, a) ==
    /\ Accepts(s, "invalidate")
    /\ action[a].estado \in PendingStates
    /\ Load(s, "invalidate", NoPayroll, a, [action[a] EXCEPT !.estado = "INVALIDATED"])

\* Mutant: any final action may be revived.
LoadReviveAny(s, a) ==
    /\ Accepts(s, "revive")
    /\ action[a].estado \in FinalStates
    /\ Load(s, "revive", NoPayroll, a, [action[a] EXCEPT !.estado = "PENDING_SUPERVISOR"])

LoadRevive(s, a) ==
    /\ Accepts(s, "revive")
    /\ action[a].estado = "INVALIDATED"
    /\ Load(s, "revive", NoPayroll, a, [action[a] EXCEPT !.estado = "PENDING_SUPERVISOR"])

SavedActionOps == {"advance", "edit", "associate", "reject", "invalidate", "revive"}

\* edit and associate look at the payroll they write, invalidate and revive at
\* the one the action has, advance and reject at none.
Unlocked(r) ==
    r.op \notin {"advance", "reject"} =>
        \A p \in Payroll : p = r.ent.idCalendarioNomina => NotVerified(p, r.a)

ViewAction(s) ==
    LET r == request[s] IN
    /\ r.op \in SavedActionOps /\ r.pc = "loaded"
    /\ Unlocked(r)
    /\ Step(s, [r EXCEPT !.pc = "ready", !.db = action[r.a]])
    /\ UNCHANGED <<tables, cronTodo, faults>>

\* Approving by advance, and reviving, flag the open payrolls of the period.
FlagsAfter(r) == r.op = "revive" \/ (r.op = "advance" /\ r.ent.estado = "APPROVED")

CommitAction(s) ==
    LET r == request[s] IN
    /\ r.op \in SavedActionOps /\ r.pc = "ready"
    /\ action' = [action EXCEPT ![r.a] = MergeAction(@, r.db, r.ent)]
    /\ Step(s, IF FlagsAfter(r) THEN [Idle EXCEPT !.op = r.op, !.pc = "flag", !.a = r.a] ELSE Idle)
    /\ KeepPayrollTables /\ UNCHANGED <<cronTodo, faults>>
----------------------------------------------------------------------------
(* Jobs and events: statements over all the actions, without a request *)

\* The nightly job expires what is approved (either code), unlinked and past,
\* then auto-invalidates.
Hygiene(past) ==
    LET expired == {a \in past : /\ action[a].estado \in ApprovedStates
                                 /\ action[a].idCalendarioNomina = NoPayroll}
    IN  /\ "hygiene" \in Requests
        /\ action' = [a \in Action |->
              IF a \in expired THEN [action[a] EXCEPT !.estado = "EXPIRED"]
              ELSE IF Invalidable(a) THEN [action[a] EXCEPT !.estado = "INVALIDATED"]
              ELSE action[a]]
        /\ KeepPayrollTables /\ UNCHANGED <<request, cronTodo, faults>>

\* A change of an employee's company, currency or termination date.
EmployeeContextUpdated(e) ==
    /\ "hygiene" \in Requests
    /\ action' = [a \in Action |->
          IF Owner[a] = e /\ Invalidable(a) THEN [action[a] EXCEPT !.estado = "INVALIDATED"]
          ELSE action[a]]
    /\ KeepPayrollTables /\ UNCHANGED <<request, cronTodo, faults>>
----------------------------------------------------------------------------
ActionLoad(s) ==
    \E a \in Action :
        \/ CreateDraft(s, a) \/ LoadAdvance(s, a) \/ LoadReject(s, a)
        \/ LoadInvalidate(s, a) \/ LoadRevive(s, a)
        \/ \E p \in Payroll : \/ LoadRegister(s, a, p) \/ LoadBulk(s, a, p)
                              \/ LoadApprove(s, a, p) \/ LoadEdit(s, a, p)
                              \/ LoadAssociate(s, a, p)

ActionStep(s) ==
    \/ ViewApprove(s) \/ ViewAction(s)
    \/ CommitRegister(s) \/ CommitBulk(s) \/ CommitApprove(s) \/ CommitAction(s)
    \/ MarkRevalidation(s) \/ FlagRecalculation(s)

Jobs == \/ \E past \in SUBSET Action : Hygiene(past)
        \/ \E e \in Employee : EmployeeContextUpdated(e)
=============================================================================
