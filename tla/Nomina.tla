------------------------------- MODULE Nomina -------------------------------
(***************************************************************************)
(* The payroll system: requests to the payroll service and to the personal *)
(* actions service, interleaved, with the cron of the orphans, the nightly *)
(* job and requests that fail.                                             *)
(***************************************************************************)
EXTENDS PayrollService, PersonalActionsService

HalfDone(r) == \/ r.op = "create" /\ r.pc \in {"loaded", "ready"}
               \/ r.op \in {"include", "exclude"} /\ r.pc = "ready"
               \/ r.pc \in {"orphans", "link", "mark", "flag"}

\* A request ends without an effect: a guard refused it, or its query or its
\* transaction failed before it wrote anything.
Reject(s) ==
    /\ s \in Session
    /\ request[s].pc \in {"new", "loaded", "ready"} /\ ~HalfDone(request[s])
    /\ Step(s, Idle)
    /\ UNCHANGED <<tables, cronTodo, faults>>

\* A request that has already written something dies: the rest is not done.
\* The index may also refuse the save that follows the INSERT or the marks.
Fail(s) ==
    LET refused == request[s].pc = "ready" /\ ~IndexAllows(request[s].p, Merged(s)) IN
    /\ HalfDone(request[s])
    /\ faults < MaxFaults \/ refused
    /\ faults' = IF refused THEN faults ELSE faults + 1
    /\ Step(s, Idle)
    /\ UNCHANGED <<tables, cronTodo>>

Serve(s) ==
    \/ PayrollLoad(s) \/ PayrollView(s) \/ PayrollCommit(s)
    \/ ActionLoad(s) \/ ActionStep(s) \/ Reject(s)

Next ==
    \/ \E s \in Session : Serve(s)
    \/ \E s \in Processes : Reassign(s) \/ Fail(s)
    \/ CronTick \/ CronNext
    \/ Jobs

Spec == Init /\ [][Next]_vars

\* The scheduler fires the cron every five minutes and the cron visits every
\* payroll of the tick.  Nothing is assumed of the HTTP requests.
CronFairness == WF_vars(CronTick) /\ WF_vars(CronNext) /\ WF_vars(Reassign(Cron))

FairSpec == Spec /\ CronFairness
----------------------------------------------------------------------------
\* Type correctness: every row holds states, slots and versions that its columns
\* admit, and every request in flight carries entities and ids of the tables,
\* whatever save() merged and in whatever order the handlers ran.
TypeOK ==
    /\ payroll \in [Payroll -> PayrollRow]
    /\ action \in [Action -> ActionRow]
    /\ selection \in [Payroll -> [Employee -> Mark]]
    /\ inputs \in [Payroll -> SUBSET Action]
    /\ results \in [Payroll -> SUBSET Employee]
    /\ aguinaldo \subseteq Payroll \X Employee
    /\ orphans \subseteq Payroll \X Action
    /\ request \in [Processes -> RequestRow]
    /\ cronTodo \subseteq Payroll
    /\ faults \in Nat
----------------------------------------------------------------------------
(* What must hold when requests are served one at a time *)

\* A payroll goes through the states of its diagram only, never leaves APLICADA,
\* and enters or moves to a slot only when nobody works on it.
Lifecycle == INSTANCE PayrollLifecycle
                 WITH state <- [p \in Payroll |-> payroll[p].estado],
                      slot <- [p \in Payroll |-> payroll[p].slot]

\* The tables implement the life cycle: rows, versions, tags and the index make
\* no step that the diagram lacks (the guards of payroll.service.ts).
ImplementsLifecycle == Lifecycle!Spec

Alive(p) == payroll[p].activo /\ payroll[p].estado \in Operational

\* A slot (company, period, type, currency) has at most one payroll that is
\* being worked on, however payrolls are moved, inactivated and reactivated.
OneOperationalPerSlot ==
    \A p, q \in Payroll : Alive(p) /\ Alive(q) /\ payroll[p].slot = payroll[q].slot => p = q

\* An applied payroll is a closed record: its row, its input snapshots, its
\* results and the marks it was computed from stay as they are, for the guards
\* of update, process, reopen, inactivate and updateEmployeeSelection keep out.
AppliedIsFinal ==
    [][\A p \in Payroll : payroll[p].estado = "APLICADA" =>
          /\ payroll'[p] = payroll[p]
          /\ inputs'[p] = inputs[p] /\ results'[p] = results[p]
          /\ selection'[p] = selection[p]]_vars

\* An action is consumed by the payroll it is linked to: that payroll is
\* applied and pays the action's owner.
ConsumedByAppliedPayroll ==
    \A a \in Action : action[a].estado = "CONSUMED" =>
        LET p == action[a].idCalendarioNomina IN
        p \in Payroll /\ payroll[p].estado = "APLICADA" /\ Owner[a] \in results[p]

\* A consumed, rejected or expired action never comes back to life: only an
\* invalidated one is revived, and associate, the orphans and the jobs skip them.
FinalActionsStay ==
    [][\A a \in Action : action[a].estado \in {"CONSUMED", "REJECTED", "EXPIRED"} =>
          action'[a] = action[a]]_vars

\* Whoever is paid when apply commits was selected by HR and has nothing pending
\* revalidation: a change of marks after the results asks for a new process.
SelectionRespected ==
    [][\A p \in Payroll : payroll[p].estado # "APLICADA" /\ payroll'[p].estado = "APLICADA" =>
          \A e \in results[p] : selection[p][e] = "in"]_vars

\* An action is in the input snapshots of at most one applied payroll: the
\* collector of process takes no action that another payroll holds or consumed.
PaidOnce ==
    \A p, q \in Payroll :
        payroll[p].estado = "APLICADA" /\ payroll[q].estado = "APLICADA"
        /\ inputs[p] \cap inputs[q] # {} => p = q

\* The aguinaldo provisions are those of the results of the applied payrolls: apply
\* writes them for everybody it pays and nobody else, and none is left behind.
AguinaldoMatchesResults ==
    aguinaldo = {pe \in Payroll \X Employee :
                    payroll[pe[1]].estado = "APLICADA" /\ pe[2] \in results[pe[1]]}

\* No action is lost by inactivate, reactivate and the orphans: the action that
\* a payroll lets go leaves an open item, and an item closes only when the action
\* has a payroll again, is final, or its dates fall outside that payroll's period.
NoActionLost ==
    [][/\ \A a \in Action :
             LET p == action[a].idCalendarioNomina IN
             p # NoPayroll /\ action'[a].idCalendarioNomina = NoPayroll => <<p, a>> \in orphans'
       /\ \A i \in orphans \ orphans' :
             \/ action'[i[2]].idCalendarioNomina # NoPayroll
             \/ action'[i[2]].estado \in FinalStates
             \/ Period[i[2]] # payroll[i[1]].slot]_vars

\* An inactive payroll keeps no action that could still be paid: nobody would
\* look for it there.
InactiveHoldsNothing ==
    \A a \in Action :
        LET p == action[a].idCalendarioNomina IN
        p # NoPayroll /\ payroll[p].estado = "INACTIVA" => IsFinal(a)
----------------------------------------------------------------------------
(* What must hold however requests interleave *)

\* Nobody else is saving the payroll that an update moves.
MovesApart ==
    \A s, t \in Session :
        request[s].op = "update" /\ request[s].p = request[t].p
        => s = t \/ request[t].pc \in {"idle", "orphans", "link"}

\* A payroll is applied only from VERIFICADA with nothing left to recalculate,
\* whatever stale entity another request saves.
AppliedOnlyThroughCAS ==
    [][\A p \in Payroll : payroll[p].estado # "APLICADA" /\ payroll'[p].estado = "APLICADA" =>
          payroll[p].estado = "VERIFICADA" /\ ~payroll[p].requiresRecalculation]_vars
----------------------------------------------------------------------------
(* What the cron must bring about *)

\* An orphan waits for payroll p while an item of it is open, it has no payroll
\* and is not final, and p is active and of its slot.
Waits(q, a, p) ==
    /\ <<q, a>> \in orphans
    /\ action[a].idCalendarioNomina = NoPayroll /\ ~IsFinal(a)
    /\ ActiveForReassignment(payroll[p])
    /\ SamePeriod(q, payroll[p]) /\ Period[a] = payroll[p].slot

\* No orphan waits for ever: the cron links it, or somebody ends the wait.
OrphansReassigned ==
    \A q, p \in Payroll, a \in Action : Waits(q, a, p) ~> ~Waits(q, a, p)
=============================================================================
