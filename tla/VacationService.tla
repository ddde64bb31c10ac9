--------------------------- MODULE VacationService ---------------------------
(***************************************************************************)
(* employee-vacation.service.ts: the monthly provision, which the worker   *)
(* starts every hour and an endpoint of operations starts by hand, and the *)
(* deduction that apply asks for after it has committed.                   *)
(***************************************************************************)
EXTENDS VacationTables

KeepOthers == UNCHANGED <<today, employee, action, payroll, transfer, mix>>

(* runDailyProvision *)

\* The SELECT at the start of a run: its rows, with the anchor and the last
\* provision they had then.
Selected(e, hoy) ==
    [e |-> e,
     ancla |-> account[e].ingreso % 2,
     due   |-> NextDue(IF account[e].ultima = Never THEN account[e].ingreso
                                                    ELSE account[e].ultima,
                       account[e].ingreso % 2),
     corte |-> IF employee[e].salida < hoy THEN employee[e].salida ELSE hoy]

\* The accounts a run works on are active, as their owners are.
Provisioned(e) == account[e].activa /\ employee[e].activo

\* A row with nothing due is read and left: the model drops it, and a run
\* that finds nothing due is a stuttering step.
DueRows(hoy) ==
    {r \in {Selected(e, hoy) : e \in {x \in Employee : Provisioned(x)}} : r.due <= r.corte}

StartRun(v) ==
    /\ run[v] = IdleRun
    /\ DueRows(today) # {}
    /\ StepRun(v, [IdleRun EXCEPT !.pc = "rows", !.hoy = today, !.todo = DueRows(today)])
    /\ KeepOthers /\ UNCHANGED <<account, ledger, request, faults>>

NextRow(v) ==
    /\ run[v].pc = "rows"
    /\ \E r \in run[v].todo :
          StepRun(v, [run[v] EXCEPT !.pc = "due", !.todo = @ \ {r}, !.e = r.e, !.ancla = r.ancla,
                                    !.due = r.due, !.corte = r.corte])
    /\ KeepOthers /\ UNCHANGED <<account, ledger, request, faults>>

\* The rows of the run that are left.
LeaveRow(r) == IF r.todo = {} THEN IdleRun
               ELSE [IdleRun EXCEPT !.pc = "rows", !.hoy = r.hoy, !.todo = r.todo]

\* Mutant: the loop does not look at the cutoff again.
AdvanceUnchecked(r) == IF r.due > LastDay THEN LeaveRow(r)
                       ELSE [r EXCEPT !.pc = "due", !.due = NextDue(r.due, r.ancla), !.snap = NoEmployee]

\* The next month of the same row, while it is not beyond the cutoff.
Advance(r) == LET due == NextDue(r.due, r.ancla) IN
              IF due <= r.corte THEN [r EXCEPT !.pc = "due", !.due = due, !.snap = NoEmployee]
              ELSE LeaveRow(r)

\* The transaction of a month reads; an employee inactivated meanwhile, or an
\* account that is not active, is skipped, and the loop goes on to the next month.
ReadMonth(v) ==
    LET r == run[v] IN
    /\ r.pc = "due"
    /\ StepRun(v, IF Provisioned(r.e) THEN [r EXCEPT !.pc = "tx", !.snap = Snapshot(r.e)]
                                      ELSE Advance(r))
    /\ KeepOthers /\ UNCHANGED <<account, ledger, request, faults>>

Accrual(r) == Row("MONTHLY_ACCRUAL", 1, LastBalance(r.e, r.snap) + 1, Month(r.due),
                  "VACATION_MONTHLY_PROVISION", NoEmployee, r.snap.emp.empresa)

\* The movements of the month: none when the snapshot already holds it.
MonthRows(r) == IF AccruedBefore(r.e, r.snap, Month(r.due)) THEN <<>> ELSE <<Accrual(r)>>

\* Mutant: the last provision is only saved when a movement was created.
LastProvisionIfCreated(r) == IF MonthRows(r) = <<>> THEN account[r.e].ultima ELSE r.due

\* save() compares the account with the snapshot, so a month that is already the
\* last provision is not written.
LastProvision(r) == IF r.snap.acc.ultima = r.due THEN account[r.e].ultima ELSE r.due

CommitMonth(v) ==
    LET r == run[v] IN
    /\ r.pc = "tx"
    /\ LedgerAllows(r.e, MonthRows(r))
    /\ Book(r.e, MonthRows(r))
    /\ account' = [account EXCEPT ![r.e].ultima = LastProvision(r)]
    /\ StepRun(v, Advance(r))
    /\ KeepOthers /\ UNCHANGED <<request, faults>>

\* A duplicate key aborts the transaction; the run gives the employee up.
AbortMonth(v) ==
    LET r == run[v] IN
    /\ r.pc = "tx"
    /\ ~LedgerAllows(r.e, MonthRows(r))
    /\ StepRun(v, LeaveRow(r))
    /\ KeepOthers /\ UNCHANGED <<account, ledger, request, faults>>

Provision(v) == StartRun(v) \/ NextRow(v) \/ ReadMonth(v) \/ CommitMonth(v) \/ AbortMonth(v)

\* The process of the worker dies; the next one starts from the tables.
RunnerDies(v) ==
    /\ run[v] # IdleRun
    /\ faults < MaxFaults
    /\ faults' = faults + 1
    /\ StepRun(v, IdleRun)
    /\ KeepOthers /\ UNCHANGED <<account, ledger, request>>
----------------------------------------------------------------------------
(* applyVacationUsageFromPayroll, called by the request that applied n *)

KeepAccounts == UNCHANGED <<today, employee, account, action, payroll, transfer, run, faults, mix>>

Deductible(n) == {a \in Action : action[a].idCalendarioNomina = n /\ action[a].estado = "APPROVED"}

FindUsage(s) ==
    LET acts == Deductible(request[s].n) IN
    /\ At(s, "apply", "usage")
    /\ StepRequest(s, IF acts = {} THEN IdleRequest
                      ELSE [request[s] EXCEPT !.pc = "next", !.acts = acts])
    /\ KeepAccounts /\ UNCHANGED ledger

ReadUsage(s) ==
    /\ At(s, "apply", "next")
    /\ \E a \in request[s].acts :
          StepRequest(s, [request[s] EXCEPT !.pc = "tx", !.acts = @ \ {a}, !.a = a,
                                            !.snap = Snapshot(action[a].empleado)])
    /\ KeepAccounts /\ UNCHANGED ledger

Usage(r) == LET e == action[r.a].empleado IN
            Row("VACATION_USAGE", -1, LastBalance(e, r.snap) - 1, NoPeriod,
                "PAYROLL_APPLIED_ACTION", r.a, r.snap.emp.empresa)

UsageRows(r) ==
    IF r.snap.acc.existe /\ ~BookedBySource(action[r.a].empleado, r.snap, Usage(r))
    THEN <<Usage(r)>> ELSE <<>>

CommitUsage(s) ==
    LET r == request[s] e == action[r.a].empleado IN
    /\ At(s, "apply", "tx")
    /\ LedgerAllows(e, UsageRows(r))
    /\ Book(e, UsageRows(r))
    /\ StepRequest(s, IF r.acts = {} THEN IdleRequest
                      ELSE [r EXCEPT !.pc = "next", !.a = NoAction, !.snap = NoEmployee])
    /\ KeepAccounts

\* A duplicate key ends the request: the actions that are left are not deducted.
AbortUsage(s) ==
    LET r == request[s] IN
    /\ At(s, "apply", "tx")
    /\ ~LedgerAllows(action[r.a].empleado, UsageRows(r))
    /\ StepRequest(s, IdleRequest)
    /\ KeepAccounts /\ UNCHANGED ledger

UsageStep(s) == FindUsage(s) \/ ReadUsage(s) \/ CommitUsage(s) \/ AbortUsage(s)
=============================================================================
