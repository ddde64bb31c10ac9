------------------------------ MODULE Vacations ------------------------------
(***************************************************************************)
(* The vacation days of the employees: hiring, the monthly provision, the  *)
(* moves between companies, and the payrolls that consume vacations, all   *)
(* interleaved.                                                            *)
(***************************************************************************)
EXTENDS VacationService, EmployeesService, IntercompanyTransfer

Quiet == UNCHANGED <<today, employee, account, ledger, transfer, run, mix>>

Tick == /\ today < LastDay /\ mix \cap Runner # {}
        /\ today' = today + 1
        /\ UNCHANGED <<tables, run, request, faults, mix>>
----------------------------------------------------------------------------
(* The personal actions and the payrolls, as far as a vacation meets them; *)
(* Nomina has the handlers in full.                                        *)

\* RRHH registers a vacation of an employee in an open payroll of the company,
\* or in none.
Register(a, e, n) ==
    /\ action[a].estado = "NONE" /\ Hired(e)
    /\ n \in {NoPayroll} \cup {m \in Payroll : /\ CompanyOf[m] = employee[e].empresa
                                              /\ payroll[m] = "ABIERTA"}
    /\ action' = [action EXCEPT ![a] = [estado |-> "PENDING_RRHH", empleado |-> e,
                                        idCalendarioNomina |-> n]]
    /\ Quiet /\ UNCHANGED <<payroll, request, faults>>

Approve(a) ==
    /\ action[a].estado = "PENDING_RRHH"
    /\ action' = [action EXCEPT ![a].estado = "APPROVED"]
    /\ Quiet /\ UNCHANGED <<payroll, request, faults>>

\* A payroll is processed and verified: nothing here tells the two steps apart.
Verify(n) ==
    /\ payroll[n] = "ABIERTA"
    /\ payroll' = [payroll EXCEPT ![n] = "VERIFICADA"]
    /\ Quiet /\ UNCHANGED <<action, request, faults>>

\* apply commits the payroll and consumes the approved actions of the employees
\* that are selected; the deduction of their days is a later step of the request.
ConsumedBy(n, selected) ==
    {a \in Action : /\ action[a].idCalendarioNomina = n /\ action[a].estado = "APPROVED"
                    /\ action[a].empleado \in selected}

Apply(s, n, selected) ==
    /\ request[s] = IdleRequest
    /\ payroll[n] = "VERIFICADA"
    /\ payroll' = [payroll EXCEPT ![n] = "APLICADA"]
    /\ action' = [a \in Action |-> IF a \in ConsumedBy(n, selected)
                                   THEN [action[a] EXCEPT !.estado = "CONSUMED"] ELSE action[a]]
    /\ StepRequest(s, [IdleRequest EXCEPT !.op = "apply", !.pc = "usage", !.n = n])
    /\ Quiet /\ UNCHANGED faults

PayrollStep ==
    \/ \E a \in Action, e \in Employee, n \in Payroll \cup {NoPayroll} : Register(a, e, n)
    \/ \E a \in Action : Approve(a)
    \/ \E n \in Payroll : Verify(n)

ApplyStep(s) ==
    \/ \E n \in Payroll, selected \in SUBSET Employee : Apply(s, n, selected)
    \/ UsageStep(s)

----------------------------------------------------------------------------
Next ==
    \/ Tick
    \/ \E v \in Runner \cap mix : Provision(v) \/ RunnerDies(v)
    \/ EmployeeStep
    \/ \E s \in Session \cap mix : "hr" \in mix /\ StaffStep(s)
    \/ "transfers" \in mix /\ SimulateStep
    \/ \E s \in Session \cap mix : "transfers" \in mix /\ TransferStep(s)
    \/ "payrolls" \in mix /\ PayrollStep
    \/ \E s \in Session \cap mix : "payrolls" \in mix /\ ApplyStep(s)

Spec == Init /\ [][Next]_vars

\* The worker starts a provision every hour and works its rows off.
FairSpec == Spec /\ \A v \in Runner : WF_vars(v \in mix /\ Provision(v))
----------------------------------------------------------------------------
\* Type correctness; in particular no account is provisioned ahead of the calendar,
\* though a run goes on with the anchor, the cutoff and the date it read at its start
\* (runDailyProvision).
TypeOK ==
    /\ today \in Day
    /\ employee \in [Employee -> EmployeeRow]
    /\ account \in [Employee -> AccountRow]
    /\ \A e \in Employee : account[e].ultima \in 0..today \cup {Never}
    /\ \A e \in Employee : ledger[e] \in Seq([tipo : Movement, delta : Int, saldo : Int,
          periodo : Int, fuente : SourceType, id : Employee \cup Action \cup Transfer \cup {NoEmployee},
          empresa : Company])
    /\ action \in [Action -> ActionRow]
    /\ payroll \in [Payroll -> {"ABIERTA", "VERIFICADA", "APLICADA"}]
    /\ transfer \in [Transfer -> TransferRow]
    /\ faults \in 0..MaxFaults

\* "Idempotencia mensual obligatoria": no month is provisioned twice, no vacation
\* deducted twice and no transfer booked twice, however many runs, requests and
\* retries overlap (appendMovement and the indexes of the ledger).
NoMovementTwice ==
    \A e \in Employee : \A i, j \in DOMAIN ledger[e] :
        SameMovement(ledger[e][i], ledger[e][j]) => i = j

BookedDays(e, t, fuente) ==
    {ledger[e][i].delta : i \in {k \in DOMAIN ledger[e] : /\ ledger[e][k].fuente = fuente
                                                          /\ ledger[e][k].id = t}}

\* A transfer takes as many days out of one company as it brings into the other,
\* also when a provision, a deduction or a second execution commits in between, and
\* one that says EXECUTED did so (executeSingle, transferBalanceForIntercompany).
TransfersBalance ==
    \A t \in Transfer, e \in Employee :
        /\ BookedDays(e, t, "TRANSFER_IN") = {-d : d \in BookedDays(e, t, "TRANSFER_OUT")}
        /\ transfer[t].estado = "EXECUTED" /\ transfer[t].empleado = e
              => BookedDays(e, t, "TRANSFER_IN") # {}

CaughtUp(e) ==
    \/ ~Provisioned(e)
    \/ Selected(e, today).due > Selected(e, today).corte

\* The provision of every active employee whose account is active keeps up with the
\* calendar although runs die, abort on a duplicate, skip months or move the last
\* provision back: the hourly run always repairs what the one before left undone
\* (runDailyProvision).  It says nothing of an account that was opened while its owner
\* was inactive: reactivate leaves it inactive, and no run ever looks at it again.
ProvisionCatchesUp == \A e \in Employee : []<>CaughtUp(e)
----------------------------------------------------------------------------
(* What the documents say and the code does not do *)

\* "Las vacaciones ejecutadas por planilla aplicada restan dias": when the request
\* that applied the payroll is done, the vacations it consumed are deducted.
ConsumedIsDeducted ==
    \A a \in Action :
        action[a].estado = "CONSUMED" /\ (\A s \in Session : request[s].op # "apply")
            => BookedDays(action[a].empleado, a, "PAYROLL_APPLIED_ACTION") # {}
=============================================================================
