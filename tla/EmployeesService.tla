-------------------------- MODULE EmployeesService --------------------------
(***************************************************************************)
(* employees.service.ts and the creation workflow: what the life of an     *)
(* employee does to its row and to its vacation account.                   *)
(***************************************************************************)
EXTENDS VacationTables

KeepRest == UNCHANGED <<today, action, payroll, transfer, run, faults, mix>>

\* The workflow inserts the employee, its account and its opening movement in
\* one transaction.
Hire(e, c, d) ==
    /\ ~Hired(e)
    /\ employee' = [employee EXCEPT ![e] = [activo |-> TRUE, empresa |-> c, salida |-> Never]]
    /\ account' = [account EXCEPT ![e] = [existe |-> TRUE, activa |-> TRUE, empresa |-> c,
                                          ingreso |-> d, ultima |-> Never]]
    /\ Book(e, <<Row("INITIAL", InitialDays, InitialDays, NoPeriod, "EMPLOYEE_CREATE", e, c)>>)
    /\ KeepRest /\ UNCHANGED request

\* update with a new join date: the anchor moves, what was provisioned stays.  An
\* employee without an account gets one, with no opening movement: it is active if
\* its owner is, and stays as it is when the owner is reactivated later.
ChangeJoinDate(e, d) ==
    /\ Hired(e)
    /\ account' = [account EXCEPT ![e] =
          IF @.existe THEN [@ EXCEPT !.ingreso = d]
          ELSE [existe |-> TRUE, activa |-> employee[e].activo, empresa |-> employee[e].empresa,
                ingreso |-> d, ultima |-> Never]]
    /\ KeepRest /\ UNCHANGED <<employee, ledger, request>>

\* assertCanInactivateEmployee: no payroll of the company is open, and no
\* action waits for a payroll.
CanInactivate(e) ==
    /\ \A n \in Payroll : CompanyOf[n] = employee[e].empresa => payroll[n] = "APLICADA"
    /\ \A a \in Action : action[a].empleado = e /\ action[a].estado \in {"PENDING_RRHH", "APPROVED"}
                         => action[a].idCalendarioNomina # NoPayroll

\* inactivate, reactivate and liquidar keep the entity they read ...
LoadEmployee(s, e, op) ==
    /\ request[s] = IdleRequest
    /\ Hired(e)
    /\ op = "inactivate" => CanInactivate(e)
    /\ StepRequest(s, [IdleRequest EXCEPT !.op = op, !.pc = "loaded", !.e = e,
          !.emp = [employee[e] EXCEPT !.activo = (op = "reactivate"),
                                      !.salida = IF op = "liquidate" THEN today ELSE @]])
    /\ KeepRest /\ UNCHANGED <<employee, account, ledger>>

\* ... and save it whole: save() re-reads the row and writes every column in
\* which the entity differs, also the company when a transfer ran in between.
SaveEmployee(s) ==
    /\ request[s].op \in {"inactivate", "reactivate", "liquidate"} /\ request[s].pc = "loaded"
    /\ employee' = [employee EXCEPT ![request[s].e] = request[s].emp]
    /\ StepRequest(s, IdleRequest)
    /\ KeepRest /\ UNCHANGED <<account, ledger>>

EmployeeStep ==
    \/ \E e \in Employee, c \in Company, d \in 0..LastHire : Hire(e, c, d)
    \/ \E e \in Employee, d \in 0..LastHire : ChangeJoinDate(e, d)

StaffStep(s) ==
    \/ \E e \in Employee, op \in {"inactivate", "reactivate", "liquidate"} : LoadEmployee(s, e, op)
    \/ SaveEmployee(s)
=============================================================================
