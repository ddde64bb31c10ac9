--------------------------- MODULE VacationTables ---------------------------
(***************************************************************************)
(* The vacation account of an employee and its ledger, with the rows of    *)
(* employees, personal actions, payrolls and company transfers they meet.  *)
(*                                                                         *)
(* MySQL runs the transactions at REPEATABLE READ: the first query takes   *)
(* a snapshot, every later query reads it, and only the unique indexes are *)
(* checked against what others committed since.  A transaction is two      *)
(* steps here, its reads (the snapshot) and its commit.                    *)
(*                                                                         *)
(* A month has two days: day d lies in month d \div 2, and the anchor of   *)
(* an account is the day of the month on which its owner was hired.        *)
(***************************************************************************)
EXTENDS Integers, Sequences, FiniteSets

CONSTANTS
    Employee,   \* ids of sys_empleados
    Company,
    Payroll,    \* payrolls of one period, which holds the dates of transfers and actions
    Action,     \* vacation requests, one day each; ids of acc_acciones_personal
    Transfer,   \* ids of sys_empleado_transferencias
    Runner,     \* callers of runDailyProvision: the workers and the endpoint of operations
    Session,    \* HTTP requests in flight
    CompanyOf,  \* the company of a payroll
    Crossing,   \* the requests that begin before the date of a transfer and end after it
    NoPayroll, NoCompany, NoEmployee, NoAction, NoTransfer,
    InitialDays,\* days an employee brings when hired
    LastHire,   \* bound: the last day on which an employee is hired
    LastDay,    \* bound: the last day of the model
    MaxFaults,  \* bound: processes that die half-way
    Mixes       \* what may overlap: each a set of runners, sessions and groups of operations

ASSUME VacationAssumption ==
    /\ Company # {} /\ NoCompany \notin Company
    /\ CompanyOf \in [Payroll -> Company]
    /\ NoPayroll \notin Payroll /\ NoEmployee \notin Employee
    /\ NoAction \notin Action /\ NoTransfer \notin Transfer
    /\ Crossing \subseteq Action
    /\ InitialDays \in Nat /\ LastDay \in Nat /\ LastHire \in 0..LastDay
    /\ MaxFaults \in Nat

VARIABLES
    today,     \* the date in Costa Rica
    employee,  \* sys_empleados
    account,   \* sys_empleado_vacaciones_cuenta
    ledger,    \* sys_empleado_vacaciones_ledger, the rows of each employee in order of id
    action,    \* acc_acciones_personal, the vacations
    payroll,   \* nom_calendarios_nomina: its estado
    transfer,  \* sys_empleado_transferencias
    run,       \* the provision runs in flight
    request,   \* the HTTP requests in flight
    faults,    \* processes that died so far
    mix        \* the mix of this behaviour

tables == <<employee, account, ledger, action, payroll, transfer>>
vars == <<today, employee, account, ledger, action, payroll, transfer, run, request, faults, mix>>
----------------------------------------------------------------------------
Day == 0..LastDay
Never == LastDay + 2   \* no date of departure, no provision yet

Month(d) == d \div 2

\* addOneMonthWithAnchor: the anchor day of the month after d.
NextDue(d, ancla) == 2 * (Month(d) + 1) + ancla

EmployeeRow == [activo : BOOLEAN, empresa : Company \cup {NoCompany}, salida : Day \cup {Never}]
NoEmployeeRow == [activo |-> FALSE, empresa |-> NoCompany, salida |-> Never]

\* existe distinguishes the accounts that were created; activa is the estado they were
\* created with, which nothing changes later; ingreso is the anchor date.
AccountRow == [existe : BOOLEAN, activa : BOOLEAN, empresa : Company \cup {NoCompany},
               ingreso : Day, ultima : Day \cup {Never}]
NoAccountRow == [existe |-> FALSE, activa |-> FALSE, empresa |-> NoCompany, ingreso |-> 0,
                 ultima |-> Never]

Movement == {"INITIAL", "MONTHLY_ACCRUAL", "VACATION_USAGE", "ADJUSTMENT"}
SourceType == {"EMPLOYEE_CREATE", "VACATION_MONTHLY_PROVISION", "PAYROLL_APPLIED_ACTION",
               "TRANSFER_OUT", "TRANSFER_IN"}

ActionRow == [estado : {"NONE", "PENDING_RRHH", "APPROVED", "CONSUMED"},
              empleado : Employee \cup {NoEmployee},
              idCalendarioNomina : Payroll \cup {NoPayroll}]

TransferRow == [estado : {"NONE", "SIMULATED", "EXECUTED", "FAILED"},
                empleado : Employee \cup {NoEmployee},
                origen : Company \cup {NoCompany}, destino : Company \cup {NoCompany}]

Hired(e) == employee[e].empresa # NoCompany
----------------------------------------------------------------------------
(* Transactions *)

\* What a transaction on employee e reads: its row, its account, and how many
\* rows its ledger has (rows are never changed or deleted).
Snapshot(e) == [emp |-> employee[e], acc |-> account[e], rows |-> Len(ledger[e])]

Row(tipo, delta, saldo, periodo, fuente, id, empresa) ==
    [tipo |-> tipo, delta |-> delta, saldo |-> saldo, periodo |-> periodo,
     fuente |-> fuente, id |-> id, empresa |-> empresa]

\* The balance is read from the last movement the snapshot holds.
LastBalance(e, snap) == IF snap.rows = 0 THEN 0 ELSE ledger[e][snap.rows].saldo

\* appendMovement finds the source first: with its company, which the index lacks.
BookedBySource(e, snap, row) ==
    \E i \in 1..snap.rows : /\ ledger[e][i].fuente = row.fuente /\ ledger[e][i].id = row.id
                            /\ ledger[e][i].tipo = row.tipo
                            /\ ledger[e][i].empresa = row.empresa

AccruedBefore(e, snap, periodo) ==
    \E i \in 1..snap.rows : /\ ledger[e][i].tipo = "MONTHLY_ACCRUAL"
                            /\ ledger[e][i].periodo = periodo

\* The unique indexes of the ledger: (employee, type, period) and (source type,
\* source id, type), where a NULL period or a NULL id is never equal to another.
NoPeriod == -1

SameMovement(x, y) ==
    /\ x.tipo = y.tipo
    /\ \/ x.periodo # NoPeriod /\ x.periodo = y.periodo
       \/ x.fuente # "VACATION_MONTHLY_PROVISION" /\ x.fuente = y.fuente /\ x.id = y.id

\* Mutant: the ledger has no unique index.
NoLedgerIndex(e, rows) == TRUE

LedgerAllows(e, rows) ==
    \A i \in DOMAIN ledger[e], j \in DOMAIN rows : ~SameMovement(ledger[e][i], rows[j])

Book(e, rows) == ledger' = [ledger EXCEPT ![e] = @ \o rows]
----------------------------------------------------------------------------
(* Processes *)

IdleRun == [pc |-> "idle", hoy |-> 0, todo |-> {}, e |-> NoEmployee, ancla |-> 0, due |-> 0,
            corte |-> 0, snap |-> NoEmployee]

IdleRequest == [op |-> "none", pc |-> "idle", n |-> NoPayroll, t |-> NoTransfer,
                a |-> NoAction, e |-> NoEmployee, acts |-> {}, emp |-> NoEmployeeRow,
                snap |-> NoEmployee]

StepRun(v, r) == run' = [run EXCEPT ![v] = r]
StepRequest(s, r) == request' = [request EXCEPT ![s] = r]

At(s, op, pc) == request[s].op = op /\ request[s].pc = pc

\* Employees hired before there were accounts: the migration opened those whose
\* anchor day every month has, active or not as their owner is.
Migrated(legacy, actives, migrated, c) ==
    /\ employee = [e \in Employee |-> IF e \notin legacy THEN NoEmployeeRow
          ELSE [NoEmployeeRow EXCEPT !.activo = (e \in actives), !.empresa = c]]
    /\ account = [e \in Employee |-> IF e \notin migrated THEN NoAccountRow
          ELSE [NoAccountRow EXCEPT !.existe = TRUE, !.activa = (e \in actives), !.empresa = c]]

Init ==
    /\ today = 0
    /\ \E legacy \in SUBSET Employee, c \in Company :
       \E actives \in SUBSET legacy, migrated \in SUBSET legacy : Migrated(legacy, actives, migrated, c)
    /\ ledger = [e \in Employee |-> <<>>]
    /\ action = [a \in Action |-> [estado |-> "NONE", empleado |-> NoEmployee,
                                   idCalendarioNomina |-> NoPayroll]]
    /\ payroll \in [Payroll -> {"ABIERTA", "APLICADA"}]
    /\ transfer = [t \in Transfer |-> [estado |-> "NONE", empleado |-> NoEmployee,
                                       origen |-> NoCompany, destino |-> NoCompany]]
    /\ run = [v \in Runner |-> IdleRun]
    /\ request = [s \in Session |-> IdleRequest]
    /\ faults = 0
    /\ mix \in Mixes
    /\ \/ mix \cap {"transfers", "payrolls"} # {}     \* where payrolls do not matter ...
       \/ \A n \in Payroll : payroll[n] = "APLICADA"  \* ... they are applied
=============================================================================
