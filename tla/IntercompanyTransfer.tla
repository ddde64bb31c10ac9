------------------------ MODULE IntercompanyTransfer ------------------------
(***************************************************************************)
(* intercompany-transfer.service.ts: an employee moves to another company  *)
(* with the vacation balance and the personal actions.  A transfer is      *)
(* simulated first and executed by a later request, which simulates again. *)
(* The aguinaldo provision and the reactivation items it also writes are   *)
(* not modelled.                                                           *)
(***************************************************************************)
EXTENDS VacationTables

KeepMoved == UNCHANGED <<today, payroll, run, faults, mix>>

\* The payrolls of a company that are not applied yet: the date of the transfer
\* lies in their period.
Blocking(c) == \E n \in Payroll : CompanyOf[n] = c /\ payroll[n] # "APLICADA"

Movable(e) == {a \in Action : action[a].empleado = e
                              /\ action[a].estado \in {"PENDING_RRHH", "APPROVED"}}

Linked(a) == action[a].idCalendarioNomina # NoPayroll

\* The simulation: why employee e may go to company c.
Transferable(e, c) ==
    /\ employee[e].activo
    /\ employee[e].empresa # c
    /\ ~Blocking(employee[e].empresa)
    /\ \A a \in Movable(e) : ~(a \in Crossing /\ Linked(a))
    /\ Movable(e) # {} => \E n \in Payroll : CompanyOf[n] = c

\* What simulate reads, execute reads again: it is one step.
Simulate(t, e, c) ==
    /\ transfer[t].estado = "NONE"
    /\ Hired(e) /\ Transferable(e, c)
    /\ transfer' = [transfer EXCEPT ![t] = [estado |-> "SIMULATED", empleado |-> e,
                                            origen |-> employee[e].empresa, destino |-> c]]
    /\ KeepMoved /\ UNCHANGED <<employee, account, ledger, action, request>>

LoadExecute(s, t) ==
    /\ request[s] = IdleRequest
    /\ transfer[t].estado = "SIMULATED"
    /\ StepRequest(s, [IdleRequest EXCEPT !.op = "execute", !.pc = "loaded", !.t = t])
    /\ KeepMoved /\ UNCHANGED tables

\* The second simulation, outside the transaction, plans what to move.
Resimulate(s) ==
    LET t == request[s].t e == transfer[t].empleado IN
    /\ At(s, "execute", "loaded")
    /\ StepRequest(s, IF Transferable(e, transfer[t].destino)
                      THEN [request[s] EXCEPT !.pc = "planned", !.e = e, !.acts = Movable(e)]
                      ELSE [request[s] EXCEPT !.pc = "refused"])
    /\ KeepMoved /\ UNCHANGED tables

\* A refused execution saves the entity it read at first: save() finds that the
\* state differs from the row, whatever the row says by now.
FailTransfer(s) ==
    /\ At(s, "execute", "refused")
    /\ transfer' = [transfer EXCEPT ![request[s].t].estado = "FAILED"]
    /\ StepRequest(s, IdleRequest)
    /\ KeepMoved /\ UNCHANGED <<employee, account, ledger, action>>

\* The transaction reads; the employee must still be in the company of origin.
BeginTransfer(s) ==
    LET t == request[s].t e == request[s].e IN
    /\ At(s, "execute", "planned")
    /\ StepRequest(s, IF employee[e].empresa = transfer[t].origen
                      THEN [request[s] EXCEPT !.pc = "tx", !.snap = Snapshot(e)]
                      ELSE IdleRequest)
    /\ KeepMoved /\ UNCHANGED tables

\* An account that is missing is opened with no days.
Opening(e, snap) ==
    IF snap.acc.existe THEN <<>>
    ELSE <<Row("INITIAL", 0, LastBalance(e, snap), NoPeriod, "EMPLOYEE_CREATE", e, snap.emp.empresa)>>

\* Mutant: the days leave the origin and never reach the destination.
TransferRowsOut(e, t, snap) ==
    <<Row("ADJUSTMENT", -LastBalance(e, snap), 0, NoPeriod, "TRANSFER_OUT", t, transfer[t].origen)>>

\* The balance leaves the company of origin and enters the other one.
TransferRows(e, t, snap) ==
    LET days == LastBalance(e, snap) IN
    <<Row("ADJUSTMENT", -days, 0, NoPeriod, "TRANSFER_OUT", t, transfer[t].origen),
      Row("ADJUSTMENT", days, days, NoPeriod, "TRANSFER_IN", t, transfer[t].destino)>>

Booking(r) == Opening(r.e, r.snap) \o TransferRows(r.e, r.t, r.snap)

\* The planned actions go to payroll n of the destination, whatever became of
\* them; one that crosses the date and has no payroll is split: a copy from the
\* date on goes, the original stays.
MovedActions(r, n, copy) ==
    LET split == {a \in r.acts : a \in Crossing /\ ~Linked(a)} IN
    [a \in Action |->
        IF a \in r.acts \ split THEN [action[a] EXCEPT !.idCalendarioNomina = n]
        ELSE IF \E o \in split : copy[o] = a
             THEN [action[CHOOSE o \in split : copy[o] = a] EXCEPT !.idCalendarioNomina = n]
        ELSE action[a]]

\* The rows of the copies.
Copies(r) ==
    LET split == {a \in r.acts : a \in Crossing /\ ~Linked(a)}
        free == {a \in Action \ Crossing : action[a].estado = "NONE"} IN
    {c \in [split -> free] : \A x, y \in split : c[x] = c[y] => x = y}

\* An account is opened active or not as its owner is; one account per employee.
Opened(r) == IF r.snap.acc.existe THEN account[r.e].activa ELSE r.snap.emp.activo

Bookable(r) == /\ LedgerAllows(r.e, Booking(r))
               /\ account[r.e].existe => r.snap.acc.existe

CommitTransfer(s) ==
    LET r == request[s] c == transfer[r.t].destino IN
    /\ At(s, "execute", "tx")
    /\ Bookable(r)
    /\ \/ r.acts = {} /\ UNCHANGED action
       \/ \E n \in {m \in Payroll : CompanyOf[m] = c}, copy \in Copies(r) :
             r.acts # {} /\ action' = MovedActions(r, n, copy)
    /\ Book(r.e, Booking(r))
    /\ account' = [account EXCEPT ![r.e].existe = TRUE, ![r.e].activa = Opened(r),
                                  ![r.e].empresa = c]
    /\ employee' = [employee EXCEPT ![r.e].empresa = c]
    /\ transfer' = [transfer EXCEPT ![r.t].estado = "EXECUTED"]
    /\ StepRequest(s, IdleRequest)
    /\ KeepMoved

\* A duplicate key aborts the whole transaction.
AbortTransfer(s) ==
    /\ At(s, "execute", "tx")
    /\ ~Bookable(request[s])
    /\ StepRequest(s, IdleRequest)
    /\ KeepMoved /\ UNCHANGED tables

SimulateStep == \E t \in Transfer, e \in Employee, c \in Company : Simulate(t, e, c)

TransferStep(s) ==
    \/ \E t \in Transfer : LoadExecute(s, t)
    \/ Resimulate(s) \/ FailTransfer(s) \/ BeginTransfer(s) \/ CommitTransfer(s)
    \/ AbortTransfer(s)
=============================================================================
