--------------------------- MODULE VacationProofs ---------------------------
(***************************************************************************)
(* What holds of the accounts and the ledger of vacation days for every    *)
(* number of employees, companies, payrolls, transfers, runs and requests, *)
(* and for every mix of them: what is booked, and that all is well typed.  *)
(***************************************************************************)
EXTENDS Vacations, TLAPS

(* The shapes of rows; dates are integers, as runs may read any of them. *)

Owners == Employee \cup Action \cup Transfer \cup {NoEmployee}
Companies == Company \cup {NoCompany}

EmployeeShape == [activo : BOOLEAN, empresa : Companies, salida : Int]
AccountShape == [existe : BOOLEAN, activa : BOOLEAN, empresa : Companies, ingreso : Int, ultima : Int]
MovementShape == [tipo : Movement, delta : Int, saldo : Int, periodo : Int, fuente : SourceType,
                  id : Owners, empresa : Companies]
SnapshotShape == [emp : EmployeeShape, acc : AccountShape, rows : Nat]
----------------------------------------------------------------------------
(* The ledger *)

DistinctRows(rows) == \A i, j \in DOMAIN rows : SameMovement(rows[i], rows[j]) => i = j

Ends == {"TRANSFER_IN", "TRANSFER_OUT"}

\* y is the other end of the transfer that x books.
OtherEnd(x, y) == /\ y.fuente \in Ends /\ y.fuente # x.fuente
                  /\ y.id = x.id /\ y.delta = -x.delta

BalancedRows(rows) ==
    \A i \in DOMAIN rows : rows[i].fuente \in Ends => \E j \in DOMAIN rows : OtherEnd(rows[i], rows[j])

LedgerOk ==
    /\ ledger \in [Employee -> Seq(MovementShape)]
    /\ \A e \in Employee : DistinctRows(ledger[e]) /\ BalancedRows(ledger[e])

\* Movements are added at the end and never changed.
Longer ==
    \A e \in Employee :
        /\ Len(ledger[e]) <= Len(ledger'[e])
        /\ \A i \in 1..Len(ledger[e]) : ledger'[e][i] = ledger[e][i]

\* The columns of the unique indexes are compared the same way in both directions.
LEMMA SameMovementSymmetric ==
    ASSUME NEW x, NEW y PROVE SameMovement(x, y) <=> SameMovement(y, x)
  BY DEF SameMovement

\* Rows that differ from each other and from those of the sequence can be appended.
LEMMA AppendDistinct ==
    ASSUME NEW s \in Seq(MovementShape), NEW rows \in Seq(MovementShape),
           DistinctRows(s), DistinctRows(rows),
           \A i \in DOMAIN s, j \in DOMAIN rows : ~SameMovement(s[i], rows[j])
    PROVE  DistinctRows(s \o rows)
<1> SUFFICES ASSUME NEW i \in 1..(Len(s) + Len(rows)), NEW j \in 1..(Len(s) + Len(rows)),
                    SameMovement((s \o rows)[i], (s \o rows)[j])
             PROVE  i = j
  BY DEF DistinctRows
<1> DEFINE row(k) == IF k <= Len(s) THEN s[k] ELSE rows[k - Len(s)]
<1>1. \A k \in 1..(Len(s) + Len(rows)) : (s \o rows)[k] = row(k)
  OBVIOUS
<1>2. SameMovement(row(i), row(j))
  BY <1>1
<1>3. CASE i <= Len(s) /\ j <= Len(s)
  BY <1>2, <1>3 DEF DistinctRows
<1>4. CASE i > Len(s) /\ j > Len(s)
  <2>1. i - Len(s) \in DOMAIN rows /\ j - Len(s) \in DOMAIN rows
    BY <1>4
  <2>2. i - Len(s) = j - Len(s)
    BY <1>2, <1>4, <2>1 DEF DistinctRows
  <2> QED
    BY <2>2
<1>5. CASE i <= Len(s) /\ j > Len(s)
  <2>1. i \in DOMAIN s /\ j - Len(s) \in DOMAIN rows
    BY <1>5
  <2> QED
    BY <1>2, <1>5, <2>1
<1>6. CASE i > Len(s) /\ j <= Len(s)
  <2>1. j \in DOMAIN s /\ i - Len(s) \in DOMAIN rows
    BY <1>6
  <2>2. SameMovement(s[j], rows[i - Len(s)])
    BY <1>2, <1>6, <2>1, SameMovementSymmetric
  <2> QED
    BY <2>1, <2>2
<1> QED
  BY <1>3, <1>4, <1>5, <1>6

\* Balanced rows appended to balanced rows are balanced.
LEMMA AppendBalanced ==
    ASSUME NEW s \in Seq(MovementShape), NEW rows \in Seq(MovementShape),
           BalancedRows(s), BalancedRows(rows)
    PROVE  BalancedRows(s \o rows)
<1>0. DOMAIN (s \o rows) = 1..(Len(s) + Len(rows))
  OBVIOUS
<1> SUFFICES ASSUME NEW i \in 1..(Len(s) + Len(rows)), (s \o rows)[i].fuente \in Ends
             PROVE  \E j \in 1..(Len(s) + Len(rows)) : OtherEnd((s \o rows)[i], (s \o rows)[j])
  BY <1>0, Zenon DEF BalancedRows
<1>1. CASE i <= Len(s)
  <2>1. i \in DOMAIN s /\ (s \o rows)[i] = s[i]
    BY <1>1
  <2>2. PICK j \in DOMAIN s : OtherEnd(s[i], s[j])
    BY <2>1 DEF BalancedRows
  <2>3. (s \o rows)[j] = s[j] /\ j \in 1..(Len(s) + Len(rows))
    OBVIOUS
  <2> QED
    BY <2>1, <2>2, <2>3
<1>2. CASE i > Len(s)
  <2>1. i - Len(s) \in DOMAIN rows /\ (s \o rows)[i] = rows[i - Len(s)]
    BY <1>2
  <2>2. PICK j \in DOMAIN rows : OtherEnd(rows[i - Len(s)], rows[j])
    BY <2>1 DEF BalancedRows
  <2>3. (s \o rows)[j + Len(s)] = rows[j] /\ j + Len(s) \in 1..(Len(s) + Len(rows))
    OBVIOUS
  <2> QED
    BY <2>1, <2>2, <2>3
<1> QED
  BY <1>1, <1>2

\* Whoever books distinct, balanced rows that the indexes allow keeps the ledger in order.
LEMMA BookKeeps ==
    ASSUME LedgerOk, NEW e \in Employee, NEW rows \in Seq(MovementShape),
           DistinctRows(rows), BalancedRows(rows), LedgerAllows(e, rows), Book(e, rows)
    PROVE  /\ LedgerOk' /\ Longer
           /\ \A x \in Employee \ {e} : ledger'[x] = ledger[x]
           /\ ledger'[e] = ledger[e] \o rows
<1>1. /\ ledger' = [ledger EXCEPT ![e] = ledger[e] \o rows]
      /\ ledger[e] \in Seq(MovementShape)
      /\ ledger \in [Employee -> Seq(MovementShape)]
  BY DEF Book, LedgerOk
<1>2. ledger[e] \o rows \in Seq(MovementShape)
  BY <1>1
<1>3. DistinctRows(ledger[e] \o rows) /\ BalancedRows(ledger[e] \o rows)
  BY <1>1, AppendDistinct, AppendBalanced DEF LedgerOk, LedgerAllows
<1>4. /\ ledger' \in [Employee -> Seq(MovementShape)]
      /\ \A x \in Employee \ {e} : ledger'[x] = ledger[x]
      /\ ledger'[e] = ledger[e] \o rows
  BY <1>1, <1>2
<1>5. LedgerOk'
  BY <1>3, <1>4 DEF LedgerOk
<1>6. Longer
  <2> SUFFICES ASSUME NEW x \in Employee
               PROVE  /\ Len(ledger[x]) <= Len(ledger'[x])
                      /\ \A i \in 1..Len(ledger[x]) : ledger'[x][i] = ledger[x][i]
    BY DEF Longer
  <2>1. CASE x = e
    BY <1>1, <1>4, <2>1
  <2>2. CASE x # e
    BY <1>1, <1>4, <2>2
  <2> QED
    BY <2>1, <2>2
<1> QED
  BY <1>4, <1>5, <1>6
----------------------------------------------------------------------------
(* The invariant *)

RowShape == [e : Employee, ancla : Int, due : Int, corte : Int]

RunShape ==
    [pc : {"idle", "rows", "due", "tx"}, hoy : Int, todo : SUBSET RowShape,
     e : Employee \cup {NoEmployee}, ancla : Int, due : Int, corte : Int,
     snap : SnapshotShape \cup {NoEmployee}]

RequestShape ==
    [op : {"none", "apply", "inactivate", "reactivate", "liquidate", "execute"},
     pc : {"idle", "usage", "next", "tx", "loaded", "planned", "refused"},
     n : Payroll \cup {NoPayroll}, t : Transfer \cup {NoTransfer}, a : Action \cup {NoAction},
     e : Employee \cup {NoEmployee}, acts : SUBSET Action, emp : EmployeeShape,
     snap : SnapshotShape \cup {NoEmployee}]

Shapes ==
    /\ today \in Int
    /\ employee \in [Employee -> EmployeeShape]
    /\ account \in [Employee -> AccountShape]
    /\ action \in [Action -> ActionRow]
    /\ transfer \in [Transfer -> TransferRow]
    /\ run \in [Runner -> RunShape]
    /\ request \in [Session -> RequestShape]

\* Whoever has an account, a movement, an action or a transfer was hired.
OnlyHired ==
    /\ \A e \in Employee : account[e].existe \/ account[e].activa \/ ledger[e] # <<>> => Hired(e)
    /\ \A a \in Action : action[a].estado # "NONE" =>
          action[a].empleado \in Employee /\ Hired(action[a].empleado)
    /\ \A t \in Transfer : transfer[t].estado # "NONE" =>
          transfer[t].empleado \in Employee /\ transfer[t].destino \in Company

\* A snapshot of employee e, however old: no row it read has gone.
Read(snap, e) == snap \in SnapshotShape /\ snap.rows <= Len(ledger[e])

RunOk(r) ==
    /\ \A x \in r.todo : Hired(x.e)
    /\ r.pc \in {"due", "tx"} => r.e \in Employee /\ Hired(r.e)
    /\ r.pc = "tx" => Read(r.snap, r.e)

Known(acts) == \A a \in acts : action[a].estado # "NONE"

RequestOk(r) ==
    /\ r.op = "apply" => Known(r.acts)
    /\ r.op = "apply" /\ r.pc = "tx" =>
          /\ r.a \in Action /\ action[r.a].estado # "NONE"
          /\ Read(r.snap, action[r.a].empleado)
    /\ r.op \in {"inactivate", "reactivate", "liquidate"} =>
          r.e \in Employee /\ r.emp.empresa # NoCompany
    /\ r.op = "execute" => r.t \in Transfer /\ transfer[r.t].estado # "NONE"
    /\ r.op = "execute" /\ r.pc \in {"planned", "tx"} =>
          r.e = transfer[r.t].empleado /\ Known(r.acts)
    /\ r.op = "execute" /\ r.pc = "tx" => Read(r.snap, r.e)

Processes ==
    /\ \A v \in Runner : RunOk(run[v])
    /\ \A s \in Session : RequestOk(request[s])

\* A transfer that says EXECUTED is booked.
Executed ==
    \A t \in Transfer : transfer[t].estado = "EXECUTED" =>
        \E i \in DOMAIN ledger[transfer[t].empleado] :
            /\ ledger[transfer[t].empleado][i].fuente = "TRANSFER_IN"
            /\ ledger[transfer[t].empleado][i].id = t

VInv == Shapes /\ LedgerOk /\ OnlyHired /\ Processes /\ Executed

\* What processes rely on while others go on: nobody is unhired, no movement, action or
\* transfer disappears, and actions and transfers keep their employees.
Grows ==
    /\ \A e \in Employee : Hired(e) => Hired(e)'
    /\ Longer
    /\ \A a \in Action : action[a].estado # "NONE" =>
          action'[a].estado # "NONE" /\ action'[a].empleado = action[a].empleado
    /\ \A t \in Transfer : transfer[t].estado # "NONE" =>
          /\ transfer'[t].estado # "NONE" /\ transfer'[t].empleado = transfer[t].empleado
          /\ transfer'[t].destino = transfer[t].destino
----------------------------------------------------------------------------
(* Frames *)

\* A step that leaves the ledger alone keeps it in order.
LEMMA QuietLedger == LedgerOk /\ UNCHANGED ledger => LedgerOk' /\ Longer
<1> SUFFICES ASSUME LedgerOk, UNCHANGED ledger PROVE LedgerOk' /\ Longer
  OBVIOUS
<1>1. LedgerOk'
  BY DEF LedgerOk
<1>2. Longer
  BY DEF LedgerOk, Longer
<1> QED
  BY <1>1, <1>2

\* A booked transfer stays booked.
LEMMA BookedStays ==
    ASSUME VInv, LedgerOk', Longer, NEW t \in Transfer, transfer[t].estado = "EXECUTED"
    PROVE  \E i \in DOMAIN ledger'[transfer[t].empleado] :
               /\ ledger'[transfer[t].empleado][i].fuente = "TRANSFER_IN"
               /\ ledger'[transfer[t].empleado][i].id = t
<1> DEFINE e == transfer[t].empleado
<1>1. e \in Employee
  BY DEF VInv, OnlyHired
<1>2. PICK i \in DOMAIN ledger[e] : ledger[e][i].fuente = "TRANSFER_IN" /\ ledger[e][i].id = t
  BY DEF VInv, Executed
<1>3. /\ ledger[e] \in Seq(MovementShape) /\ ledger'[e] \in Seq(MovementShape)
      /\ i \in 1..Len(ledger[e]) /\ Len(ledger[e]) <= Len(ledger'[e])
  BY <1>1, <1>2 DEF VInv, LedgerOk, Longer
<1>4. i \in DOMAIN ledger'[e] /\ ledger'[e][i] = ledger[e][i]
  BY <1>1, <1>3 DEF Longer
<1> QED
  BY <1>2, <1>4

LEMMA ExecutedStays ==
    ASSUME VInv, LedgerOk', Longer,
           \A t \in Transfer : transfer'[t].estado = "EXECUTED" =>
               /\ transfer[t].estado = "EXECUTED"
               /\ transfer'[t].empleado = transfer[t].empleado
    PROVE  Executed'
<1> SUFFICES ASSUME NEW t \in Transfer, transfer'[t].estado = "EXECUTED"
             PROVE  \E i \in DOMAIN ledger'[transfer'[t].empleado] :
                       /\ ledger'[transfer'[t].empleado][i].fuente = "TRANSFER_IN"
                       /\ ledger'[transfer'[t].empleado][i].id = t
  BY DEF Executed
<1>1. transfer[t].estado = "EXECUTED" /\ transfer'[t].empleado = transfer[t].empleado
  OBVIOUS
<1> QED
  BY <1>1, BookedStays

\* What a run knows stays true.
LEMMA RunStays ==
    ASSUME VInv, Grows, LedgerOk', NEW r \in RunShape, RunOk(r)
    PROVE  /\ \A x \in r.todo : employee'[x.e].empresa # NoCompany
           /\ r.pc \in {"due", "tx"} => r.e \in Employee /\ employee'[r.e].empresa # NoCompany
           /\ r.pc = "tx" => r.snap \in SnapshotShape /\ r.snap.rows <= Len(ledger'[r.e])
<1>1. \A x \in r.todo : employee'[x.e].empresa # NoCompany
  <2> TAKE x \in r.todo
  <2>1. x.e \in Employee /\ Hired(x.e)
    BY DEF RunShape, RowShape, RunOk
  <2> QED
    BY <2>1 DEF Grows, Hired
<1>2. r.pc \in {"due", "tx"} => r.e \in Employee /\ employee'[r.e].empresa # NoCompany
  BY DEF RunOk, Grows, Hired
<1>3. r.pc = "tx" => r.snap \in SnapshotShape /\ r.snap.rows <= Len(ledger'[r.e])
  <2> HAVE r.pc = "tx"
  <2>1. r.e \in Employee /\ r.snap \in SnapshotShape /\ r.snap.rows <= Len(ledger[r.e])
    BY DEF RunOk, Read
  <2>2. /\ Len(ledger[r.e]) <= Len(ledger'[r.e]) /\ r.snap.rows \in Nat
        /\ Len(ledger[r.e]) \in Nat /\ Len(ledger'[r.e]) \in Nat
    BY <2>1 DEF Grows, Longer, SnapshotShape, VInv, LedgerOk
  <2> QED
    BY <2>1, <2>2
<1> QED
  BY <1>1, <1>2, <1>3

\* What a request knows stays true.
LEMMA RequestStays ==
    ASSUME VInv, Grows, LedgerOk', NEW r \in RequestShape, RequestOk(r)
    PROVE  /\ r.op = "apply" => \A a \in r.acts : action'[a].estado # "NONE"
           /\ r.op = "apply" /\ r.pc = "tx" =>
                 /\ r.a \in Action /\ action'[r.a].estado # "NONE"
                 /\ r.snap \in SnapshotShape
                 /\ r.snap.rows <= Len(ledger'[action'[r.a].empleado])
           /\ r.op = "execute" => r.t \in Transfer /\ transfer'[r.t].estado # "NONE"
           /\ r.op = "execute" /\ r.pc \in {"planned", "tx"} =>
                 /\ r.e = transfer'[r.t].empleado
                 /\ \A a \in r.acts : action'[a].estado # "NONE"
           /\ r.op = "execute" /\ r.pc = "tx" =>
                 r.snap \in SnapshotShape /\ r.snap.rows <= Len(ledger'[r.e])
<1>1. \A e \in Employee : \A snap : Read(snap, e) =>
          snap \in SnapshotShape /\ snap.rows <= Len(ledger'[e])
  <2> SUFFICES ASSUME NEW e \in Employee, NEW snap, Read(snap, e)
               PROVE  snap \in SnapshotShape /\ snap.rows <= Len(ledger'[e])
    OBVIOUS
  <2>1. snap \in SnapshotShape /\ snap.rows \in Nat /\ snap.rows <= Len(ledger[e])
    BY DEF Read, SnapshotShape
  <2>2. /\ Len(ledger[e]) <= Len(ledger'[e])
        /\ Len(ledger[e]) \in Nat /\ Len(ledger'[e]) \in Nat
    BY DEF Grows, Longer, VInv, LedgerOk
  <2> QED
    BY <2>1, <2>2
<1>2. r.acts \subseteq Action
  BY DEF RequestShape
<1>3. \A a \in Action : action[a].estado # "NONE" =>
          /\ action'[a].estado # "NONE" /\ action'[a].empleado = action[a].empleado
          /\ action[a].empleado \in Employee
  BY DEF Grows, VInv, OnlyHired
<1>4. r.op = "execute" => /\ r.t \in Transfer /\ transfer'[r.t].estado # "NONE"
                          /\ transfer'[r.t].empleado = transfer[r.t].empleado
                          /\ transfer[r.t].empleado \in Employee
  BY DEF RequestOk, Grows, VInv, OnlyHired
<1>5. r.op = "apply" => \A a \in r.acts : action'[a].estado # "NONE"
  BY <1>2, <1>3 DEF RequestOk, Known
<1>6. r.op = "apply" /\ r.pc = "tx" =>
          /\ r.a \in Action /\ action'[r.a].estado # "NONE"
          /\ r.snap \in SnapshotShape
          /\ r.snap.rows <= Len(ledger'[action'[r.a].empleado])
  BY <1>1, <1>3 DEF RequestOk
<1>7. r.op = "execute" /\ r.pc \in {"planned", "tx"} =>
          r.e = transfer'[r.t].empleado /\ \A a \in r.acts : action'[a].estado # "NONE"
  BY <1>2, <1>3, <1>4 DEF RequestOk, Known
<1>8. r.op = "execute" /\ r.pc = "tx" =>
          r.snap \in SnapshotShape /\ r.snap.rows <= Len(ledger'[r.e])
  BY <1>1, <1>4 DEF RequestOk
<1> QED
  BY <1>4, <1>5, <1>6, <1>7, <1>8

\* A step has to look after the process it moves only.
LEMMA FrameKeeps ==
    ASSUME VInv, Shapes', LedgerOk', Grows, OnlyHired', Executed',
           \A v \in Runner : run'[v] = run[v] \/ RunOk(run[v])',
           \A s \in Session : request'[s] = request[s] \/ RequestOk(request[s])'
    PROVE  VInv'
<1>1. ASSUME NEW v \in Runner PROVE RunOk(run[v])'
  <2>1. CASE run'[v] = run[v]
    <3>1. run[v] \in RunShape /\ RunOk(run[v])
      BY DEF VInv, Shapes, Processes
    <3>2. /\ \A x \in run[v].todo : employee'[x.e].empresa # NoCompany
          /\ run[v].pc \in {"due", "tx"} =>
                run[v].e \in Employee /\ employee'[run[v].e].empresa # NoCompany
          /\ run[v].pc = "tx" => /\ run[v].snap \in SnapshotShape
                                 /\ run[v].snap.rows <= Len(ledger'[run[v].e])
      BY <3>1, RunStays
    <3> QED
      BY <2>1, <3>2 DEF RunOk, Read, Hired
  <2> QED
    BY <2>1
<1>2. ASSUME NEW s \in Session PROVE RequestOk(request[s])'
  <2>1. CASE request'[s] = request[s]
    <3>1. request[s] \in RequestShape /\ RequestOk(request[s])
      BY DEF VInv, Shapes, Processes
    <3> QED
      BY <2>1, <3>1, RequestStays DEF RequestOk, Read, Known
  <2> QED
    BY <2>1
<1> QED
  BY <1>1, <1>2 DEF VInv, Processes
----------------------------------------------------------------------------
(* Steps that leave the tables alone *)

LEMMA VInvInit == Init => VInv
<1> SUFFICES ASSUME Init PROVE VInv
  OBVIOUS
<1> USE VacationAssumption
<1>1. PICK legacy \in SUBSET Employee, c \in Company :
         \E actives, migrated \in SUBSET legacy : Migrated(legacy, actives, migrated, c)
  BY DEF Init
<1>10. PICK actives, migrated \in SUBSET legacy : Migrated(legacy, actives, migrated, c)
  BY <1>1
<1>2. employee \in [Employee -> EmployeeShape]
  <2>1. NoEmployeeRow \in EmployeeShape
    BY DEF NoEmployeeRow, EmployeeShape, Companies, Never
  <2>2. c \in Companies
    BY DEF Companies
  <2>3. \A b \in BOOLEAN :
           [NoEmployeeRow EXCEPT !.activo = b, !.empresa = c] \in EmployeeShape
    BY <2>1, <2>2 DEF EmployeeShape
  <2>4. ASSUME NEW e \in Employee PROVE employee[e] \in EmployeeShape
    <3>0. (e \in actives) \in BOOLEAN
      OBVIOUS
    <3>1. PICK b \in BOOLEAN : b = (e \in actives)
      BY <3>0, Zenon
    <3>2. employee[e] = IF e \notin legacy THEN NoEmployeeRow
                        ELSE [NoEmployeeRow EXCEPT !.activo = b, !.empresa = c]
      BY <1>10, <3>1, Zenon DEF Migrated
    <3> QED
      BY <2>1, <2>3, <3>2
  <2> QED
    BY <1>10, <2>4 DEF Migrated
<1>3. account \in [Employee -> AccountShape]
  <2>1. NoAccountRow \in AccountShape
    BY DEF NoAccountRow, AccountShape, Companies, Never
  <2>2. \A b \in BOOLEAN : [NoAccountRow EXCEPT !.existe = TRUE, !.activa = b, !.empresa = c]
                                \in AccountShape
    BY <2>1 DEF AccountShape, Companies
  <2>3. ASSUME NEW e \in Employee PROVE account[e] \in AccountShape
    <3>0. (e \in actives) \in BOOLEAN
      OBVIOUS
    <3>1. PICK b \in BOOLEAN : b = (e \in actives)
      BY <3>0, Zenon
    <3>2. account[e] = IF e \notin migrated THEN NoAccountRow
                       ELSE [NoAccountRow EXCEPT !.existe = TRUE, !.activa = b, !.empresa = c]
      BY <1>10, <3>1, Zenon DEF Migrated
    <3> QED
      BY <2>1, <2>2, <3>2
  <2> QED
    BY <1>10, <2>3 DEF Migrated
<1>4. IdleRun \in RunShape /\ RunOk(IdleRun)
  BY DEF IdleRun, RunShape, RunOk
<1>5. IdleRequest \in RequestShape /\ RequestOk(IdleRequest)
  <2>1. NoEmployeeRow \in EmployeeShape
    BY DEF NoEmployeeRow, EmployeeShape, Companies, Never
  <2> QED
    BY <2>1 DEF IdleRequest, RequestShape, RequestOk, Known
<1>6. Shapes
  BY <1>2, <1>3, <1>4, <1>5 DEF Init, Shapes, ActionRow, TransferRow
<1>7. LedgerOk
  <2>1. <<>> \in Seq(MovementShape) /\ DistinctRows(<<>>) /\ BalancedRows(<<>>)
    BY DEF DistinctRows, BalancedRows
  <2> QED
    BY <2>1 DEF Init, LedgerOk
<1>8. OnlyHired /\ Executed
  <2>1. ASSUME NEW e \in Employee, account[e].existe \/ account[e].activa
        PROVE  Hired(e)
    <3>1. e \in legacy
      BY <1>10, <2>1 DEF Migrated, NoAccountRow
    <3>2. employee[e].empresa = c
      BY <1>10, <3>1 DEF Migrated, NoEmployeeRow
    <3> QED
      BY <3>2, VacationAssumption DEF Hired
  <2> QED
    BY <2>1 DEF Init, OnlyHired, Executed
<1>9. Processes
  BY <1>4, <1>5 DEF Init, Processes
<1> QED
  BY <1>6, <1>7, <1>8, <1>9 DEF VInv

\* A run that takes a step on its own.
LEMMA RunMoves ==
    ASSUME VInv, UNCHANGED <<today, employee, account, ledger, action, transfer, request>>,
           NEW v \in Runner, NEW r \in RunShape, RunOk(r), StepRun(v, r)
    PROVE  VInv'
<1>1. run' \in [Runner -> RunShape] /\ \A u \in Runner : run'[u] = run[u] \/ run'[u] = r
  BY DEF StepRun, VInv, Shapes
<1>2. RunOk(r)'
  BY DEF RunOk, Hired, Read
<1>3. ASSUME NEW u \in Runner PROVE RunOk(run[u])'
  <2>1. CASE run'[u] = run[u]
    <3>1. RunOk(run[u])
      BY DEF VInv, Processes
    <3> QED
      BY <2>1, <3>1 DEF RunOk, Hired, Read
  <2>2. CASE run'[u] = r
    BY <1>2, <2>2 DEF RunOk, Hired, Read
  <2> QED
    BY <1>1, <2>1, <2>2
<1>4. ASSUME NEW s \in Session PROVE RequestOk(request[s])'
  <2>1. RequestOk(request[s])
    BY DEF VInv, Processes
  <2> QED
    BY <2>1 DEF RequestOk, Known, Read
<1>5. Shapes'
  BY <1>1 DEF VInv, Shapes
<1>6. LedgerOk'
  BY DEF VInv, LedgerOk
<1>7. OnlyHired' /\ Executed'
  BY DEF VInv, OnlyHired, Executed, Hired
<1> QED
  BY <1>3, <1>4, <1>5, <1>6, <1>7 DEF VInv, Processes

\* A request that takes a step on its own.
LEMMA RequestMoves ==
    ASSUME VInv, UNCHANGED <<today, employee, account, ledger, action, transfer, run>>,
           NEW s \in Session, NEW r \in RequestShape, RequestOk(r), StepRequest(s, r)
    PROVE  VInv'
<1>1. request' \in [Session -> RequestShape]
      /\ \A u \in Session : request'[u] = request[u] \/ request'[u] = r
  BY DEF StepRequest, VInv, Shapes
<1>2. RequestOk(r)'
  BY DEF RequestOk, Known, Read
<1>3. ASSUME NEW u \in Session PROVE RequestOk(request[u])'
  <2>1. CASE request'[u] = request[u]
    <3>1. RequestOk(request[u])
      BY DEF VInv, Processes
    <3> QED
      BY <2>1, <3>1 DEF RequestOk, Known, Read
  <2>2. CASE request'[u] = r
    BY <1>2, <2>2 DEF RequestOk, Known, Read
  <2> QED
    BY <1>1, <2>1, <2>2
<1>4. ASSUME NEW v \in Runner PROVE RunOk(run[v])'
  <2>1. RunOk(run[v])
    BY DEF VInv, Processes
  <2> QED
    BY <2>1 DEF RunOk, Hired, Read
<1>5. Shapes'
  BY <1>1 DEF VInv, Shapes
<1>6. LedgerOk'
  BY DEF VInv, LedgerOk
<1>7. OnlyHired' /\ Executed'
  BY DEF VInv, OnlyHired, Executed, Hired
<1> QED
  BY <1>3, <1>4, <1>5, <1>6, <1>7 DEF VInv, Processes
----------------------------------------------------------------------------
(* The provision *)

LEMMA MonthInt == ASSUME NEW d \in Int, NEW ancla \in Int
                  PROVE  Month(d) \in Int /\ NextDue(d, ancla) \in Int
  BY DEF Month, NextDue

LEMMA LeaveRowOk ==
    ASSUME NEW r \in RunShape, \A x \in r.todo : Hired(x.e)
    PROVE  LeaveRow(r) \in RunShape /\ RunOk(LeaveRow(r)) /\ LeaveRow(r).pc # "tx"
<1>1. CASE r.todo = {}
  BY <1>1 DEF LeaveRow, IdleRun, RunShape, RunOk
<1>2. CASE r.todo # {}
  <2>1. LeaveRow(r) = [IdleRun EXCEPT !.pc = "rows", !.hoy = r.hoy, !.todo = r.todo]
    BY <1>2 DEF LeaveRow
  <2>2. IdleRun \in RunShape /\ r.hoy \in Int /\ r.todo \in SUBSET RowShape
    BY DEF IdleRun, RunShape
  <2>3. LeaveRow(r) \in RunShape
    BY <2>1, <2>2 DEF RunShape
  <2>4. LeaveRow(r).pc = "rows" /\ LeaveRow(r).todo = r.todo
    BY <2>1, <2>2 DEF RunShape
  <2> QED
    BY <2>3, <2>4 DEF RunOk
<1> QED
  BY <1>1, <1>2

LEMMA AdvanceOk ==
    ASSUME NEW r \in RunShape, \A x \in r.todo : Hired(x.e), r.e \in Employee, Hired(r.e)
    PROVE  Advance(r) \in RunShape /\ RunOk(Advance(r)) /\ Advance(r).pc # "tx"
<1> DEFINE due == NextDue(r.due, r.ancla)
<1>1. due \in Int
  BY MonthInt DEF RunShape
<1> HIDE DEF due
<1>2. CASE due <= r.corte
  <2>1. Advance(r) = [r EXCEPT !.pc = "due", !.due = due, !.snap = NoEmployee]
    BY <1>2 DEF Advance, due
  <2>2. Advance(r) \in RunShape
    BY <1>1, <2>1 DEF RunShape
  <2>3. /\ Advance(r).pc = "due" /\ Advance(r).e = r.e /\ Advance(r).todo = r.todo
    BY <2>1 DEF RunShape
  <2> QED
    BY <2>2, <2>3 DEF RunOk
<1>3. CASE ~(due <= r.corte)
  <2>1. Advance(r) = LeaveRow(r)
    BY <1>3 DEF Advance, due
  <2> QED
    BY <2>1, LeaveRowOk
<1> QED
  BY <1>2, <1>3

\* The balance a snapshot shows.
LEMMA BalanceInt ==
    ASSUME VInv, NEW e \in Employee, NEW snap, Read(snap, e) PROVE LastBalance(e, snap) \in Int
<1>1. snap.rows \in Nat /\ snap.rows <= Len(ledger[e]) /\ ledger[e] \in Seq(MovementShape)
  BY DEF Read, SnapshotShape, VInv, LedgerOk
<1>2. CASE snap.rows # 0
  <2>1. ledger[e][snap.rows] \in MovementShape
    BY <1>1, <1>2
  <2> QED
    BY <1>2, <2>1 DEF LastBalance, MovementShape
<1> QED
  BY <1>2 DEF LastBalance

\* Row builds a movement.
LEMMA RowShaped ==
    ASSUME NEW tipo \in Movement, NEW delta \in Int, NEW saldo \in Int, NEW periodo \in Int,
           NEW fuente \in SourceType, NEW id \in Owners, NEW empresa \in Companies
    PROVE  Row(tipo, delta, saldo, periodo, fuente, id, empresa) \in MovementShape
  BY DEF Row, MovementShape

\* No row, or one that is no end of a transfer, is distinct and balanced.
LEMMA FewRows ==
    ASSUME NEW x \in MovementShape, x.fuente \notin Ends
    PROVE  /\ <<>> \in Seq(MovementShape) /\ DistinctRows(<<>>) /\ BalancedRows(<<>>)
           /\ <<x>> \in Seq(MovementShape) /\ DistinctRows(<<x>>) /\ BalancedRows(<<x>>)
<1>1. /\ <<>> \in Seq(MovementShape) /\ DistinctRows(<<>>) /\ BalancedRows(<<>>)
  BY DEF DistinctRows, BalancedRows
<1>2. <<x>> \in Seq(MovementShape) /\ \A i \in DOMAIN <<x>> : i = 1 /\ <<x>>[i] = x
  OBVIOUS
<1>3. DistinctRows(<<x>>) /\ BalancedRows(<<x>>)
  BY <1>2 DEF DistinctRows, BalancedRows
<1> QED
  BY <1>1, <1>2, <1>3

\* A snapshot of an employee in the state it is taken.
LEMMA SnapshotRead == ASSUME VInv, NEW e \in Employee PROVE Read(Snapshot(e), e)
<1>1. Len(ledger[e]) \in Nat /\ employee[e] \in EmployeeShape /\ account[e] \in AccountShape
  BY DEF VInv, LedgerOk, Shapes
<1> QED
  BY <1>1 DEF Read, Snapshot, SnapshotShape

LEMMA StartRunKeeps == ASSUME VInv, NEW v \in Runner, StartRun(v) PROVE VInv'
<1> DEFINE rows == DueRows(today)
           r == [IdleRun EXCEPT !.pc = "rows", !.hoy = today, !.todo = rows]
<1>1. ASSUME NEW e \in Employee, account[e].activa
      PROVE  Selected(e, today) \in RowShape /\ Hired(e) /\ Selected(e, today).e = e
  <2>1. /\ account[e].ingreso \in Int /\ account[e].ultima \in Int /\ today \in Int
        /\ employee[e].salida \in Int
    BY DEF VInv, Shapes, AccountShape, EmployeeShape
  <2>2. account[e].ingreso % 2 \in Int
    BY <2>1
  <2>3. NextDue(IF account[e].ultima = Never THEN account[e].ingreso ELSE account[e].ultima,
                account[e].ingreso % 2) \in Int
    BY <2>1, <2>2, MonthInt
  <2>4. (IF employee[e].salida < today THEN employee[e].salida ELSE today) \in Int
    BY <2>1
  <2>5. Hired(e)
    BY <1>1 DEF VInv, OnlyHired
  <2> QED
    BY <2>2, <2>3, <2>4, <2>5 DEF Selected, RowShape
<1>2. \A x \in rows : x \in RowShape /\ Hired(x.e)
  BY <1>1 DEF DueRows, Provisioned
<1>3. today \in Int /\ IdleRun \in RunShape
  BY DEF VInv, Shapes, IdleRun, RunShape
<1> HIDE DEF rows
<1>4. r \in RunShape /\ r.todo = rows /\ r.pc = "rows"
  BY <1>2, <1>3 DEF RunShape, IdleRun
<1>5. RunOk(r)
  BY <1>2, <1>4 DEF RunOk
<1>6. StepRun(v, r)
  BY DEF StartRun, rows
<1> HIDE DEF r
<1> QED
  BY <1>4, <1>5, <1>6, RunMoves DEF StartRun, KeepOthers

LEMMA NextRowKeeps == ASSUME VInv, NEW v \in Runner, NextRow(v) PROVE VInv'
<1>1. run[v] \in RunShape /\ RunOk(run[v])
  BY DEF VInv, Shapes, Processes
<1>2. PICK x \in run[v].todo :
          StepRun(v, [run[v] EXCEPT !.pc = "due", !.todo = @ \ {x}, !.e = x.e, !.ancla = x.ancla,
                                    !.due = x.due, !.corte = x.corte])
  BY DEF NextRow
<1> DEFINE r == [run[v] EXCEPT !.pc = "due", !.todo = @ \ {x}, !.e = x.e, !.ancla = x.ancla,
                               !.due = x.due, !.corte = x.corte]
<1>3. /\ x.e \in Employee /\ x.ancla \in Int /\ x.due \in Int /\ x.corte \in Int /\ Hired(x.e)
  BY <1>1, <1>2 DEF RunShape, RowShape, RunOk
<1>4. r \in RunShape
  BY <1>1, <1>3 DEF RunShape
<1>5. r.pc = "due" /\ r.e = x.e /\ r.todo \subseteq run[v].todo
  BY <1>1 DEF RunShape
<1>6. RunOk(r)
  BY <1>1, <1>3, <1>5 DEF RunOk
<1>7. StepRun(v, r)
  BY <1>2
<1> HIDE DEF r
<1> QED
  BY <1>4, <1>6, <1>7, RunMoves DEF NextRow, KeepOthers

LEMMA ReadMonthKeeps == ASSUME VInv, NEW v \in Runner, ReadMonth(v) PROVE VInv'
<1>1. /\ run[v] \in RunShape /\ run[v].e \in Employee /\ Hired(run[v].e)
      /\ \A x \in run[v].todo : Hired(x.e)
  BY DEF VInv, Shapes, Processes, RunOk, ReadMonth
<1>2. CASE Provisioned(run[v].e)
  <2> DEFINE snap == Snapshot(run[v].e)
             r == [run[v] EXCEPT !.pc = "tx", !.snap = snap]
  <2>1. Read(snap, run[v].e)
    BY <1>1, SnapshotRead
  <2>2. StepRun(v, r)
    BY <1>2 DEF ReadMonth
  <2>3. snap \in SnapshotShape
    BY <2>1 DEF Read
  <2> HIDE DEF snap
  <2>4. r \in RunShape
    BY <1>1, <2>3 DEF RunShape
  <2>5. r.pc = "tx" /\ r.e = run[v].e /\ r.todo = run[v].todo /\ r.snap = snap
    BY <1>1 DEF RunShape
  <2> HIDE DEF r
  <2>6. RunOk(r)
    BY <1>1, <2>1, <2>5 DEF RunOk
  <2> QED
    BY <2>2, <2>4, <2>6, RunMoves DEF ReadMonth, KeepOthers
<1>3. CASE ~Provisioned(run[v].e)
  <2>1. StepRun(v, Advance(run[v]))
    BY <1>3 DEF ReadMonth
  <2>2. Advance(run[v]) \in RunShape /\ RunOk(Advance(run[v]))
    BY <1>1, AdvanceOk
  <2> QED
    BY <2>1, <2>2, RunMoves DEF ReadMonth, KeepOthers
<1> QED
  BY <1>2, <1>3

LEMMA AbortMonthKeeps == ASSUME VInv, NEW v \in Runner, AbortMonth(v) PROVE VInv'
<1>1. run[v] \in RunShape /\ \A x \in run[v].todo : Hired(x.e)
  BY DEF VInv, Shapes, Processes, RunOk
<1>2. LeaveRow(run[v]) \in RunShape /\ RunOk(LeaveRow(run[v]))
  BY <1>1, LeaveRowOk
<1> QED
  BY <1>2, RunMoves DEF AbortMonth, KeepOthers

LEMMA RunnerDiesKeeps == ASSUME VInv, NEW v \in Runner, RunnerDies(v) PROVE VInv'
<1>1. IdleRun \in RunShape /\ RunOk(IdleRun)
  BY DEF IdleRun, RunShape, RunOk
<1> QED
  BY <1>1, RunMoves DEF RunnerDies, KeepOthers

LEMMA CommitMonthKeeps == ASSUME VInv, NEW v \in Runner, CommitMonth(v) PROVE VInv'
<1> DEFINE r == run[v]
           rows == MonthRows(r)
<1>1. /\ r \in RunShape /\ r.pc = "tx" /\ r.e \in Employee /\ Hired(r.e)
      /\ \A x \in r.todo : Hired(x.e)
      /\ Read(r.snap, r.e)
  BY DEF VInv, Shapes, Processes, RunOk, CommitMonth
<1>2. rows \in Seq(MovementShape) /\ DistinctRows(rows) /\ BalancedRows(rows)
  <2>1. LastBalance(r.e, r.snap) + 1 \in Int
    BY <1>1, BalanceInt
  <2>2. Month(r.due) \in Int
    BY <1>1, MonthInt DEF RunShape
  <2>3. r.snap.emp.empresa \in Companies
    BY <1>1 DEF Read, SnapshotShape, EmployeeShape
  <2>4. Accrual(r) \in MovementShape
    BY <2>1, <2>2, <2>3, RowShaped DEF Accrual, Movement, SourceType, Owners
  <2>5. Accrual(r).fuente \notin Ends
    BY DEF Accrual, Row, Ends
  <2> QED
    BY <2>4, <2>5, FewRows DEF MonthRows
<1>3. LedgerAllows(r.e, rows) /\ Book(r.e, rows)
  BY DEF CommitMonth
<1> HIDE DEF rows
<1>4. /\ LedgerOk' /\ Longer
      /\ \A x \in Employee \ {r.e} : ledger'[x] = ledger[x]
  BY <1>1, <1>2, <1>3, BookKeeps DEF VInv
<1>5. /\ UNCHANGED <<today, employee, action, transfer, request>>
      /\ account' = [account EXCEPT ![r.e].ultima = LastProvision(r)]
      /\ run' = [run EXCEPT ![v] = Advance(r)]
  BY DEF CommitMonth, KeepOthers, StepRun
<1>6. Advance(r) \in RunShape /\ RunOk(Advance(r)) /\ Advance(r).pc # "tx"
  BY <1>1, AdvanceOk
<1>7. Shapes'
  <2>1. LastProvision(r) \in Int
    <3>1. account[r.e].ultima \in Int /\ r.due \in Int
      BY <1>1 DEF VInv, Shapes, AccountShape, RunShape
    <3> QED
      BY <3>1 DEF LastProvision
  <2>2. account' \in [Employee -> AccountShape]
    BY <1>1, <1>5, <2>1 DEF VInv, Shapes, AccountShape
  <2>3. run' \in [Runner -> RunShape]
    BY <1>5, <1>6 DEF VInv, Shapes
  <2> QED
    BY <1>5, <2>2, <2>3 DEF VInv, Shapes
<1>8. Grows
  BY <1>4, <1>5 DEF Grows, Hired
<1>9. OnlyHired'
  <2>1. ASSUME NEW e \in Employee, account'[e].existe \/ account'[e].activa \/ ledger'[e] # <<>>
        PROVE  employee'[e].empresa # NoCompany
    <3>1. CASE e = r.e
      BY <1>1, <1>5, <3>1 DEF Hired
    <3>2. CASE e # r.e
      <4>1. account'[e] = account[e] /\ ledger'[e] = ledger[e]
        BY <1>4, <1>5, <3>2 DEF VInv, Shapes
      <4> QED
        BY <1>5, <2>1, <4>1 DEF VInv, OnlyHired, Hired
    <3> QED
      BY <3>1, <3>2
  <2> QED
    BY <1>5, <2>1 DEF VInv, OnlyHired, Hired
<1>10. Executed'
  BY <1>4, <1>5, ExecutedStays
<1>11. ASSUME NEW u \in Runner PROVE run'[u] = run[u] \/ RunOk(run[u])'
  <2>1. CASE u = v
    <3>1. run'[u] = Advance(r)
      BY <1>5, <2>1 DEF VInv, Shapes
    <3> QED
      BY <1>5, <1>6, <3>1 DEF RunOk, Hired
  <2>2. CASE u # v
    BY <1>5, <2>2 DEF VInv, Shapes
  <2> QED
    BY <2>1, <2>2
<1> QED
  BY <1>4, <1>5, <1>7, <1>8, <1>9, <1>10, <1>11, FrameKeeps
----------------------------------------------------------------------------
(* The deductions *)

LEMMA IdleRequestOk == IdleRequest \in RequestShape /\ RequestOk(IdleRequest)
<1>1. NoEmployeeRow \in EmployeeShape
  BY VacationAssumption DEF NoEmployeeRow, EmployeeShape, Companies, Never
<1> QED
  BY <1>1 DEF IdleRequest, RequestShape, RequestOk, Known

LEMMA FindUsageKeeps == ASSUME VInv, NEW s \in Session, FindUsage(s) PROVE VInv'
<1> DEFINE acts == Deductible(request[s].n)
<1>1. request[s] \in RequestShape /\ request[s].op = "apply"
  BY DEF VInv, Shapes, FindUsage, At
<1>2. acts \in SUBSET Action /\ Known(acts)
  BY DEF Deductible, Known
<1>3. StepRequest(s, IF acts = {} THEN IdleRequest
                     ELSE [request[s] EXCEPT !.pc = "next", !.acts = acts])
  BY DEF FindUsage
<1> HIDE DEF acts
<1>4. CASE acts = {}
  BY <1>3, <1>4, IdleRequestOk, RequestMoves DEF FindUsage, KeepAccounts
<1>5. CASE acts # {}
  <2> DEFINE r == [request[s] EXCEPT !.pc = "next", !.acts = acts]
  <2>1. r \in RequestShape
    BY <1>1, <1>2 DEF RequestShape
  <2>2. r.op = "apply" /\ r.pc = "next" /\ r.acts = acts
    BY <1>1 DEF RequestShape
  <2>3. StepRequest(s, r)
    BY <1>3, <1>5
  <2> HIDE DEF r
  <2>4. RequestOk(r)
    BY <1>2, <2>2 DEF RequestOk
  <2> QED
    BY <2>1, <2>3, <2>4, RequestMoves DEF FindUsage, KeepAccounts
<1> QED
  BY <1>4, <1>5

LEMMA ReadUsageKeeps == ASSUME VInv, NEW s \in Session, ReadUsage(s) PROVE VInv'
<1>1. request[s] \in RequestShape /\ request[s].op = "apply" /\ Known(request[s].acts)
  BY DEF VInv, Shapes, Processes, RequestOk, ReadUsage, At
<1>2. PICK a \in request[s].acts :
          StepRequest(s, [request[s] EXCEPT !.pc = "tx", !.acts = @ \ {a}, !.a = a,
                                            !.snap = Snapshot(action[a].empleado)])
  BY DEF ReadUsage
<1> DEFINE snap == Snapshot(action[a].empleado)
           r == [request[s] EXCEPT !.pc = "tx", !.acts = @ \ {a}, !.a = a, !.snap = snap]
<1>3. a \in Action /\ action[a].estado # "NONE" /\ action[a].empleado \in Employee
  BY <1>1, <1>2 DEF Known, RequestShape, VInv, OnlyHired
<1>4. Read(snap, action[a].empleado)
  BY <1>3, SnapshotRead
<1>5. snap \in SnapshotShape
  BY <1>4 DEF Read
<1>6. StepRequest(s, r)
  BY <1>2
<1> HIDE DEF snap
<1>7. r \in RequestShape
  BY <1>1, <1>3, <1>5 DEF RequestShape
<1>8. /\ r.op = "apply" /\ r.pc = "tx" /\ r.a = a /\ r.snap = snap
      /\ r.acts \subseteq request[s].acts
  BY <1>1 DEF RequestShape
<1> HIDE DEF r
<1>9. RequestOk(r)
  BY <1>1, <1>3, <1>4, <1>8 DEF RequestOk, Known
<1> QED
  BY <1>6, <1>7, <1>9, RequestMoves DEF ReadUsage, KeepAccounts

LEMMA AbortUsageKeeps == ASSUME VInv, NEW s \in Session, AbortUsage(s) PROVE VInv'
  BY IdleRequestOk, RequestMoves DEF AbortUsage, KeepAccounts

LEMMA CommitUsageKeeps == ASSUME VInv, NEW s \in Session, CommitUsage(s) PROVE VInv'
<1> DEFINE r == request[s]
           e == action[r.a].empleado
           rows == UsageRows(r)
           next == IF r.acts = {} THEN IdleRequest
                   ELSE [r EXCEPT !.pc = "next", !.a = NoAction, !.snap = NoEmployee]
<1>1. /\ r \in RequestShape /\ r.op = "apply" /\ r.pc = "tx" /\ Known(r.acts)
      /\ r.a \in Action /\ action[r.a].estado # "NONE" /\ Read(r.snap, e)
  BY DEF VInv, Shapes, Processes, RequestOk, CommitUsage, At
<1>2. e \in Employee /\ Hired(e)
  BY <1>1 DEF VInv, OnlyHired
<1>3. rows \in Seq(MovementShape) /\ DistinctRows(rows) /\ BalancedRows(rows)
  <2>1. LastBalance(e, r.snap) - 1 \in Int /\ -1 \in Int /\ NoPeriod \in Int
    BY <1>1, <1>2, BalanceInt DEF NoPeriod
  <2>2. r.snap.emp.empresa \in Companies /\ r.a \in Owners
    BY <1>1 DEF Read, SnapshotShape, EmployeeShape, Owners
  <2>3. Usage(r) \in MovementShape
    BY <2>1, <2>2, RowShaped DEF Usage, Movement, SourceType
  <2>4. Usage(r).fuente \notin Ends
    BY DEF Usage, Row, Ends
  <2> QED
    BY <2>3, <2>4, FewRows DEF UsageRows
<1>4. LedgerAllows(e, rows) /\ Book(e, rows)
  BY DEF CommitUsage
<1> HIDE DEF rows
<1>5. /\ LedgerOk' /\ Longer
      /\ \A x \in Employee \ {e} : ledger'[x] = ledger[x]
  BY <1>2, <1>3, <1>4, BookKeeps DEF VInv
<1>6. /\ UNCHANGED <<today, employee, account, action, transfer, run>>
      /\ request' = [request EXCEPT ![s] = next]
  BY DEF CommitUsage, KeepAccounts, StepRequest
<1>7. /\ next \in RequestShape
      /\ \/ next.op = "none"
         \/ next.op = "apply" /\ next.pc = "next" /\ next.acts = r.acts
  <2>1. CASE r.acts = {}
    BY <2>1, IdleRequestOk DEF IdleRequest
  <2>2. CASE r.acts # {}
    <3>1. next = [r EXCEPT !.pc = "next", !.a = NoAction, !.snap = NoEmployee]
      BY <2>2
    <3> QED
      BY <1>1, <3>1 DEF RequestShape
  <2> QED
    BY <2>1, <2>2
<1> HIDE DEF next
<1>8. Shapes'
  BY <1>6, <1>7 DEF VInv, Shapes
<1>9. Grows
  BY <1>5, <1>6 DEF Grows, Hired
<1>10. OnlyHired'
  <2>1. ASSUME NEW x \in Employee, account'[x].existe \/ account'[x].activa \/ ledger'[x] # <<>>
        PROVE  employee'[x].empresa # NoCompany
    <3>1. CASE x = e
      BY <1>2, <1>6, <3>1 DEF Hired
    <3>2. CASE x # e
      <4>1. ledger'[x] = ledger[x]
        BY <1>5, <3>2
      <4> QED
        BY <1>6, <2>1, <4>1 DEF VInv, OnlyHired, Hired
    <3> QED
      BY <3>1, <3>2
  <2> QED
    BY <1>6, <2>1 DEF VInv, OnlyHired, Hired
<1>11. Executed'
  BY <1>5, <1>6, ExecutedStays
<1>12. ASSUME NEW u \in Session PROVE request'[u] = request[u] \/ RequestOk(request[u])'
  <2>1. CASE u = s
    <3>1. request'[u] = next
      BY <1>6, <2>1 DEF VInv, Shapes
    <3>2. Known(next.acts) \/ next.op = "none"
      BY <1>1, <1>7
    <3> QED
      BY <1>6, <1>7, <3>1, <3>2 DEF RequestOk, Known
  <2>2. CASE u # s
    BY <1>6, <2>2 DEF VInv, Shapes
  <2> QED
    BY <2>1, <2>2
<1> QED
  BY <1>5, <1>6, <1>8, <1>9, <1>10, <1>11, <1>12, FrameKeeps
----------------------------------------------------------------------------
(* The employees *)

LEMMA HireKeeps ==
    ASSUME VInv, NEW e \in Employee, NEW c \in Company, NEW d \in 0..LastHire, Hire(e, c, d)
    PROVE  VInv'
<1> USE VacationAssumption
<1> DEFINE x == Row("INITIAL", InitialDays, InitialDays, NoPeriod, "EMPLOYEE_CREATE", e, c)
<1>1. c \in Companies /\ c # NoCompany /\ d \in Int /\ Never \in Int /\ InitialDays \in Int
  BY DEF Companies, Never
<1>2. x \in MovementShape /\ x.fuente \notin Ends
  <2>1. NoPeriod \in Int /\ e \in Owners
    BY DEF NoPeriod, Owners
  <2>2. x \in MovementShape
    BY <1>1, <2>1, RowShaped DEF Movement, SourceType
  <2> QED
    BY <2>2 DEF Row, Ends
<1>3. Book(e, <<x>>) /\ ledger[e] = <<>>
  BY DEF Hire, VInv, OnlyHired
<1> HIDE DEF x
<1>4. LedgerAllows(e, <<x>>)
  BY <1>3 DEF LedgerAllows
<1>5. <<x>> \in Seq(MovementShape) /\ DistinctRows(<<x>>) /\ BalancedRows(<<x>>)
  BY <1>2, FewRows
<1>6. /\ LedgerOk' /\ Longer
      /\ \A y \in Employee \ {e} : ledger'[y] = ledger[y]
  BY <1>3, <1>4, <1>5, BookKeeps DEF VInv
<1>7. /\ UNCHANGED <<today, action, transfer, run, request>>
      /\ employee' = [employee EXCEPT ![e] = [activo |-> TRUE, empresa |-> c, salida |-> Never]]
      /\ account' = [account EXCEPT ![e] = [existe |-> TRUE, activa |-> TRUE, empresa |-> c,
                                            ingreso |-> d, ultima |-> Never]]
  BY DEF Hire, KeepRest
<1>8. Shapes'
  <2>1. employee' \in [Employee -> EmployeeShape]
    BY <1>1, <1>7 DEF VInv, Shapes, EmployeeShape
  <2>2. account' \in [Employee -> AccountShape]
    BY <1>1, <1>7 DEF VInv, Shapes, AccountShape
  <2> QED
    BY <1>7, <2>1, <2>2 DEF VInv, Shapes
<1>9. \A y \in Employee : y = e \/ Hired(y) => employee'[y].empresa # NoCompany
  BY <1>1, <1>7 DEF Hired, VInv, Shapes
<1>10. Grows
  BY <1>6, <1>7, <1>9 DEF Grows, Hired
<1>11. OnlyHired'
  <2>1. ASSUME NEW y \in Employee, account'[y].existe \/ account'[y].activa \/ ledger'[y] # <<>>
        PROVE  employee'[y].empresa # NoCompany
    <3>1. CASE y = e
      BY <1>9, <3>1
    <3>2. CASE y # e
      <4>1. ledger'[y] = ledger[y] /\ account'[y] = account[y]
        BY <1>6, <1>7, <3>2 DEF VInv, Shapes
      <4> QED
        BY <1>9, <2>1, <4>1 DEF VInv, OnlyHired
    <3> QED
      BY <3>1, <3>2
  <2> QED
    BY <1>7, <1>9, <2>1 DEF VInv, OnlyHired, Hired
<1>12. Executed'
  BY <1>6, <1>7, ExecutedStays
<1> QED
  BY <1>6, <1>7, <1>8, <1>10, <1>11, <1>12, FrameKeeps

LEMMA ChangeJoinDateKeeps ==
    ASSUME VInv, NEW e \in Employee, NEW d \in 0..LastHire, ChangeJoinDate(e, d) PROVE VInv'
<1>1. /\ UNCHANGED <<today, action, transfer, run, request, employee, ledger>> /\ Hired(e)
      /\ account' = [account EXCEPT ![e] =
             IF account[e].existe THEN [account[e] EXCEPT !.ingreso = d]
             ELSE [existe |-> TRUE, activa |-> employee[e].activo,
                   empresa |-> employee[e].empresa, ingreso |-> d, ultima |-> Never]]
  BY DEF ChangeJoinDate, KeepRest
<1>2. d \in Int /\ Never \in Int
  BY VacationAssumption DEF Never
<1>3. LedgerOk' /\ Longer
  BY <1>1, QuietLedger DEF VInv
<1>4. account' \in [Employee -> AccountShape]
  <2>1. /\ account[e] \in AccountShape /\ employee[e].empresa \in Companies
        /\ employee[e].activo \in BOOLEAN
    BY DEF VInv, Shapes, EmployeeShape
  <2>2. (IF account[e].existe THEN [account[e] EXCEPT !.ingreso = d]
         ELSE [existe |-> TRUE, activa |-> employee[e].activo,
               empresa |-> employee[e].empresa, ingreso |-> d, ultima |-> Never]) \in AccountShape
    BY <1>2, <2>1 DEF AccountShape
  <2> QED
    BY <1>1, <2>2 DEF VInv, Shapes
<1>5. Shapes'
  BY <1>1, <1>4 DEF VInv, Shapes
<1>6. Grows
  BY <1>1, <1>3 DEF Grows, Hired
<1>7. OnlyHired'
  <2>1. \A x \in Employee : x # e => account'[x] = account[x]
    BY <1>1 DEF VInv, Shapes
  <2> QED
    BY <1>1, <2>1 DEF VInv, OnlyHired, Hired
<1>8. Executed'
  BY <1>1, <1>3, ExecutedStays
<1> QED
  BY <1>1, <1>3, <1>5, <1>6, <1>7, <1>8, FrameKeeps

LEMMA LoadEmployeeKeeps ==
    ASSUME VInv, NEW s \in Session, NEW e \in Employee,
           NEW op \in {"inactivate", "reactivate", "liquidate"}, LoadEmployee(s, e, op)
    PROVE  VInv'
<1> DEFINE emp == [employee[e] EXCEPT !.activo = (op = "reactivate"),
                                      !.salida = IF op = "liquidate" THEN today ELSE @]
           r == [IdleRequest EXCEPT !.op = op, !.pc = "loaded", !.e = e, !.emp = emp]
<1>1. StepRequest(s, r) /\ Hired(e)
  BY DEF LoadEmployee
<1>2. employee[e] \in EmployeeShape /\ today \in Int
  BY DEF VInv, Shapes
<1>3. emp \in EmployeeShape /\ emp.empresa = employee[e].empresa
  BY <1>2 DEF EmployeeShape
<1> HIDE DEF emp
<1>4. r \in RequestShape
  BY <1>3, IdleRequestOk DEF RequestShape
<1>5. r.op = op /\ r.pc = "loaded" /\ r.e = e /\ r.emp = emp
  BY DEF IdleRequest
<1> HIDE DEF r
<1>6. RequestOk(r)
  BY <1>1, <1>3, <1>5 DEF RequestOk, Hired
<1> QED
  BY <1>1, <1>4, <1>6, RequestMoves DEF LoadEmployee, KeepRest

LEMMA SaveEmployeeKeeps == ASSUME VInv, NEW s \in Session, SaveEmployee(s) PROVE VInv'
<1> DEFINE r == request[s]
<1>1. r \in RequestShape /\ r.e \in Employee /\ r.emp \in EmployeeShape /\ r.emp.empresa # NoCompany
  BY DEF VInv, Shapes, Processes, RequestOk, RequestShape, SaveEmployee
<1>2. /\ UNCHANGED <<today, action, transfer, run, account, ledger>>
      /\ employee' = [employee EXCEPT ![r.e] = r.emp]
      /\ request' = [request EXCEPT ![s] = IdleRequest]
  BY DEF SaveEmployee, KeepRest, StepRequest
<1>3. LedgerOk' /\ Longer
  BY <1>2, QuietLedger DEF VInv
<1>4. Shapes'
  BY <1>1, <1>2, IdleRequestOk DEF VInv, Shapes
<1>5. \A x \in Employee : Hired(x) => employee'[x].empresa # NoCompany
  BY <1>1, <1>2 DEF Hired, VInv, Shapes
<1>6. Grows
  BY <1>2, <1>3, <1>5 DEF Grows, Hired
<1>7. OnlyHired'
  BY <1>2, <1>5 DEF VInv, OnlyHired, Hired
<1>8. Executed'
  BY <1>2, <1>3, ExecutedStays
<1>9. ASSUME NEW u \in Session PROVE request'[u] = request[u] \/ RequestOk(request[u])'
  <2>1. request'[u] = request[u] \/ request'[u] = IdleRequest
    BY <1>2 DEF VInv, Shapes
  <2>2. request'[u] = IdleRequest => RequestOk(request[u])'
    BY DEF IdleRequest, RequestOk, Known
  <2> QED
    BY <2>1, <2>2
<1> QED
  BY <1>2, <1>3, <1>4, <1>6, <1>7, <1>8, <1>9, FrameKeeps
----------------------------------------------------------------------------
(* The days, the personal actions and the payrolls *)

\* A step that touches the date, the actions and the requests only.
LEMMA ActionsMove ==
    ASSUME VInv, UNCHANGED <<employee, account, ledger, transfer, run>>,
           today' \in Int, action' \in [Action -> ActionRow],
           \A a \in Action : action[a].estado # "NONE" =>
               action'[a].estado # "NONE" /\ action'[a].empleado = action[a].empleado,
           \A a \in Action : action'[a].estado # "NONE" =>
               action'[a].empleado \in Employee /\ Hired(action'[a].empleado),
           request' \in [Session -> RequestShape],
           \A s \in Session : request'[s] = request[s] \/ RequestOk(request[s])'
    PROVE  VInv'
<1>1. LedgerOk' /\ Longer
  BY QuietLedger DEF VInv
<1>2. Shapes'
  BY DEF VInv, Shapes
<1>3. Grows
  BY <1>1 DEF Grows, Hired
<1>4. OnlyHired'
  BY DEF VInv, OnlyHired, Hired
<1>5. Executed'
  BY <1>1, ExecutedStays
<1> QED
  BY <1>1, <1>2, <1>3, <1>4, <1>5, FrameKeeps

LEMMA TickKeeps == ASSUME VInv, Tick PROVE VInv'
  BY ActionsMove DEF Tick, tables, VInv, Shapes, OnlyHired

LEMMA RegisterKeeps ==
    ASSUME VInv, NEW a \in Action, NEW e \in Employee, NEW n \in Payroll \cup {NoPayroll},
           Register(a, e, n)
    PROVE  VInv'
<1>1. /\ UNCHANGED <<today, employee, account, ledger, transfer, run, request>>
      /\ action[a].estado = "NONE" /\ Hired(e)
      /\ action' = [action EXCEPT ![a] = [estado |-> "PENDING_RRHH", empleado |-> e,
                                          idCalendarioNomina |-> n]]
  BY DEF Register, Quiet
<1>2. action' \in [Action -> ActionRow]
  BY <1>1 DEF VInv, Shapes, ActionRow
<1>3. \A b \in Action : b # a => action'[b] = action[b]
  BY <1>1 DEF VInv, Shapes
<1>4. action'[a].empleado = e
  BY <1>1 DEF VInv, Shapes
<1> QED
  BY <1>1, <1>2, <1>3, <1>4, ActionsMove DEF VInv, Shapes, OnlyHired

LEMMA ApproveKeeps == ASSUME VInv, NEW a \in Action, Approve(a) PROVE VInv'
<1>1. /\ UNCHANGED <<today, employee, account, ledger, transfer, run, request>>
      /\ action[a].estado = "PENDING_RRHH"
      /\ action' = [action EXCEPT ![a].estado = "APPROVED"]
  BY DEF Approve, Quiet
<1>2. action' \in [Action -> ActionRow]
  BY <1>1 DEF VInv, Shapes, ActionRow
<1>3. \A b \in Action : /\ action'[b].empleado = action[b].empleado
                        /\ action'[b].estado # "NONE" <=> action[b].estado # "NONE"
  BY <1>1 DEF VInv, Shapes, ActionRow
<1> QED
  BY <1>1, <1>2, <1>3, ActionsMove DEF VInv, Shapes, OnlyHired

LEMMA VerifyKeeps == ASSUME VInv, NEW n \in Payroll, Verify(n) PROVE VInv'
  BY ActionsMove DEF Verify, Quiet, VInv, Shapes, OnlyHired

LEMMA ApplyKeeps ==
    ASSUME VInv, NEW s \in Session, NEW n \in Payroll, NEW selected \in SUBSET Employee,
           Apply(s, n, selected)
    PROVE  VInv'
<1> DEFINE r == [IdleRequest EXCEPT !.op = "apply", !.pc = "usage", !.n = n]
<1>1. /\ UNCHANGED <<today, employee, account, ledger, transfer, run>>
      /\ action' = [a \in Action |-> IF a \in ConsumedBy(n, selected)
                                     THEN [action[a] EXCEPT !.estado = "CONSUMED"] ELSE action[a]]
      /\ request' = [request EXCEPT ![s] = r]
  BY DEF Apply, Quiet, StepRequest
<1>2. ASSUME NEW a \in Action
      PROVE  /\ action'[a] \in ActionRow
             /\ action'[a].empleado = action[a].empleado
             /\ action'[a].estado # "NONE" <=> action[a].estado # "NONE"
  <2>1. action[a] \in ActionRow
    BY DEF VInv, Shapes
  <2>2. CASE a \in ConsumedBy(n, selected)
    <3>1. action'[a] = [action[a] EXCEPT !.estado = "CONSUMED"] /\ action[a].estado = "APPROVED"
      BY <1>1, <2>2 DEF ConsumedBy
    <3> QED
      BY <2>1, <3>1 DEF ActionRow
  <2>3. CASE a \notin ConsumedBy(n, selected)
    BY <1>1, <2>1, <2>3
  <2> QED
    BY <2>2, <2>3
<1>3. action' \in [Action -> ActionRow]
  BY <1>1, <1>2
<1>4. r \in RequestShape
  BY IdleRequestOk DEF RequestShape
<1>5. r.op = "apply" /\ r.pc = "usage" /\ r.acts = {}
  BY DEF IdleRequest
<1> HIDE DEF r
<1>6. request' \in [Session -> RequestShape]
      /\ \A u \in Session : request'[u] = request[u] \/ request'[u] = r
  BY <1>1, <1>4 DEF VInv, Shapes
<1>7. ASSUME NEW u \in Session PROVE request'[u] = request[u] \/ RequestOk(request[u])'
  BY <1>5, <1>6 DEF RequestOk, Known
<1> QED
  BY <1>1, <1>2, <1>3, <1>6, <1>7, ActionsMove DEF VInv, Shapes, OnlyHired
----------------------------------------------------------------------------
(* The transfers *)

LEMMA SimulateKeeps ==
    ASSUME VInv, NEW t \in Transfer, NEW e \in Employee, NEW c \in Company, Simulate(t, e, c)
    PROVE  VInv'
<1>1. /\ UNCHANGED <<today, employee, account, ledger, action, run, request>>
      /\ transfer[t].estado = "NONE" /\ Hired(e)
      /\ transfer' = [transfer EXCEPT ![t] = [estado |-> "SIMULATED", empleado |-> e,
                                              origen |-> employee[e].empresa, destino |-> c]]
  BY DEF Simulate, KeepMoved
<1>2. employee[e].empresa \in Companies
  BY DEF VInv, Shapes, EmployeeShape
<1>3. transfer' \in [Transfer -> TransferRow]
  BY <1>1, <1>2 DEF VInv, Shapes, TransferRow, Companies
<1>4. /\ \A u \in Transfer : u # t => transfer'[u] = transfer[u]
      /\ transfer'[t].empleado = e /\ transfer'[t].destino = c /\ transfer'[t].estado = "SIMULATED"
  BY <1>1 DEF VInv, Shapes
<1>5. LedgerOk' /\ Longer
  BY <1>1, QuietLedger DEF VInv
<1>6. Shapes'
  BY <1>1, <1>3 DEF VInv, Shapes
<1>7. Grows
  BY <1>1, <1>4, <1>5 DEF Grows, Hired
<1>8. OnlyHired'
  BY <1>1, <1>4 DEF VInv, OnlyHired, Hired
<1>9. Executed'
  BY <1>4, <1>5, ExecutedStays
<1> QED
  BY <1>1, <1>5, <1>6, <1>7, <1>8, <1>9, FrameKeeps

LEMMA LoadExecuteKeeps ==
    ASSUME VInv, NEW s \in Session, NEW t \in Transfer, LoadExecute(s, t) PROVE VInv'
<1> DEFINE r == [IdleRequest EXCEPT !.op = "execute", !.pc = "loaded", !.t = t]
<1>1. StepRequest(s, r) /\ transfer[t].estado = "SIMULATED"
  BY DEF LoadExecute
<1>2. r \in RequestShape
  BY IdleRequestOk DEF RequestShape
<1>3. r.op = "execute" /\ r.pc = "loaded" /\ r.t = t
  BY DEF IdleRequest
<1> HIDE DEF r
<1>4. RequestOk(r)
  BY <1>1, <1>3 DEF RequestOk
<1> QED
  BY <1>1, <1>2, <1>4, RequestMoves DEF LoadExecute, KeepMoved, tables

LEMMA ResimulateKeeps == ASSUME VInv, NEW s \in Session, Resimulate(s) PROVE VInv'
<1> DEFINE t == request[s].t
           e == transfer[t].empleado
           able == Transferable(e, transfer[t].destino)
           acts == Movable(e)
<1>1. /\ request[s] \in RequestShape /\ request[s].op = "execute"
      /\ t \in Transfer /\ transfer[t].estado # "NONE" /\ e \in Employee
  BY DEF VInv, Shapes, Processes, RequestOk, OnlyHired, Resimulate, At
<1>2. acts \in SUBSET Action /\ Known(acts)
  BY DEF Movable, Known
<1>3. /\ UNCHANGED <<today, employee, account, ledger, action, transfer, run>>
      /\ StepRequest(s, IF able THEN [request[s] EXCEPT !.pc = "planned", !.e = e, !.acts = acts]
                        ELSE [request[s] EXCEPT !.pc = "refused"])
  BY DEF Resimulate, KeepMoved, tables
<1> HIDE DEF able, acts
<1>4. CASE able
  <2> DEFINE r == [request[s] EXCEPT !.pc = "planned", !.e = e, !.acts = acts]
  <2>1. r \in RequestShape
    BY <1>1, <1>2 DEF RequestShape
  <2>2. r.op = "execute" /\ r.pc = "planned" /\ r.t = t /\ r.e = e /\ r.acts = acts
    BY <1>1 DEF RequestShape
  <2>3. StepRequest(s, r)
    BY <1>3, <1>4
  <2> HIDE DEF r
  <2>4. RequestOk(r)
    BY <1>1, <1>2, <2>2 DEF RequestOk
  <2> QED
    BY <1>3, <2>1, <2>3, <2>4, RequestMoves
<1>5. CASE ~able
  <2> DEFINE r == [request[s] EXCEPT !.pc = "refused"]
  <2>1. r \in RequestShape
    BY <1>1 DEF RequestShape
  <2>2. r.op = "execute" /\ r.pc = "refused" /\ r.t = t
    BY <1>1 DEF RequestShape
  <2>3. StepRequest(s, r)
    BY <1>3, <1>5
  <2> HIDE DEF r
  <2>4. RequestOk(r)
    BY <1>1, <2>2 DEF RequestOk
  <2> QED
    BY <1>3, <2>1, <2>3, <2>4, RequestMoves
<1> QED
  BY <1>4, <1>5

LEMMA FailTransferKeeps == ASSUME VInv, NEW s \in Session, FailTransfer(s) PROVE VInv'
<1> DEFINE t == request[s].t
<1>1. t \in Transfer /\ transfer[t].estado # "NONE"
  BY DEF VInv, Processes, RequestOk, FailTransfer, At
<1>2. /\ UNCHANGED <<today, employee, account, ledger, action, run>>
      /\ transfer' = [transfer EXCEPT ![t].estado = "FAILED"]
      /\ request' = [request EXCEPT ![s] = IdleRequest]
  BY DEF FailTransfer, KeepMoved, StepRequest
<1>3. transfer' \in [Transfer -> TransferRow]
  BY <1>1, <1>2 DEF VInv, Shapes, TransferRow
<1>4. \A u \in Transfer :
          /\ transfer'[u].empleado = transfer[u].empleado
          /\ transfer'[u].destino = transfer[u].destino
          /\ u # t => transfer'[u].estado = transfer[u].estado
          /\ u = t => transfer'[u].estado = "FAILED"
  BY <1>2 DEF VInv, Shapes, TransferRow
<1>5. LedgerOk' /\ Longer
  BY <1>2, QuietLedger DEF VInv
<1>6. Shapes'
  BY <1>2, <1>3, IdleRequestOk DEF VInv, Shapes
<1>7. Grows
  BY <1>2, <1>4, <1>5 DEF Grows, Hired
<1>8. OnlyHired'
  <2>1. \A u \in Transfer : transfer'[u].estado # "NONE" => transfer[u].estado # "NONE"
    BY <1>1, <1>4
  <2> QED
    BY <1>2, <1>4, <2>1 DEF VInv, OnlyHired, Hired
<1>9. Executed'
  <2>1. \A u \in Transfer : transfer'[u].estado = "EXECUTED" =>
            transfer[u].estado = "EXECUTED" /\ transfer'[u].empleado = transfer[u].empleado
    BY <1>4
  <2> QED
    BY <1>5, <2>1, ExecutedStays
<1>10. ASSUME NEW u \in Session PROVE request'[u] = request[u] \/ RequestOk(request[u])'
  <2>1. request'[u] = request[u] \/ request'[u] = IdleRequest
    BY <1>2 DEF VInv, Shapes
  <2>2. request'[u] = IdleRequest => RequestOk(request[u])'
    BY DEF IdleRequest, RequestOk, Known
  <2> QED
    BY <2>1, <2>2
<1> QED
  BY <1>2, <1>5, <1>6, <1>7, <1>8, <1>9, <1>10, FrameKeeps

LEMMA BeginTransferKeeps == ASSUME VInv, NEW s \in Session, BeginTransfer(s) PROVE VInv'
<1> DEFINE e == request[s].e
           snap == Snapshot(e)
           same == employee[e].empresa = transfer[request[s].t].origen
<1>1. /\ request[s] \in RequestShape /\ request[s].op = "execute"
      /\ RequestOk(request[s]) /\ request[s].pc = "planned"
  BY DEF VInv, Shapes, Processes, BeginTransfer, At
<1>2. e \in Employee
  BY <1>1 DEF RequestOk, VInv, OnlyHired
<1>3. Read(snap, e)
  BY <1>2, SnapshotRead
<1>4. /\ UNCHANGED <<today, employee, account, ledger, action, transfer, run>>
      /\ StepRequest(s, IF same THEN [request[s] EXCEPT !.pc = "tx", !.snap = snap]
                        ELSE IdleRequest)
  BY DEF BeginTransfer, KeepMoved, tables
<1>5. snap \in SnapshotShape
  BY <1>3 DEF Read
<1> HIDE DEF snap, same
<1>6. CASE same
  <2> DEFINE r == [request[s] EXCEPT !.pc = "tx", !.snap = snap]
  <2>1. r \in RequestShape
    BY <1>1, <1>5 DEF RequestShape
  <2>2. /\ r.op = "execute" /\ r.pc = "tx" /\ r.snap = snap /\ r.t = request[s].t /\ r.e = e
        /\ r.acts = request[s].acts
    BY <1>1 DEF RequestShape
  <2>3. StepRequest(s, r)
    BY <1>4, <1>6
  <2> HIDE DEF r
  <2>4. RequestOk(r)
    BY <1>1, <1>3, <2>2 DEF RequestOk
  <2> QED
    BY <1>4, <2>1, <2>3, <2>4, RequestMoves
<1>7. CASE ~same
  BY <1>4, <1>7, IdleRequestOk, RequestMoves
<1> QED
  BY <1>6, <1>7

LEMMA AbortTransferKeeps == ASSUME VInv, NEW s \in Session, AbortTransfer(s) PROVE VInv'
  BY IdleRequestOk, RequestMoves DEF AbortTransfer, KeepMoved, tables

\* The last row of a ledger is the last one that was appended.
LEMMA LastOfConcat ==
    ASSUME NEW s \in Seq(MovementShape), NEW rows \in Seq(MovementShape), Len(rows) # 0
    PROVE  /\ Len(s \o rows) = Len(s) + Len(rows) /\ Len(s \o rows) \in Nat \ {0}
           /\ (s \o rows)[Len(s \o rows)] = rows[Len(rows)]
<1>1. /\ Len(s) \in Nat /\ Len(rows) \in Nat \ {0} /\ Len(s \o rows) = Len(s) + Len(rows)
  OBVIOUS
<1>2. (s \o rows)[Len(s) + Len(rows)] = rows[Len(s) + Len(rows) - Len(s)]
  BY <1>1
<1>3. Len(s) + Len(rows) - Len(s) = Len(rows)
  BY <1>1
<1> QED
  BY <1>1, <1>2, <1>3

\* The movements of a transfer are distinct and balanced, and the last one enters.
LEMMA BookingOk ==
    ASSUME VInv, NEW r \in RequestShape, r.t \in Transfer, r.e \in Employee, Read(r.snap, r.e)
    PROVE  /\ Booking(r) \in Seq(MovementShape)
           /\ DistinctRows(Booking(r)) /\ BalancedRows(Booking(r))
           /\ Len(Booking(r)) \in Nat \ {0}
           /\ Booking(r)[Len(Booking(r))].fuente = "TRANSFER_IN"
           /\ Booking(r)[Len(Booking(r))].id = r.t
<1> DEFINE days == LastBalance(r.e, r.snap)
           x == Row("INITIAL", 0, days, NoPeriod, "EMPLOYEE_CREATE", r.e, r.snap.emp.empresa)
           out == Row("ADJUSTMENT", -days, 0, NoPeriod, "TRANSFER_OUT", r.t, transfer[r.t].origen)
           in == Row("ADJUSTMENT", days, days, NoPeriod, "TRANSFER_IN", r.t, transfer[r.t].destino)
           opening == Opening(r.e, r.snap)
           ends == <<out, in>>
<1>1. days \in Int /\ -days \in Int /\ 0 \in Int /\ NoPeriod \in Int
  BY BalanceInt DEF NoPeriod
<1>2. /\ r.snap.emp.empresa \in Companies /\ r.e \in Owners /\ r.t \in Owners
      /\ transfer[r.t].origen \in Companies /\ transfer[r.t].destino \in Companies
  BY DEF Read, SnapshotShape, EmployeeShape, Owners, VInv, Shapes, TransferRow, Companies
<1>3. x \in MovementShape /\ out \in MovementShape /\ in \in MovementShape
  <2> HIDE DEF days
  <2> QED
    BY <1>1, <1>2, RowShaped DEF Movement, SourceType
<1>4. /\ x.tipo = "INITIAL" /\ x.fuente = "EMPLOYEE_CREATE"
      /\ out.tipo = "ADJUSTMENT" /\ out.fuente = "TRANSFER_OUT" /\ out.id = r.t /\ out.delta = -days
      /\ in.tipo = "ADJUSTMENT" /\ in.fuente = "TRANSFER_IN" /\ in.id = r.t /\ in.delta = days
      /\ out.periodo = NoPeriod /\ in.periodo = NoPeriod
  BY DEF Row
<1>5. opening = <<>> \/ opening = <<x>>
  BY DEF Opening
<1>6. TransferRows(r.e, r.t, r.snap) = ends
  BY DEF TransferRows
<1> HIDE DEF days, x, out, in, opening
<1>7. opening \in Seq(MovementShape) /\ DistinctRows(opening) /\ BalancedRows(opening)
  BY <1>3, <1>4, <1>5, FewRows DEF Ends
<1>8. /\ ends \in Seq(MovementShape) /\ DOMAIN ends = {1, 2} /\ Len(ends) = 2
      /\ ends[1] = out /\ ends[2] = in
  BY <1>3
<1> HIDE DEF ends
<1>9. DistinctRows(ends)
  <2>1. ~SameMovement(out, in) /\ ~SameMovement(in, out)
    BY <1>4 DEF SameMovement
  <2> QED
    BY <1>8, <2>1 DEF DistinctRows
<1>10. BalancedRows(ends)
  <2>1. OtherEnd(out, in) /\ OtherEnd(in, out)
    BY <1>1, <1>4 DEF OtherEnd, Ends
  <2> QED
    BY <1>8, <2>1 DEF BalancedRows
<1>11. \A i \in DOMAIN opening, j \in DOMAIN ends : ~SameMovement(opening[i], ends[j])
  <2>1. ~SameMovement(x, out) /\ ~SameMovement(x, in)
    BY <1>4 DEF SameMovement
  <2>2. \A i \in DOMAIN opening : opening[i] = x
    BY <1>5
  <2> QED
    BY <1>8, <2>1, <2>2
<1>12. Booking(r) = opening \o ends
  BY <1>6 DEF Booking, opening
<1>13. /\ opening \o ends \in Seq(MovementShape)
       /\ DistinctRows(opening \o ends) /\ BalancedRows(opening \o ends)
  BY <1>7, <1>8, <1>9, <1>10, <1>11, AppendDistinct, AppendBalanced
<1>14. /\ Len(opening \o ends) \in Nat \ {0}
       /\ (opening \o ends)[Len(opening \o ends)] = in
  <2>1. opening \in Seq(MovementShape) /\ ends \in Seq(MovementShape) /\ Len(ends) # 0
    BY <1>7, <1>8
  <2>2. (opening \o ends)[Len(opening \o ends)] = ends[Len(ends)]
    BY <2>1, LastOfConcat, Zenon
  <2>3. Len(opening \o ends) \in Nat \ {0}
    BY <2>1, LastOfConcat, Zenon
  <2> QED
    BY <1>8, <2>2, <2>3
<1> QED
  BY <1>4, <1>12, <1>13, <1>14

\* Moving the actions loses none and changes the employee of none.
LEMMA MovedActionsOk ==
    ASSUME VInv, NEW r \in RequestShape, Known(r.acts), NEW n \in Payroll, NEW copy \in Copies(r),
           action' = MovedActions(r, n, copy)
    PROVE  /\ action' \in [Action -> ActionRow]
           /\ \A a \in Action : action[a].estado # "NONE" =>
                 action'[a].estado # "NONE" /\ action'[a].empleado = action[a].empleado
           /\ \A a \in Action : action'[a].estado # "NONE" =>
                 action'[a].empleado \in Employee /\ Hired(action'[a].empleado)
<1> DEFINE split == {a \in r.acts : a \in Crossing /\ ~Linked(a)}
           free == {a \in Action \ Crossing : action[a].estado = "NONE"}
           original(a) == CHOOSE o \in split : copy[o] = a
<1>1. copy \in [split -> free] /\ r.acts \subseteq Action
  BY DEF Copies, RequestShape
<1>2. action' = [a \in Action |->
          IF a \in r.acts \ split THEN [action[a] EXCEPT !.idCalendarioNomina = n]
          ELSE IF \E o \in split : copy[o] = a
               THEN [action[original(a)] EXCEPT !.idCalendarioNomina = n]
          ELSE action[a]]
  BY DEF MovedActions
<1>3. \A a \in Action : action[a] \in ActionRow
  BY DEF VInv, Shapes
<1>4. \A a \in Action : action[a].estado # "NONE" =>
          action[a].empleado \in Employee /\ Hired(action[a].empleado)
  BY DEF VInv, OnlyHired
<1>5. ASSUME NEW b \in Action
      PROVE  LET x == [action[b] EXCEPT !.idCalendarioNomina = n]
             IN  x \in ActionRow /\ x.estado = action[b].estado /\ x.empleado = action[b].empleado
  BY <1>3 DEF ActionRow
<1>6. ASSUME NEW a \in Action
      PROVE  /\ action'[a] \in ActionRow
             /\ action[a].estado # "NONE" =>
                   action'[a].estado # "NONE" /\ action'[a].empleado = action[a].empleado
             /\ action'[a].estado # "NONE" =>
                   action'[a].empleado \in Employee /\ Hired(action'[a].empleado)
  <2>1. CASE a \in r.acts \ split
    <3>1. action'[a] = [action[a] EXCEPT !.idCalendarioNomina = n]
      BY <1>2, <2>1
    <3> QED
      BY <1>4, <1>5, <3>1
  <2>2. CASE a \notin r.acts \ split /\ \E o \in split : copy[o] = a
    <3> DEFINE o == original(a)
    <3>1. o \in split /\ copy[o] = a
      BY <2>2
    <3>2. action'[a] = [action[o] EXCEPT !.idCalendarioNomina = n]
      BY <1>2, <2>2
    <3> HIDE DEF o
    <3>3. action[a].estado = "NONE"
      BY <1>1, <3>1
    <3>4. o \in Action
      BY <1>1, <3>1
    <3> QED
      BY <1>4, <1>5, <3>2, <3>3, <3>4
  <2>3. CASE a \notin r.acts \ split /\ ~(\E o \in split : copy[o] = a)
    <3>1. action'[a] = action[a]
      BY <1>2, <2>3
    <3> QED
      BY <1>3, <1>4, <3>1
  <2> QED
    BY <2>1, <2>2, <2>3
<1>7. action' \in [Action -> ActionRow]
  BY <1>2, <1>6
<1> QED
  BY <1>6, <1>7

LEMMA CommitTransferKeeps == ASSUME VInv, NEW s \in Session, CommitTransfer(s) PROVE VInv'
<1> DEFINE r == request[s]
           t == r.t
           e == r.e
           c == transfer[t].destino
           rows == Booking(r)
<1>1. /\ r \in RequestShape /\ t \in Transfer /\ transfer[t].estado # "NONE"
      /\ e = transfer[t].empleado /\ e \in Employee /\ c \in Company
      /\ Known(r.acts) /\ Read(r.snap, e)
  BY DEF VInv, Shapes, Processes, RequestOk, OnlyHired, CommitTransfer, At
<1>2. c \in Companies /\ c # NoCompany
  BY <1>1, VacationAssumption DEF Companies
<1>3. /\ rows \in Seq(MovementShape) /\ DistinctRows(rows) /\ BalancedRows(rows)
      /\ Len(rows) \in Nat \ {0}
      /\ rows[Len(rows)].fuente = "TRANSFER_IN" /\ rows[Len(rows)].id = t
  BY <1>1, BookingOk
<1>4. /\ LedgerAllows(e, rows) /\ Book(e, rows)
      /\ UNCHANGED <<today, run>>
      /\ account' = [account EXCEPT ![e].existe = TRUE, ![e].activa = Opened(r),
                                   ![e].empresa = c]
      /\ employee' = [employee EXCEPT ![e].empresa = c]
      /\ transfer' = [transfer EXCEPT ![t].estado = "EXECUTED"]
      /\ request' = [request EXCEPT ![s] = IdleRequest]
  BY DEF CommitTransfer, StepRequest, KeepMoved, Bookable
<1>5. /\ action' \in [Action -> ActionRow]
      /\ \A a \in Action : action[a].estado # "NONE" =>
            action'[a].estado # "NONE" /\ action'[a].empleado = action[a].empleado
      /\ \A a \in Action : action'[a].estado # "NONE" =>
            action'[a].empleado \in Employee /\ Hired(action'[a].empleado)
  <2>1. CASE r.acts = {} /\ UNCHANGED action
    BY <2>1 DEF VInv, Shapes, OnlyHired
  <2>2. CASE \E n \in {m \in Payroll : CompanyOf[m] = c}, copy \in Copies(r) :
                action' = MovedActions(r, n, copy)
    BY <1>1, <2>2, MovedActionsOk
  <2> QED
    BY <2>1, <2>2 DEF CommitTransfer
<1> HIDE DEF rows
<1>20. Opened(r) \in BOOLEAN
  BY <1>1 DEF Opened, VInv, Shapes, AccountShape, Read, SnapshotShape, EmployeeShape
<1>21. PICK activa \in BOOLEAN : activa = Opened(r)
  BY <1>20
<1>6. /\ LedgerOk' /\ Longer
      /\ \A x \in Employee \ {e} : ledger'[x] = ledger[x]
      /\ ledger'[e] = ledger[e] \o rows
  BY <1>1, <1>3, <1>4, BookKeeps DEF VInv
<1> HIDE DEF r, t, e, c
<1>7. /\ employee' \in [Employee -> EmployeeShape] /\ account' \in [Employee -> AccountShape]
      /\ \A x \in Employee : x # e => employee'[x] = employee[x] /\ account'[x] = account[x]
      /\ employee'[e].empresa = c
  <2>1. employee \in [Employee -> EmployeeShape] /\ account \in [Employee -> AccountShape]
    BY DEF VInv, Shapes
  <2>2. employee' \in [Employee -> EmployeeShape] /\ employee'[e].empresa = c
    BY <1>1, <1>2, <1>4, <2>1 DEF EmployeeShape
  <2>3. account' \in [Employee -> AccountShape]
    <3>1. [account[e] EXCEPT !.existe = TRUE, !.activa = activa, !.empresa = c] \in AccountShape
      BY <1>1, <1>2, <2>1 DEF AccountShape
    <3>2. account' = [account EXCEPT ![e] =
                         [account[e] EXCEPT !.existe = TRUE, !.activa = activa, !.empresa = c]]
      BY <1>4, <1>21
    <3> QED
      BY <2>1, <3>1, <3>2
  <2>4. \A x \in Employee : x # e => employee'[x] = employee[x] /\ account'[x] = account[x]
    BY <1>4, <2>1
  <2> QED
    BY <2>2, <2>3, <2>4
<1>8. /\ transfer' \in [Transfer -> TransferRow]
      /\ transfer'[t].estado = "EXECUTED"
      /\ \A u \in Transfer : /\ transfer'[u].empleado = transfer[u].empleado
                             /\ transfer'[u].destino = transfer[u].destino
                             /\ u # t => transfer'[u].estado = transfer[u].estado
  BY <1>1, <1>4 DEF VInv, Shapes, TransferRow
<1>9. \A x \in Employee : x = e \/ Hired(x) => employee'[x].empresa # NoCompany
  <2> TAKE x \in Employee
  <2>1. CASE x = e
    BY <1>2, <1>7, <2>1
  <2>2. CASE x # e
    BY <1>7, <2>2 DEF Hired
  <2> QED
    BY <2>1, <2>2
<1>10. Shapes'
  BY <1>4, <1>5, <1>7, <1>8, IdleRequestOk DEF VInv, Shapes
<1>11. Grows
  BY <1>5, <1>6, <1>8, <1>9 DEF Grows, Hired
<1>12. OnlyHired'
  <2>1. ASSUME NEW x \in Employee, account'[x].existe \/ account'[x].activa \/ ledger'[x] # <<>>
        PROVE  employee'[x].empresa # NoCompany
    <3>1. CASE x = e
      BY <1>9, <3>1
    <3>2. CASE x # e
      <4>1. account'[x] = account[x] /\ ledger'[x] = ledger[x]
        BY <1>6, <1>7, <3>2
      <4> QED
        BY <1>9, <2>1, <4>1 DEF VInv, OnlyHired
    <3> QED
      BY <3>1, <3>2
  <2>2. \A a \in Action : action'[a].estado # "NONE" =>
            action'[a].empleado \in Employee /\ employee'[action'[a].empleado].empresa # NoCompany
    BY <1>5, <1>9
  <2>3. \A u \in Transfer : transfer'[u].estado # "NONE" =>
            transfer'[u].empleado \in Employee /\ transfer'[u].destino \in Company
    <3>1. \A u \in Transfer : transfer'[u].estado # "NONE" => transfer[u].estado # "NONE"
      BY <1>1, <1>8
    <3> QED
      BY <1>8, <3>1 DEF VInv, OnlyHired
  <2> QED
    BY <2>1, <2>2, <2>3 DEF OnlyHired, Hired
<1>13. Executed'
  <2> SUFFICES ASSUME NEW u \in Transfer, transfer'[u].estado = "EXECUTED"
               PROVE  \E i \in DOMAIN ledger'[transfer'[u].empleado] :
                         /\ ledger'[transfer'[u].empleado][i].fuente = "TRANSFER_IN"
                         /\ ledger'[transfer'[u].empleado][i].id = u
    BY DEF Executed
  <2>1. CASE u = t
    <3>1. transfer'[u].empleado = e
      BY <1>1, <1>8, <2>1
    <3>2. ledger[e] \in Seq(MovementShape) /\ Len(ledger[e]) \in Nat
      BY <1>1 DEF VInv, LedgerOk
    <3> DEFINE i == Len(ledger[e]) + Len(rows)
    <3>3. i \in DOMAIN (ledger[e] \o rows) /\ (ledger[e] \o rows)[i] = rows[Len(rows)]
      BY <1>3, <3>2
    <3> QED
      BY <1>3, <1>6, <2>1, <3>1, <3>3
  <2>2. CASE u # t
    BY <1>6, <1>8, <2>2, BookedStays
  <2> QED
    BY <2>1, <2>2
<1>14. ASSUME NEW u \in Session PROVE request'[u] = request[u] \/ RequestOk(request[u])'
  <2>1. request'[u] = request[u] \/ request'[u] = IdleRequest
    BY <1>4 DEF VInv, Shapes
  <2>2. request'[u] = IdleRequest => RequestOk(request[u])'
    BY DEF IdleRequest, RequestOk, Known
  <2> QED
    BY <2>1, <2>2
<1> QED
  BY <1>4, <1>6, <1>10, <1>11, <1>12, <1>13, <1>14, FrameKeeps
----------------------------------------------------------------------------
(* The theorems *)

LEMMA VInvNext == VInv /\ [Next]_vars => VInv'
<1> SUFFICES ASSUME VInv, [Next]_vars PROVE VInv'
  OBVIOUS
<1>1. CASE Tick
  BY <1>1, TickKeeps
<1>2. ASSUME NEW v \in Runner, Provision(v) \/ RunnerDies(v) PROVE VInv'
  BY <1>2, StartRunKeeps, NextRowKeeps, ReadMonthKeeps, CommitMonthKeeps, AbortMonthKeeps,
     RunnerDiesKeeps DEF Provision
<1>3. CASE EmployeeStep
  BY <1>3, HireKeeps, ChangeJoinDateKeeps DEF EmployeeStep
<1>4. ASSUME NEW s \in Session, StaffStep(s) PROVE VInv'
  BY <1>4, LoadEmployeeKeeps, SaveEmployeeKeeps DEF StaffStep
<1>5. CASE SimulateStep
  BY <1>5, SimulateKeeps DEF SimulateStep
<1>6. ASSUME NEW s \in Session, TransferStep(s) PROVE VInv'
  BY <1>6, LoadExecuteKeeps, ResimulateKeeps, FailTransferKeeps, BeginTransferKeeps,
     CommitTransferKeeps, AbortTransferKeeps DEF TransferStep
<1>7. CASE PayrollStep
  BY <1>7, RegisterKeeps, ApproveKeeps, VerifyKeeps DEF PayrollStep
<1>8. ASSUME NEW s \in Session, ApplyStep(s) PROVE VInv'
  BY <1>8, ApplyKeeps, FindUsageKeeps, ReadUsageKeeps, CommitUsageKeeps, AbortUsageKeeps
     DEF ApplyStep, UsageStep
<1>9. CASE UNCHANGED vars
  <2>1. VInv'
    BY <1>9, ActionsMove DEF vars, VInv, Shapes, OnlyHired
  <2> QED
    BY <2>1
<1> QED
  BY <1>1, <1>2, <1>3, <1>4, <1>5, <1>6, <1>7, <1>8, <1>9 DEF Next

\* Distinct rows are what the property asks for.
LEMMA DistinctIsOnce == VInv => NoMovementTwice
  BY DEF VInv, LedgerOk, DistinctRows, NoMovementTwice

\* What is booked as one end of a transfer is booked as the other one.
LEMMA EndsMeet ==
    ASSUME VInv, NEW t \in Transfer, NEW e \in Employee, NEW x \in Ends, NEW y \in Ends, x # y,
           NEW d \in BookedDays(e, t, x)
    PROVE  -d \in BookedDays(e, t, y) /\ d \in Int
<1>1. ledger[e] \in Seq(MovementShape) /\ BalancedRows(ledger[e])
  BY DEF VInv, LedgerOk
<1>2. PICK i \in DOMAIN ledger[e] :
          ledger[e][i].fuente = x /\ ledger[e][i].id = t /\ ledger[e][i].delta = d
  BY DEF BookedDays
<1>3. PICK j \in DOMAIN ledger[e] : OtherEnd(ledger[e][i], ledger[e][j])
  BY <1>1, <1>2 DEF BalancedRows
<1>4. ledger[e][j].fuente = y /\ ledger[e][j].id = t /\ ledger[e][j].delta = -d
  BY <1>2, <1>3 DEF OtherEnd, Ends
<1>5. ledger[e][i] \in MovementShape
  BY <1>1, <1>2
<1> QED
  BY <1>2, <1>4, <1>5 DEF BookedDays, MovementShape

LEMMA BookedBalances == VInv => TransfersBalance
<1> SUFFICES ASSUME VInv, NEW t \in Transfer, NEW e \in Employee
             PROVE  /\ BookedDays(e, t, "TRANSFER_IN") = {-d : d \in BookedDays(e, t, "TRANSFER_OUT")}
                    /\ transfer[t].estado = "EXECUTED" /\ transfer[t].empleado = e
                          => BookedDays(e, t, "TRANSFER_IN") # {}
  BY DEF TransfersBalance
<1>1. ASSUME NEW d \in BookedDays(e, t, "TRANSFER_IN")
      PROVE  d \in {-x : x \in BookedDays(e, t, "TRANSFER_OUT")}
  <2>1. -d \in BookedDays(e, t, "TRANSFER_OUT") /\ d \in Int
    BY <1>1, EndsMeet DEF Ends
  <2>2. d = -(-d)
    BY <2>1
  <2> QED
    BY <2>1, <2>2
<1>2. ASSUME NEW d \in BookedDays(e, t, "TRANSFER_OUT")
      PROVE  -d \in BookedDays(e, t, "TRANSFER_IN")
  BY <1>2, EndsMeet DEF Ends
<1>3. ASSUME transfer[t].estado = "EXECUTED", transfer[t].empleado = e
      PROVE  BookedDays(e, t, "TRANSFER_IN") # {}
  BY <1>3 DEF VInv, Executed, BookedDays
<1> QED
  BY <1>1, <1>2, <1>3

\* VInv, the invariant of which the two theorems are parts.
LEMMA VInvariant == Spec => []VInv
  BY VInvInit, VInvNext, PTL DEF Spec

\* Whatever the number of runs, requests and transfers, and whatever overlaps, no month is
\* accrued twice, no vacation deducted twice and no transfer booked twice.
THEOREM MovementsBookedOnce == Spec => []NoMovementTwice
  BY VInvariant, DistinctIsOnce, PTL

\* A transfer takes as many days out of one company as it brings into the other, and one
\* that says EXECUTED brought them.
THEOREM TransfersAreBalanced == Spec => []TransfersBalance
  BY VInvariant, BookedBalances, PTL
----------------------------------------------------------------------------
(* Types and dates *)

MovementRow == [tipo : Movement, delta : Int, saldo : Int, periodo : Int, fuente : SourceType,
                id : Owners, empresa : Company]

\* A run on a day: what it has left to provision is not beyond the cutoff it read, nor
\* that beyond the day.
Timely(r, day) ==
    /\ \A x \in r.todo : x.ancla \in Nat /\ x.due \in 0..x.corte /\ x.corte <= day
    /\ r.pc \in {"due", "tx"} => r.ancla \in Nat /\ r.due \in 0..r.corte /\ r.corte <= day
    /\ r.pc = "tx" => r.snap.emp.empresa \in Company

\* The rows a request writes: whole entities and movements of a company.
Writable(r) ==
    /\ r.emp \in EmployeeRow
    /\ r.op \in {"apply", "execute"} /\ r.pc = "tx" => r.snap.emp.empresa \in Company

Accounts ==
    /\ account \in [Employee -> AccountRow]
    /\ \A e \in Employee : account[e].ultima \in 0..today \cup {Never}

Origins == \A t \in Transfer : transfer[t].estado # "NONE" => transfer[t].origen \in Company

DateInv ==
    /\ today \in Day
    /\ employee \in [Employee -> EmployeeRow]
    /\ Accounts
    /\ ledger \in [Employee -> Seq(MovementRow)]
    /\ payroll \in [Payroll -> {"ABIERTA", "VERIFICADA", "APLICADA"}]
    /\ faults \in 0..MaxFaults
    /\ Origins
    /\ \A v \in Runner : Timely(run[v], today)
    /\ \A s \in Session : Writable(request[s])

\* A step has to look after what it writes only; days go by.
LEMMA DatesKept ==
    ASSUME VInv, DateInv, today' \in Day, today <= today',
           UNCHANGED employee \/ employee' \in [Employee -> EmployeeRow],
           UNCHANGED account \/ Accounts',
           UNCHANGED ledger \/ ledger' \in [Employee -> Seq(MovementRow)],
           UNCHANGED payroll \/ payroll' \in [Payroll -> {"ABIERTA", "VERIFICADA", "APLICADA"}],
           UNCHANGED faults \/ faults' \in 0..MaxFaults,
           UNCHANGED transfer \/ Origins',
           \A v \in Runner : run'[v] = run[v] \/ Timely(run'[v], today'),
           \A s \in Session : request'[s] = request[s] \/ Writable(request'[s])
    PROVE  DateInv'
<1>0. today \in Int /\ today' \in Int
  BY VacationAssumption DEF DateInv, Day
<1>1. Accounts'
  <2>1. CASE UNCHANGED account
    BY <1>0, <2>1 DEF DateInv, Accounts
  <2> QED
    BY <2>1
<1>2. ASSUME NEW v \in Runner PROVE Timely(run'[v], today')
  <2>1. CASE run'[v] = run[v]
    <3>1. /\ run[v].todo \subseteq RowShape /\ run[v].corte \in Int
          /\ Timely(run[v], today)
      BY DEF VInv, Shapes, RunShape, DateInv
    <3>2. \A x \in run[v].todo : x.corte \in Int
      BY <3>1 DEF RowShape
    <3>3. \A c \in Int : c <= today => c <= today'
      BY <1>0
    <3> QED
      BY <2>1, <3>1, <3>2, <3>3 DEF Timely
  <2> QED
    BY <2>1
<1>3. Origins'
  BY DEF DateInv, Origins
<1> QED
  BY <1>1, <1>2, <1>3 DEF DateInv

\* A run, or a request, that takes a step on its own.
LEMMA RunDates ==
    ASSUME VInv, DateInv, NEW v \in Runner, NEW r, StepRun(v, r), Timely(r, today),
           UNCHANGED <<today, employee, account, ledger, payroll, transfer, request>>,
           UNCHANGED faults \/ faults' \in 0..MaxFaults
    PROVE  DateInv'
<1>1. today' \in Day /\ today <= today'
  BY VacationAssumption DEF DateInv, Day
<1>2. \A u \in Runner : run'[u] = run[u] \/ Timely(run'[u], today')
  BY DEF StepRun, VInv, Shapes
<1> QED
  BY <1>1, <1>2, DatesKept

LEMMA RequestDates ==
    ASSUME VInv, DateInv, NEW s \in Session, NEW r, StepRequest(s, r), Writable(r),
           UNCHANGED <<today, run, employee, account, ledger, faults>>,
           UNCHANGED payroll \/ payroll' \in [Payroll -> {"ABIERTA", "VERIFICADA", "APLICADA"}],
           UNCHANGED transfer \/ Origins'
    PROVE  DateInv'
<1>1. today' \in Day /\ today <= today'
  BY VacationAssumption DEF DateInv, Day
<1>2. \A u \in Session : request'[u] = request[u] \/ Writable(request'[u])
  BY DEF StepRequest, VInv, Shapes
<1> QED
  BY <1>1, <1>2, DatesKept

LEMMA IdleDates == (\A day : Timely(IdleRun, day)) /\ Writable(IdleRequest)
  BY VacationAssumption DEF Timely, IdleRun, Writable, IdleRequest, NoEmployeeRow, EmployeeRow

\* Row builds a movement of a company.
LEMMA RowTyped ==
    ASSUME NEW tipo \in Movement, NEW delta \in Int, NEW saldo \in Int, NEW periodo \in Int,
           NEW fuente \in SourceType, NEW id \in Owners, NEW empresa \in Company
    PROVE  Row(tipo, delta, saldo, periodo, fuente, id, empresa) \in MovementRow
  BY DEF Row, MovementRow

LEMMA BookTyped ==
    ASSUME DateInv, NEW e \in Employee, NEW rows \in Seq(MovementRow), Book(e, rows)
    PROVE  ledger' \in [Employee -> Seq(MovementRow)]
<1>1. ledger[e] \o rows \in Seq(MovementRow) /\ ledger \in [Employee -> Seq(MovementRow)]
  BY DEF DateInv
<1> QED
  BY <1>1 DEF Book

\* Who was hired is in a company.
LEMMA HiredInCompany ==
    ASSUME DateInv, NEW e \in Employee, Hired(e)
    PROVE  employee[e].empresa \in Company
  BY DEF DateInv, EmployeeRow, Hired
----------------------------------------------------------------------------
(* The provision *)

\* The next due date of a natural date.
LEMMA DueNat ==
    ASSUME NEW d \in Nat, NEW ancla \in Nat PROVE NextDue(d, ancla) \in Nat
  BY DEF NextDue, Month

LEMMA LeaveRowDates ==
    ASSUME NEW r, NEW day, Timely(r, day) PROVE Timely(LeaveRow(r), day)
<1>1. CASE r.todo = {}
  BY <1>1, IdleDates DEF LeaveRow
<1>2. CASE r.todo # {}
  BY <1>2 DEF LeaveRow, IdleRun, Timely
<1> QED
  BY <1>1, <1>2

LEMMA AdvanceDates ==
    ASSUME NEW r \in RunShape, NEW day, Timely(r, day), r.pc \in {"due", "tx"}
    PROVE  Timely(Advance(r), day)
<1>1. PICK due : due = NextDue(r.due, r.ancla)
  OBVIOUS
<1>2. due \in Nat /\ r.corte \in Int
  <2>1. r.due \in Nat /\ r.ancla \in Nat /\ r.corte \in Int
    BY DEF Timely, RunShape
  <2> QED
    BY <1>1, <2>1, DueNat
<1>3. CASE due <= r.corte
  <2>1. PICK x : x = [r EXCEPT !.pc = "due", !.due = due, !.snap = NoEmployee]
    OBVIOUS
  <2>2. Advance(r) = x
    BY <1>1, <1>3, <2>1 DEF Advance
  <2>3. x.pc = "due" /\ x.due = due /\ x.todo = r.todo /\ x.ancla = r.ancla /\ x.corte = r.corte
    BY <2>1 DEF RunShape
  <2> QED
    BY <1>2, <1>3, <2>2, <2>3 DEF Timely
<1>4. CASE ~(due <= r.corte)
  BY <1>1, <1>4, LeaveRowDates DEF Advance
<1> QED
  BY <1>3, <1>4

LEMMA StartRunDates ==
    ASSUME VInv, DateInv, NEW v \in Runner, StartRun(v) PROVE DateInv'
<1>0. today \in Nat /\ employee \in [Employee -> EmployeeRow] /\ account \in [Employee -> AccountRow]
  BY VacationAssumption DEF DateInv, Day, Accounts
<1>1. ASSUME NEW x \in DueRows(today)
      PROVE  x.ancla \in Nat /\ x.due \in 0..x.corte /\ x.corte <= today
  <2>1. PICK e \in Employee : x = Selected(e, today) /\ x.due <= x.corte
    BY <1>1 DEF DueRows
  <2>2. /\ account[e].ingreso \in Nat /\ account[e].ultima \in Nat /\ employee[e].salida \in Nat
    BY <1>0, VacationAssumption DEF AccountRow, EmployeeRow, Day, Never
  <2>3. PICK ancla \in Nat : ancla = account[e].ingreso % 2
    BY <2>2
  <2>4. PICK due \in Nat :
            due = NextDue(IF account[e].ultima = Never THEN account[e].ingreso
                          ELSE account[e].ultima, ancla)
    BY <2>2, <2>3, DueNat
  <2>5. PICK corte \in Nat : /\ corte = IF employee[e].salida < today THEN employee[e].salida
                                        ELSE today
                             /\ corte <= today
    BY <1>0, <2>2
  <2>6. x.ancla = ancla /\ x.due = due /\ x.corte = corte
    BY <2>1, <2>3, <2>4, <2>5 DEF Selected
  <2> QED
    BY <2>1, <2>5, <2>6
<1>2. PICK rows : rows = DueRows(today)
  OBVIOUS
<1>3. PICK r : r = [IdleRun EXCEPT !.pc = "rows", !.hoy = today, !.todo = rows]
  OBVIOUS
<1>4. r.pc = "rows" /\ r.todo = rows
  BY <1>3 DEF IdleRun
<1>5. Timely(r, today)
  BY <1>1, <1>2, <1>4 DEF Timely
<1> QED
  BY <1>2, <1>3, <1>5, RunDates DEF StartRun, KeepOthers

LEMMA NextRowDates ==
    ASSUME VInv, DateInv, NEW v \in Runner, NextRow(v) PROVE DateInv'
<1>1. run[v] \in RunShape /\ Timely(run[v], today)
  BY DEF VInv, Shapes, DateInv
<1>2. PICK x \in run[v].todo :
          StepRun(v, [run[v] EXCEPT !.pc = "due", !.todo = @ \ {x}, !.e = x.e, !.ancla = x.ancla,
                                    !.due = x.due, !.corte = x.corte])
  BY DEF NextRow
<1>3. PICK r : r = [run[v] EXCEPT !.pc = "due", !.todo = @ \ {x}, !.e = x.e, !.ancla = x.ancla,
                                  !.due = x.due, !.corte = x.corte]
  OBVIOUS
<1>4. /\ r.pc = "due" /\ r.todo \subseteq run[v].todo /\ r.ancla = x.ancla
      /\ r.due = x.due /\ r.corte = x.corte
  BY <1>1, <1>3 DEF RunShape
<1>5. Timely(r, today)
  BY <1>1, <1>4 DEF Timely
<1> QED
  BY <1>2, <1>3, <1>5, RunDates DEF NextRow, KeepOthers

LEMMA ReadMonthDates ==
    ASSUME VInv, DateInv, NEW v \in Runner, ReadMonth(v) PROVE DateInv'
<1>1. /\ run[v] \in RunShape /\ run[v].e \in Employee /\ Hired(run[v].e)
      /\ Timely(run[v], today) /\ run[v].pc = "due"
  BY DEF VInv, Shapes, Processes, RunOk, ReadMonth, DateInv
<1>2. CASE Provisioned(run[v].e)
  <2>1. PICK snap : snap = Snapshot(run[v].e)
    OBVIOUS
  <2>2. snap.emp.empresa \in Company
    BY <1>1, <2>1, HiredInCompany DEF Snapshot
  <2>3. PICK r : r = [run[v] EXCEPT !.pc = "tx", !.snap = snap]
    OBVIOUS
  <2>4. /\ r.pc = "tx" /\ r.snap = snap /\ r.todo = run[v].todo /\ r.ancla = run[v].ancla
        /\ r.due = run[v].due /\ r.corte = run[v].corte
    BY <1>1, <2>3 DEF RunShape
  <2>5. Timely(r, today)
    BY <1>1, <2>2, <2>4 DEF Timely
  <2> QED
    BY <1>2, <2>1, <2>3, <2>5, RunDates DEF ReadMonth, KeepOthers
<1>3. CASE ~Provisioned(run[v].e)
  <2>1. StepRun(v, Advance(run[v])) /\ Timely(Advance(run[v]), today)
    BY <1>1, <1>3, AdvanceDates DEF ReadMonth
  <2> QED
    BY <2>1, RunDates DEF ReadMonth, KeepOthers
<1> QED
  BY <1>2, <1>3

\* A month is only provisioned when it is due.
LEMMA CommitMonthDates ==
    ASSUME VInv, DateInv, NEW v \in Runner, CommitMonth(v) PROVE DateInv'
<1>1. PICK r : r = run[v]
  OBVIOUS
<1>2. /\ r \in RunShape /\ r.pc = "tx" /\ r.e \in Employee /\ Read(r.snap, r.e)
      /\ Timely(r, today)
  BY <1>1 DEF VInv, Shapes, Processes, RunOk, CommitMonth, DateInv
<1>3. r.snap.emp.empresa \in Company /\ r.due \in 0..today
  <2>1. today \in Int /\ r.corte \in Int
    BY <1>2, VacationAssumption DEF DateInv, Day, RunShape
  <2> QED
    BY <1>2, <2>1 DEF Timely
<1>4. MonthRows(r) \in Seq(MovementRow)
  <2>1. PICK saldo \in Int : saldo = LastBalance(r.e, r.snap) + 1
    BY <1>2, BalanceInt
  <2>2. PICK periodo \in Int : periodo = Month(r.due)
    BY <1>2, MonthInt DEF RunShape
  <2>3. Accrual(r) \in MovementRow
    BY <1>3, <2>1, <2>2, RowTyped DEF Accrual, Movement, SourceType, Owners
  <2> QED
    BY <2>3 DEF MonthRows
<1>5. ledger' \in [Employee -> Seq(MovementRow)]
  BY <1>1, <1>2, <1>4, BookTyped DEF CommitMonth
<1>6. account' = [account EXCEPT ![r.e].ultima = LastProvision(r)] /\ today' = today
  BY <1>1 DEF CommitMonth, KeepOthers
<1>7. Accounts'
  <2>0. today \in Int /\ today <= LastDay
    BY VacationAssumption DEF DateInv, Day
  <2>1. LastProvision(r) \in 0..today \cup {Never}
    BY <1>2, <1>3 DEF LastProvision, DateInv, Accounts
  <2>2. PICK last \in 0..today \cup {Never} : last = LastProvision(r)
    BY <2>1
  <2>3. last \in Day \cup {Never}
    BY <2>0, <2>2, VacationAssumption DEF Day
  <2>4. account' = [account EXCEPT ![r.e].ultima = last]
    BY <1>6, <2>2
  <2>5. account' \in [Employee -> AccountRow]
    <3>1. [account[r.e] EXCEPT !.ultima = last] \in AccountRow
      BY <1>2, <2>3 DEF DateInv, Accounts, AccountRow
    <3>2. account' = [account EXCEPT ![r.e] = [account[r.e] EXCEPT !.ultima = last]]
      BY <2>4
    <3> QED
      BY <1>2, <3>1, <3>2 DEF DateInv, Accounts
  <2>6. \A e \in Employee : account'[e].ultima = IF e = r.e THEN last ELSE account[e].ultima
    BY <2>4 DEF DateInv, Accounts, AccountRow
  <2> QED
    BY <1>6, <2>5, <2>6 DEF DateInv, Accounts
<1>8. StepRun(v, Advance(r)) /\ Timely(Advance(r), today)
  BY <1>1, <1>2, AdvanceDates DEF CommitMonth
<1>9. \A u \in Runner : run'[u] = run[u] \/ Timely(run'[u], today')
  BY <1>6, <1>8 DEF StepRun, VInv, Shapes
<1>10. today' \in Day /\ today <= today'
  BY <1>6, VacationAssumption DEF DateInv, Day
<1> QED
  BY <1>5, <1>7, <1>9, <1>10, DatesKept DEF CommitMonth, KeepOthers

LEMMA ProvisionDates ==
    ASSUME VInv, DateInv, NEW v \in Runner, Provision(v) \/ RunnerDies(v) PROVE DateInv'
<1>1. CASE AbortMonth(v)
  <2>1. Timely(LeaveRow(run[v]), today)
    BY LeaveRowDates DEF DateInv
  <2> QED
    BY <1>1, <2>1, RunDates DEF AbortMonth, KeepOthers
<1>2. CASE RunnerDies(v)
  <2>1. faults' \in 0..MaxFaults
    BY <1>2, VacationAssumption DEF RunnerDies, DateInv
  <2>2. Timely(IdleRun, today)
    BY IdleDates
  <2> QED
    BY <1>2, <2>1, <2>2, RunDates DEF RunnerDies, KeepOthers
<1> QED
  BY <1>1, <1>2, StartRunDates, NextRowDates, ReadMonthDates, CommitMonthDates DEF Provision
----------------------------------------------------------------------------
(* The employees *)

LEMMA HireDates ==
    ASSUME VInv, DateInv, NEW e \in Employee, NEW c \in Company, NEW d \in 0..LastHire,
           Hire(e, c, d)
    PROVE  DateInv'
<1> USE VacationAssumption
<1>1. d \in Day /\ InitialDays \in Int
  BY DEF Day
<1>2. ledger' \in [Employee -> Seq(MovementRow)]
  <2>1. PICK x : x = Row("INITIAL", InitialDays, InitialDays, NoPeriod, "EMPLOYEE_CREATE", e, c)
    OBVIOUS
  <2>2. x \in MovementRow
    BY <1>1, <2>1, RowTyped DEF Movement, SourceType, Owners, NoPeriod
  <2>3. <<x>> \in Seq(MovementRow)
    BY <2>2
  <2> QED
    BY <2>1, <2>3, BookTyped DEF Hire
<1>3. employee' \in [Employee -> EmployeeRow]
  BY DEF Hire, DateInv, EmployeeRow
<1>4. PICK row : row = [existe |-> TRUE, activa |-> TRUE, empresa |-> c, ingreso |-> d, ultima |-> Never]
  OBVIOUS
<1>5. account' = [account EXCEPT ![e] = row] /\ today' = today
  BY <1>4 DEF Hire, KeepRest
<1>6. row \in AccountRow /\ row.ultima = Never
  BY <1>1, <1>4 DEF AccountRow
<1>7. Accounts'
  BY <1>5, <1>6 DEF Accounts, DateInv
<1>8. today' \in Day /\ today <= today'
  BY <1>5 DEF DateInv, Day
<1> QED
  BY <1>2, <1>3, <1>7, <1>8, DatesKept DEF Hire, KeepRest

LEMMA ChangeJoinDateDates ==
    ASSUME VInv, DateInv, NEW e \in Employee, NEW d \in 0..LastHire, ChangeJoinDate(e, d)
    PROVE  DateInv'
<1> USE VacationAssumption
<1>1. d \in Day
  BY DEF Day
<1>2. PICK row : row = IF account[e].existe THEN [account[e] EXCEPT !.ingreso = d]
                       ELSE [existe |-> TRUE, activa |-> employee[e].activo,
                             empresa |-> employee[e].empresa, ingreso |-> d,
                             ultima |-> Never]
  OBVIOUS
<1>3. account' = [account EXCEPT ![e] = row] /\ today' = today
  BY <1>2 DEF ChangeJoinDate, KeepRest
<1>4. account[e] \in AccountRow /\ employee[e] \in EmployeeRow
  BY DEF DateInv, Accounts
<1>5. row \in AccountRow /\ (row.ultima = Never \/ row.ultima = account[e].ultima)
  <2>1. CASE account[e].existe
    BY <1>1, <1>2, <1>4, <2>1 DEF AccountRow
  <2>2. CASE ~account[e].existe
    <3>1. employee[e].empresa \in Company \cup {NoCompany} /\ employee[e].activo \in BOOLEAN
      BY <1>4 DEF EmployeeRow
    <3> QED
      BY <1>1, <1>2, <2>2, <3>1 DEF AccountRow
  <2> QED
    BY <2>1, <2>2
<1>6. Accounts'
  BY <1>3, <1>5 DEF Accounts, DateInv
<1>7. today' \in Day /\ today <= today'
  BY <1>3 DEF DateInv, Day
<1> QED
  BY <1>6, <1>7, DatesKept DEF ChangeJoinDate, KeepRest

LEMMA StaffDates ==
    ASSUME VInv, DateInv, NEW s \in Session, StaffStep(s) PROVE DateInv'
<1>1. ASSUME NEW e \in Employee, NEW op \in {"inactivate", "reactivate", "liquidate"},
             LoadEmployee(s, e, op)
      PROVE  DateInv'
  <2>1. PICK emp : emp = [employee[e] EXCEPT !.activo = (op = "reactivate"),
                              !.salida = IF op = "liquidate" THEN today ELSE @]
    OBVIOUS
  <2>2. emp \in EmployeeRow
    BY <2>1 DEF DateInv, EmployeeRow
  <2>3. PICK r : r = [IdleRequest EXCEPT !.op = op, !.pc = "loaded", !.e = e, !.emp = emp]
    OBVIOUS
  <2>4. r.op = op /\ r.emp = emp
    BY <2>3 DEF IdleRequest
  <2>5. Writable(r)
    BY <2>2, <2>4 DEF Writable
  <2> QED
    BY <1>1, <2>1, <2>3, <2>5, RequestDates DEF LoadEmployee, KeepRest
<1>2. CASE SaveEmployee(s)
  <2>1. request[s].emp \in EmployeeRow
    BY DEF DateInv, Writable
  <2>2. employee' \in [Employee -> EmployeeRow]
    BY <1>2, <2>1 DEF SaveEmployee, DateInv
  <2>3. \A u \in Session : request'[u] = request[u] \/ Writable(request'[u])
    BY <1>2, IdleDates DEF SaveEmployee, StepRequest, VInv, Shapes
  <2>4. today' \in Day /\ today <= today'
    BY <1>2, VacationAssumption DEF SaveEmployee, KeepRest, DateInv, Day
  <2> QED
    BY <1>2, <2>2, <2>3, <2>4, DatesKept DEF SaveEmployee, KeepRest
<1> QED
  BY <1>1, <1>2 DEF StaffStep
----------------------------------------------------------------------------
(* The payrolls and the deductions *)

LEMMA PayrollDates ==
    ASSUME VInv, DateInv, Tick \/ PayrollStep PROVE DateInv'
<1>1. today' \in Day /\ today <= today'
  BY VacationAssumption
  DEF Tick, PayrollStep, Register, Approve, Verify, Quiet, DateInv, Day
<1>2. UNCHANGED payroll \/ payroll' \in [Payroll -> {"ABIERTA", "VERIFICADA", "APLICADA"}]
  BY DEF Tick, PayrollStep, Register, Approve, Verify, DateInv, tables
<1>3. UNCHANGED <<employee, account, ledger, faults, transfer, run, request>>
  BY DEF Tick, PayrollStep, Register, Approve, Verify, Quiet, tables
<1> QED
  BY <1>1, <1>2, <1>3, DatesKept

LEMMA ApplyDates ==
    ASSUME VInv, DateInv, NEW s \in Session, NEW n \in Payroll, NEW selected, Apply(s, n, selected)
    PROVE  DateInv'
<1>1. PICK r : r = [IdleRequest EXCEPT !.op = "apply", !.pc = "usage", !.n = n]
  OBVIOUS
<1>2. r.pc = "usage" /\ r.emp = IdleRequest.emp
  BY <1>1 DEF IdleRequest
<1>3. Writable(r)
  BY <1>2, IdleDates DEF Writable
<1>4. payroll' \in [Payroll -> {"ABIERTA", "VERIFICADA", "APLICADA"}]
  BY DEF Apply, DateInv
<1> QED
  BY <1>1, <1>3, <1>4, RequestDates DEF Apply, Quiet

LEMMA UsageDates ==
    ASSUME VInv, DateInv, NEW s \in Session, UsageStep(s) PROVE DateInv'
<1>0. PICK r : r = request[s]
  OBVIOUS
<1>1. r \in RequestShape /\ RequestOk(r) /\ Writable(r)
  BY <1>0 DEF VInv, Shapes, Processes, DateInv
<1>2. CASE FindUsage(s)
  <2>1. PICK x : x = [r EXCEPT !.pc = "next", !.acts = Deductible(r.n)]
    OBVIOUS
  <2>2. x.pc = "next" /\ x.emp = r.emp
    BY <1>1, <2>1 DEF RequestShape
  <2>3. Writable(x)
    BY <1>1, <2>2 DEF Writable
  <2>4. StepRequest(s, IdleRequest) \/ StepRequest(s, x)
    BY <1>0, <1>2, <2>1 DEF FindUsage
  <2> QED
    BY <1>2, <2>3, <2>4, IdleDates, RequestDates DEF FindUsage, KeepAccounts
<1>3. CASE ReadUsage(s)
  <2>1. PICK a \in r.acts :
            StepRequest(s, [r EXCEPT !.pc = "tx", !.acts = @ \ {a}, !.a = a,
                                     !.snap = Snapshot(action[a].empleado)])
    BY <1>0, <1>3 DEF ReadUsage
  <2>2. action[a].empleado \in Employee /\ Hired(action[a].empleado)
    <3>1. a \in Action /\ action[a].estado # "NONE"
      BY <1>0, <1>1, <1>3 DEF RequestOk, Known, ReadUsage, At, RequestShape
    <3> QED
      BY <3>1 DEF VInv, OnlyHired
  <2>3. PICK snap : snap = Snapshot(action[a].empleado)
    OBVIOUS
  <2>4. snap.emp.empresa \in Company
    BY <2>2, <2>3, HiredInCompany DEF Snapshot
  <2>5. PICK x : x = [r EXCEPT !.pc = "tx", !.acts = @ \ {a}, !.a = a, !.snap = snap]
    OBVIOUS
  <2>6. x.pc = "tx" /\ x.emp = r.emp /\ x.snap = snap
    BY <1>1, <2>5 DEF RequestShape
  <2>7. Writable(x)
    BY <1>1, <2>4, <2>6 DEF Writable
  <2> QED
    BY <1>3, <2>1, <2>3, <2>5, <2>7, RequestDates DEF ReadUsage, KeepAccounts
<1>4. CASE CommitUsage(s)
  <2>1. PICK e : e = action[r.a].empleado
    OBVIOUS
  <2>2. /\ r.a \in Action /\ e \in Employee /\ Read(r.snap, e) /\ r.snap.emp.empresa \in Company
    BY <1>0, <1>1, <1>4, <2>1 DEF RequestOk, VInv, OnlyHired, CommitUsage, At, Writable
  <2>3. PICK saldo \in Int : saldo = LastBalance(e, r.snap) - 1
    BY <2>2, BalanceInt
  <2>4. Usage(r) \in MovementRow
    BY <2>1, <2>2, <2>3, RowTyped DEF Usage, Movement, SourceType, Owners, NoPeriod
  <2>5. UsageRows(r) \in Seq(MovementRow)
    BY <2>4 DEF UsageRows
  <2>6. ledger' \in [Employee -> Seq(MovementRow)]
    BY <1>0, <1>4, <2>1, <2>2, <2>5, BookTyped DEF CommitUsage
  <2>7. PICK x : x = [r EXCEPT !.pc = "next", !.a = NoAction, !.snap = NoEmployee]
    OBVIOUS
  <2>8. x.pc = "next" /\ x.emp = r.emp
    BY <1>1, <2>7 DEF RequestShape
  <2>9. Writable(x)
    BY <1>1, <2>8 DEF Writable
  <2>10. StepRequest(s, IdleRequest) \/ StepRequest(s, x)
    BY <1>0, <1>4, <2>7 DEF CommitUsage
  <2>11. \A u \in Session : request'[u] = request[u] \/ Writable(request'[u])
    BY <2>9, <2>10, IdleDates DEF StepRequest, VInv, Shapes
  <2>12. today' \in Day /\ today <= today'
    BY <1>4, VacationAssumption DEF CommitUsage, KeepAccounts, DateInv, Day
  <2> QED
    BY <1>4, <2>6, <2>11, <2>12, DatesKept DEF CommitUsage, KeepAccounts
<1>5. CASE AbortUsage(s)
  BY <1>5, IdleDates, RequestDates DEF AbortUsage, KeepAccounts
<1> QED
  BY <1>2, <1>3, <1>4, <1>5 DEF UsageStep
----------------------------------------------------------------------------
(* The transfers *)

LEMMA SimulateDates ==
    ASSUME VInv, DateInv, SimulateStep PROVE DateInv'
<1>1. PICK t \in Transfer, e \in Employee, c \in Company : Simulate(t, e, c)
  BY DEF SimulateStep
<1>2. employee[e].empresa \in Company
  BY <1>1, HiredInCompany DEF Simulate
<1>3. Origins'
  BY <1>1, <1>2 DEF Simulate, Origins, DateInv, VInv, Shapes
<1>4. today' \in Day /\ today <= today'
  BY <1>1, VacationAssumption DEF Simulate, KeepMoved, DateInv, Day
<1> QED
  BY <1>1, <1>3, <1>4, DatesKept DEF Simulate, KeepMoved

LEMMA PlanDates ==
    ASSUME VInv, DateInv, NEW s \in Session,
           \/ \E t \in Transfer : LoadExecute(s, t)
           \/ Resimulate(s) \/ BeginTransfer(s) \/ AbortTransfer(s)
    PROVE  DateInv'
<1>0. PICK r : r = request[s]
  OBVIOUS
<1>1. r \in RequestShape /\ RequestOk(r) /\ Writable(r)
  BY <1>0 DEF VInv, Shapes, Processes, DateInv
<1>2. ASSUME NEW t \in Transfer, LoadExecute(s, t) PROVE DateInv'
  <2>1. PICK x : x = [IdleRequest EXCEPT !.op = "execute", !.pc = "loaded", !.t = t]
    OBVIOUS
  <2>2. x.pc = "loaded" /\ x.emp = IdleRequest.emp
    BY <2>1 DEF IdleRequest
  <2>3. Writable(x)
    BY <2>2, IdleDates DEF Writable
  <2> QED
    BY <1>2, <2>1, <2>3, RequestDates DEF LoadExecute, KeepMoved, tables
<1>3. CASE Resimulate(s)
  <2>1. PICK e, acts : /\ e = transfer[r.t].empleado /\ acts = Movable(e)
    OBVIOUS
  <2>2. PICK x : x = [r EXCEPT !.pc = "planned", !.e = e, !.acts = acts]
    OBVIOUS
  <2>3. PICK y : y = [r EXCEPT !.pc = "refused"]
    OBVIOUS
  <2>4. x.pc = "planned" /\ x.emp = r.emp /\ y.pc = "refused" /\ y.emp = r.emp
    BY <1>1, <2>2, <2>3 DEF RequestShape
  <2>5. Writable(x) /\ Writable(y)
    BY <1>1, <2>4 DEF Writable
  <2>6. StepRequest(s, x) \/ StepRequest(s, y)
    BY <1>0, <1>3, <2>1, <2>2, <2>3 DEF Resimulate
  <2> QED
    BY <1>3, <2>5, <2>6, RequestDates DEF Resimulate, KeepMoved, tables
<1>4. CASE BeginTransfer(s)
  <2>1. CASE employee[r.e].empresa = transfer[r.t].origen
    <3>1. transfer[r.t].origen \in Company
      BY <1>0, <1>1, <1>4 DEF RequestOk, BeginTransfer, At, DateInv, Origins
    <3>2. PICK snap : snap = Snapshot(r.e)
      OBVIOUS
    <3>3. snap.emp.empresa \in Company
      BY <2>1, <3>1, <3>2 DEF Snapshot
    <3>4. PICK x : x = [r EXCEPT !.pc = "tx", !.snap = snap]
      OBVIOUS
    <3>5. x.pc = "tx" /\ x.snap = snap /\ x.emp = r.emp
      BY <1>1, <3>4 DEF RequestShape
    <3>6. Writable(x)
      BY <1>1, <3>3, <3>5 DEF Writable
    <3>7. StepRequest(s, x)
      BY <1>0, <1>4, <2>1, <3>2, <3>4 DEF BeginTransfer
    <3> QED
      BY <1>4, <3>6, <3>7, RequestDates DEF BeginTransfer, KeepMoved, tables
  <2>2. CASE employee[r.e].empresa # transfer[r.t].origen
    BY <1>0, <1>4, <2>2, IdleDates, RequestDates DEF BeginTransfer, KeepMoved, tables
  <2> QED
    BY <2>1, <2>2
<1>5. CASE AbortTransfer(s)
  BY <1>5, IdleDates, RequestDates DEF AbortTransfer, KeepMoved, tables
<1> QED
  BY <1>2, <1>3, <1>4, <1>5

LEMMA FailTransferDates ==
    ASSUME VInv, DateInv, NEW s \in Session, FailTransfer(s) PROVE DateInv'
<1>1. request[s].t \in Transfer /\ transfer[request[s].t].estado # "NONE"
  BY DEF VInv, Processes, RequestOk, FailTransfer, At
<1>2. PICK t \in Transfer : t = request[s].t
  BY <1>1
<1>3. transfer' = [transfer EXCEPT ![t].estado = "FAILED"]
  BY <1>2 DEF FailTransfer
<1>4. \A u \in Transfer : /\ transfer'[u].origen = transfer[u].origen
                          /\ u # t => transfer'[u].estado = transfer[u].estado
  BY <1>3 DEF VInv, Shapes, TransferRow
<1>5. Origins'
  BY <1>1, <1>2, <1>4 DEF Origins, DateInv
<1> QED
  BY <1>5, IdleDates, RequestDates DEF FailTransfer, KeepMoved

LEMMA CommitTransferDates ==
    ASSUME VInv, DateInv, NEW s \in Session, CommitTransfer(s) PROVE DateInv'
<1>1. PICK r : r = request[s]
  OBVIOUS
<1>2. PICK t, e, c : t = r.t /\ e = r.e /\ c = transfer[r.t].destino
  OBVIOUS
<1>3. /\ t \in Transfer /\ transfer[t].estado # "NONE" /\ e \in Employee /\ c \in Company
      /\ Read(r.snap, e) /\ r.snap.emp.empresa \in Company /\ transfer[t].origen \in Company
  BY <1>1, <1>2 DEF VInv, Shapes, Processes, RequestOk, OnlyHired, CommitTransfer, At, DateInv,
                    Writable, Origins
<1>4. Booking(r) \in Seq(MovementRow)
  <2>1. PICK days \in Int : days = LastBalance(e, r.snap)
    BY <1>3, BalanceInt
  <2>2. PICK out \in MovementRow :
            out = Row("ADJUSTMENT", -days, 0, NoPeriod, "TRANSFER_OUT", t, transfer[t].origen)
    BY <1>3, <2>1, RowTyped DEF Movement, SourceType, Owners, NoPeriod
  <2>3. PICK into \in MovementRow :
            into = Row("ADJUSTMENT", days, days, NoPeriod, "TRANSFER_IN", t, c)
    BY <1>3, <2>1, RowTyped DEF Movement, SourceType, Owners, NoPeriod
  <2>4. PICK opening \in MovementRow :
            opening = Row("INITIAL", 0, days, NoPeriod, "EMPLOYEE_CREATE", e, r.snap.emp.empresa)
    BY <1>3, <2>1, RowTyped DEF Movement, SourceType, Owners, NoPeriod
  <2>5. Opening(e, r.snap) \in Seq(MovementRow)
    BY <2>1, <2>4 DEF Opening
  <2>6. TransferRows(e, t, r.snap) = <<out, into>>
    BY <1>2, <2>1, <2>2, <2>3 DEF TransferRows
  <2> QED
    BY <1>2, <2>5, <2>6 DEF Booking
<1>5. /\ Book(e, Booking(r)) /\ today' = today
      /\ account' = [account EXCEPT ![e].existe = TRUE, ![e].activa = Opened(r),
                                   ![e].empresa = c]
      /\ employee' = [employee EXCEPT ![e].empresa = c]
      /\ transfer' = [transfer EXCEPT ![t].estado = "EXECUTED"]
      /\ StepRequest(s, IdleRequest)
      /\ UNCHANGED <<payroll, faults, run>>
  BY <1>1, <1>2 DEF CommitTransfer, KeepMoved
<1>12. Opened(r) \in BOOLEAN
  BY <1>1, <1>2, <1>3 DEF Opened, DateInv, Accounts, AccountRow, Read, SnapshotShape, EmployeeShape
<1>6. ledger' \in [Employee -> Seq(MovementRow)]
  BY <1>3, <1>4, <1>5, BookTyped
<1>7. employee' \in [Employee -> EmployeeRow]
  <2>1. [employee[e] EXCEPT !.empresa = c] \in EmployeeRow
    BY <1>3 DEF DateInv, EmployeeRow
  <2>2. employee' = [employee EXCEPT ![e] = [employee[e] EXCEPT !.empresa = c]]
    BY <1>5
  <2> QED
    BY <2>1, <2>2 DEF DateInv
<1>8. Accounts'
  <2>1. PICK row : row = [account[e] EXCEPT !.existe = TRUE, !.activa = Opened(r), !.empresa = c]
    OBVIOUS
  <2>2. account[e] \in AccountRow
    BY <1>3 DEF DateInv, Accounts
  <2>3. row \in AccountRow /\ row.ultima = account[e].ultima
    BY <1>3, <1>12, <2>1, <2>2 DEF AccountRow
  <2>4. account' = [account EXCEPT ![e] = row]
    BY <1>3, <1>5, <2>1 DEF DateInv, Accounts
  <2> QED
    BY <1>3, <1>5, <2>3, <2>4 DEF DateInv, Accounts
<1>9. Origins'
  <2>1. \A u \in Transfer : /\ transfer'[u].origen = transfer[u].origen
                            /\ u # t => transfer'[u].estado = transfer[u].estado
    BY <1>5 DEF VInv, Shapes, TransferRow
  <2> QED
    BY <1>3, <2>1 DEF Origins, DateInv
<1>10. \A u \in Session : request'[u] = request[u] \/ Writable(request'[u])
  BY <1>5, IdleDates DEF StepRequest, VInv, Shapes
<1>11. today' \in Day /\ today <= today'
  BY <1>5, VacationAssumption DEF DateInv, Day
<1> QED
  BY <1>5, <1>6, <1>7, <1>8, <1>9, <1>10, <1>11, DatesKept
----------------------------------------------------------------------------
LEMMA DateInit == Init => DateInv
<1> SUFFICES ASSUME Init PROVE DateInv
  OBVIOUS
<1> USE VacationAssumption
<1>1. employee \in [Employee -> EmployeeRow]
  <2>1. PICK legacy \in SUBSET Employee, c \in Company :
           \E actives, migrated \in SUBSET legacy : Migrated(legacy, actives, migrated, c)
    BY DEF Init
  <2>10. PICK actives, migrated \in SUBSET legacy : Migrated(legacy, actives, migrated, c)
    BY <2>1
  <2>2. NoEmployeeRow \in EmployeeRow
    BY DEF NoEmployeeRow, EmployeeRow
  <2>3. \A b \in BOOLEAN : [NoEmployeeRow EXCEPT !.activo = b, !.empresa = c] \in EmployeeRow
    BY <2>2 DEF EmployeeRow
  <2>4. ASSUME NEW e \in Employee PROVE employee[e] \in EmployeeRow
    <3>0. (e \in actives) \in BOOLEAN
      OBVIOUS
    <3>1. PICK b \in BOOLEAN : b = (e \in actives)
      BY <3>0, Zenon
    <3>2. employee[e] = IF e \notin legacy THEN NoEmployeeRow
                        ELSE [NoEmployeeRow EXCEPT !.activo = b, !.empresa = c]
      BY <2>10, <3>1, Zenon DEF Migrated
    <3> QED
      BY <2>2, <2>3, <3>2
  <2> QED
    BY <2>10, <2>4 DEF Migrated
<1>2. Accounts
  <2>1. PICK legacy \in SUBSET Employee, c \in Company :
           \E actives, migrated \in SUBSET legacy : Migrated(legacy, actives, migrated, c)
    BY DEF Init
  <2>10. PICK actives, migrated \in SUBSET legacy : Migrated(legacy, actives, migrated, c)
    BY <2>1
  <2>2. NoAccountRow \in AccountRow /\ NoAccountRow.ultima = Never
    BY DEF NoAccountRow, AccountRow, Day
  <2>3. \A b \in BOOLEAN :
           LET row == [NoAccountRow EXCEPT !.existe = TRUE, !.activa = b, !.empresa = c] IN
           row \in AccountRow /\ row.ultima = Never
    BY <2>2 DEF AccountRow
  <2>4. ASSUME NEW e \in Employee PROVE account[e] \in AccountRow /\ account[e].ultima = Never
    <3>0. (e \in actives) \in BOOLEAN
      OBVIOUS
    <3>1. PICK b \in BOOLEAN : b = (e \in actives)
      BY <3>0, Zenon
    <3>2. account[e] = IF e \notin migrated THEN NoAccountRow
                       ELSE [NoAccountRow EXCEPT !.existe = TRUE, !.activa = b, !.empresa = c]
      BY <2>10, <3>1, Zenon DEF Migrated
    <3> QED
      BY <2>2, <2>3, <3>2
  <2>5. account \in [Employee -> AccountRow]
    BY <2>10, <2>4 DEF Migrated
  <2> QED
    BY <2>4, <2>5 DEF Accounts
<1>3. ledger \in [Employee -> Seq(MovementRow)]
  <2>1. ledger = [e \in Employee |-> <<>>] /\ <<>> \in Seq(MovementRow)
    BY DEF Init
  <2> QED
    BY <2>1
<1>4. payroll \in [Payroll -> {"ABIERTA", "VERIFICADA", "APLICADA"}]
  BY DEF Init
<1>5. today \in Day /\ faults \in 0..MaxFaults /\ Origins
  BY DEF Init, Day, Origins
<1> QED
  BY <1>1, <1>2, <1>3, <1>4, <1>5, IdleDates DEF Init, DateInv

LEMMA DateNext == VInv /\ DateInv /\ [Next]_vars => DateInv'
<1> SUFFICES ASSUME VInv, DateInv, [Next]_vars PROVE DateInv'
  OBVIOUS
<1>1. CASE Tick \/ ("payrolls" \in mix /\ PayrollStep)
  BY <1>1, PayrollDates
<1>2. ASSUME NEW v \in Runner, Provision(v) \/ RunnerDies(v) PROVE DateInv'
  BY <1>2, ProvisionDates
<1>3. CASE EmployeeStep
  BY <1>3, HireDates, ChangeJoinDateDates DEF EmployeeStep
<1>4. ASSUME NEW s \in Session, StaffStep(s) PROVE DateInv'
  BY <1>4, StaffDates
<1>5. CASE SimulateStep
  BY <1>5, SimulateDates
<1>6. ASSUME NEW s \in Session, TransferStep(s) PROVE DateInv'
  BY <1>6, PlanDates, FailTransferDates, CommitTransferDates DEF TransferStep
<1>7. ASSUME NEW s \in Session, ApplyStep(s) PROVE DateInv'
  BY <1>7, ApplyDates, UsageDates DEF ApplyStep
<1>8. CASE UNCHANGED vars
  BY <1>8, DatesKept, VacationAssumption DEF vars, DateInv, Day
<1> QED
  BY <1>1, <1>2, <1>3, <1>4, <1>5, <1>6, <1>7, <1>8 DEF Next

\* Employees, accounts, movements, actions, payrolls and transfers are well typed; in
\* particular no account is provisioned ahead of the calendar, though a run goes on with
\* the anchor, the cutoff and the date it read at its start (runDailyProvision), and every
\* movement is one of a company, whatever stale snapshot it was computed from.
THEOREM VacationsTyped == Spec => []TypeOK
<1>1. ASSUME VInv, DateInv PROVE TypeOK
  <2>1. \A e \in Employee : ledger[e] \in Seq([tipo : Movement, delta : Int, saldo : Int,
            periodo : Int, fuente : SourceType,
            id : Employee \cup Action \cup Transfer \cup {NoEmployee}, empresa : Company])
    BY <1>1 DEF DateInv, MovementRow, Owners
  <2> QED
    BY <1>1, <2>1 DEF TypeOK, VInv, Shapes, DateInv, Accounts
<1>2. Spec => []DateInv
  BY VInvariant, DateInit, DateNext, PTL DEF Spec
<1> QED
  BY <1>1, <1>2, VInvariant, PTL
=============================================================================
