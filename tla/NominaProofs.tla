---------------------------- MODULE NominaProofs ----------------------------
(***************************************************************************)
(* Proofs about Nomina, for any number of payrolls, actions, employees and *)
(* requests in flight: types, how a payroll is applied, and how the unique *)
(* index guards the slots while requests race.                             *)
(***************************************************************************)
EXTENDS MCRaces, FiniteSetTheorems, TLAPS

\* The requests that carry a payroll, those that create or approve an action,
\* and (SavedActionOps) those that carry an action.
PayrollOps == SavedByEntity \cup {"process", "apply", "inactivate", "reactivate"}

TargetOps == {"register", "bulk", "approve"}

Busy == {"loaded", "ready"}

\* Only apply may hold a payroll that it will turn into APLICADA.
Unapplied(row) == row \in PayrollRow /\ row.estado # "APLICADA"

\* What a request in flight holds at each of its steps.
WellFormed(r) ==
    /\ r.op = "create" /\ r.pc = "new" => Unapplied(r.ent)
    /\ r.op \in PayrollOps /\ r.pc \in Busy => r.p \in Payroll /\ r.ent \in PayrollRow
    /\ r.op \in PayrollOps \ {"apply"} /\ r.pc \in Busy => Unapplied(r.ent)
    /\ r.op \in PayrollOps \ {"apply"} /\ r.pc = "ready" => r.db \in PayrollRow
    /\ r.op \in TargetOps /\ r.pc \in Busy => r.p \in Payroll /\ r.a \in Action
    /\ r.op \in SavedActionOps /\ r.pc \in Busy => r.a \in Action /\ r.ent \in ActionRow
    /\ r.op \in SavedActionOps /\ r.pc = "ready" => r.db \in ActionRow
    /\ r.pc \in {"orphans", "link", "mark"} => r.p \in Payroll
    /\ r.pc \in {"mark", "flag"} => r.a \in Action

TablesOK ==
    /\ payroll \in [Payroll -> PayrollRow]
    /\ action \in [Action -> ActionRow]
    /\ selection \in [Payroll -> [Employee -> Mark]]
    /\ inputs \in [Payroll -> SUBSET Action]
    /\ results \in [Payroll -> SUBSET Employee]
    /\ aguinaldo \subseteq Payroll \X Employee
    /\ orphans \subseteq Payroll \X Action

RequestsOK ==
    /\ request \in [Processes -> RequestRow]
    /\ \A s \in Processes : WellFormed(request[s])

JobsOK == cronTodo \subseteq Payroll /\ faults \in Nat

\* The inductive invariant: types, and what each request in flight holds.
IInv == TablesOK /\ RequestsOK /\ JobsOK
----------------------------------------------------------------------------
(* Rows and requests *)

\* A save writes a row of the right type, whose state is the one the table
\* had or the one the entity brings.
LEMMA MergedRow ==
    ASSUME NEW row \in PayrollRow, NEW db \in PayrollRow, NEW ent \in PayrollRow
    PROVE  /\ MergePayroll(row, db, ent) \in PayrollRow
           /\ MergePayroll(row, db, ent).estado \in {row.estado, ent.estado}
BY DEF MergePayroll, Column, PayrollRow

\* The entities that the payroll handlers build from the row they read.
LEMMA EditedRow ==
    ASSUME NEW row \in PayrollRow, NEW state \in PayrollState, NEW version \in Nat,
           NEW flag \in BOOLEAN, NEW alive \in BOOLEAN, NEW sl \in Slot, NEW key \in SlotKey,
           NEW holds \in BOOLEAN
    PROVE  /\ [row EXCEPT !.estado = state, !.versionLock = version] \in PayrollRow
           /\ [row EXCEPT !.slot = sl, !.slotKey = key, !.versionLock = version] \in PayrollRow
           /\ [row EXCEPT !.requiresRecalculation = flag] \in PayrollRow
           /\ [row EXCEPT !.requiresRecalculation = flag, !.versionLock = version] \in PayrollRow
           /\ [row EXCEPT !.estado = state, !.requiresRecalculation = flag,
                          !.versionLock = version] \in PayrollRow
           /\ [row EXCEPT !.estado = state, !.activo = alive, !.slotKey = key,
                          !.isActiveSlot = holds, !.versionLock = version] \in PayrollRow
<1>1. [row EXCEPT !.estado = state, !.versionLock = version] \in PayrollRow
  BY Zenon DEF PayrollRow
<1>2. [row EXCEPT !.slot = sl, !.slotKey = key, !.versionLock = version] \in PayrollRow
  BY Zenon DEF PayrollRow
<1>3. [row EXCEPT !.requiresRecalculation = flag] \in PayrollRow
  BY Zenon DEF PayrollRow
<1>4. [row EXCEPT !.requiresRecalculation = flag, !.versionLock = version] \in PayrollRow
  BY Zenon DEF PayrollRow
<1>5. [row EXCEPT !.estado = state, !.requiresRecalculation = flag, !.versionLock = version]
         \in PayrollRow
  BY Zenon DEF PayrollRow
<1>6. [row EXCEPT !.estado = state, !.activo = alive, !.slotKey = key, !.isActiveSlot = holds,
                  !.versionLock = version] \in PayrollRow
  BY Zenon DEF PayrollRow
<1> QED BY <1>1, <1>2, <1>3, <1>4, <1>5, <1>6

LEMMA AppliedRow ==
    ASSUME NEW row \in PayrollRow
    PROVE  Applied(row) \in PayrollRow
<1>1. ASSUME NEW state \in PayrollState, NEW version \in Nat, NEW holds \in BOOLEAN
      PROVE  [row EXCEPT !.estado = state, !.isActiveSlot = holds, !.versionLock = version]
                \in PayrollRow
  BY Zenon DEF PayrollRow
<1>2. row.versionLock + 1 \in Nat /\ "APLICADA" \in PayrollState
  BY DEF PayrollRow, PayrollState
<1> QED BY <1>1, <1>2 DEF Applied

LEMMA MergedActionRow ==
    ASSUME NEW row \in ActionRow, NEW db \in ActionRow, NEW ent \in ActionRow
    PROVE  MergeAction(row, db, ent) \in ActionRow
BY DEF MergeAction, Column, ActionRow

LEMMA IdleOK == Idle \in RequestRow /\ WellFormed(Idle)
BY SMTT(60) DEF Idle, RequestRow, WellFormed, Operations, PayrollOps, SavedByEntity, TargetOps,
   SavedActionOps, Busy

\* A step of one request leaves the others as they were.
LEMMA StepOK ==
    ASSUME RequestsOK, NEW s \in Processes, NEW r \in RequestRow, WellFormed(r), Step(s, r)
    PROVE  RequestsOK'
<1>1. request' \in [Processes -> RequestRow]
  BY DEF RequestsOK, Step
<1>2. ASSUME NEW t \in Processes PROVE WellFormed(request'[t])
  <2>1. CASE t = s
    <3>1. request'[t] = r BY <2>1 DEF RequestsOK, Step
    <3> QED BY <3>1
  <2>2. CASE t # s
    <3>1. request'[t] = request[t] BY <2>2 DEF RequestsOK, Step
    <3> QED BY <3>1 DEF RequestsOK
  <2> QED BY <2>1, <2>2
<1> QED BY <1>1, <1>2 DEF RequestsOK

LEMMA FinishOK ==
    ASSUME RequestsOK, NEW s \in Processes, Step(s, Idle)
    PROVE  RequestsOK'
BY IdleOK, StepOK
----------------------------------------------------------------------------
(* Loads: a request begins with what it read *)

LEMMA SessionIsProcess == \A s \in Session : s \in Processes
BY DEF Processes

LEMMA KeepTables ==
    ASSUME IInv, RequestsOK', UNCHANGED <<tables, cronTodo, faults>>
    PROVE  IInv'
BY DEF IInv, TablesOK, JobsOK, tables

LEMMA LoadPayrollOK ==
    ASSUME IInv, NEW s \in Processes, NEW op \in PayrollOps, NEW p \in Payroll,
           NEW ent \in PayrollRow, op = "apply" \/ ent.estado # "APLICADA",
           Load(s, op, p, NoAction, ent)
    PROVE  IInv'
<1> DEFINE r == [Idle EXCEPT !.op = op, !.pc = "loaded", !.p = p, !.a = NoAction, !.ent = ent]
<1>1. r \in RequestRow
  BY DEF Idle, RequestRow, Operations, PayrollOps, SavedByEntity
<1>2. WellFormed(r)
  BY DEF Idle, WellFormed, PayrollOps, SavedByEntity, TargetOps, SavedActionOps, Busy, Unapplied
<1>3. Step(s, r) /\ UNCHANGED <<tables, cronTodo, faults>>
  BY DEF Load
<1> HIDE DEF r
<1>4. RequestsOK'
  BY <1>1, <1>2, <1>3, StepOK DEF IInv
<1> QED BY <1>3, <1>4, KeepTables

LEMMA LoadTargetOK ==
    ASSUME IInv, NEW s \in Processes, NEW op \in TargetOps, NEW p \in Payroll, NEW a \in Action,
           NEW ent \in ActionRow \cup {NoRow}, Load(s, op, p, a, ent)
    PROVE  IInv'
<1> DEFINE r == [Idle EXCEPT !.op = op, !.pc = "loaded", !.p = p, !.a = a, !.ent = ent]
<1>1. r \in RequestRow
  BY DEF Idle, RequestRow, Operations, TargetOps
<1>2. WellFormed(r)
  BY DEF Idle, WellFormed, PayrollOps, SavedByEntity, TargetOps, SavedActionOps, Busy
<1>3. Step(s, r) /\ UNCHANGED <<tables, cronTodo, faults>>
  BY DEF Load
<1> HIDE DEF r
<1>4. RequestsOK'
  BY <1>1, <1>2, <1>3, StepOK DEF IInv
<1> QED BY <1>3, <1>4, KeepTables

LEMMA LoadSavedActionOK ==
    ASSUME IInv, NEW s \in Processes, NEW op \in SavedActionOps,
           NEW p \in Payroll \cup {NoPayroll}, NEW a \in Action, NEW ent \in ActionRow,
           Load(s, op, p, a, ent)
    PROVE  IInv'
<1> DEFINE r == [Idle EXCEPT !.op = op, !.pc = "loaded", !.p = p, !.a = a, !.ent = ent]
<1>1. r \in RequestRow
  BY DEF Idle, RequestRow, Operations, SavedActionOps
<1>2. WellFormed(r)
  BY DEF Idle, WellFormed, PayrollOps, SavedByEntity, TargetOps, SavedActionOps, Busy
<1>3. Step(s, r) /\ UNCHANGED <<tables, cronTodo, faults>>
  BY DEF Load
<1> HIDE DEF r
<1>4. RequestsOK'
  BY <1>1, <1>2, <1>3, StepOK DEF IInv
<1> QED BY <1>3, <1>4, KeepTables

\* Every load of the payroll service.
LEMMA PayrollLoadOK ==
    ASSUME IInv, NEW s \in Session, PayrollLoad(s)
    PROVE  IInv'
<1>0. s \in Processes BY DEF Processes
<1>1. ASSUME NEW slot \in Slot, LoadCreate(s, slot) PROVE IInv'
  <2> DEFINE ent == [estado |-> "ABIERTA", versionLock |-> 0, requiresRecalculation |-> FALSE,
                     activo |-> TRUE, slot |-> slot, slotKey |-> Key(slot), isActiveSlot |-> TRUE]
             r == [Idle EXCEPT !.op = "create", !.pc = "new", !.ent = ent]
  <2>1. ent \in PayrollRow /\ ent.estado # "APLICADA"
    BY DEF PayrollRow, PayrollState, SlotKey, Key
  <2>2. Step(s, r) /\ UNCHANGED <<tables, cronTodo, faults>>
    BY <1>1 DEF LoadCreate
  <2> HIDE DEF ent
  <2>3. r \in RequestRow
    BY <2>1 DEF Idle, RequestRow, Operations
  <2>4. WellFormed(r)
    BY <2>1 DEF Idle, WellFormed, PayrollOps, SavedByEntity, TargetOps, SavedActionOps, Busy,
                Unapplied
  <2> HIDE DEF r
  <2>5. RequestsOK'
    BY <1>0, <2>2, <2>3, <2>4, StepOK DEF IInv
  <2> QED BY <2>2, <2>5, KeepTables
<1>2. ASSUME NEW p \in Payroll
      PROVE  /\ payroll[p] \in PayrollRow
             /\ \A n \in Nat : Bump(p, n) \in Nat
             /\ payroll[p].slot \in Slot
             /\ [payroll[p].slotKey EXCEPT !.tagged = TRUE] \in SlotKey
             /\ \A slot \in Slot : Key(slot) \in SlotKey
  <2>1. payroll[p] \in PayrollRow
    BY DEF IInv, TablesOK
  <2>2. payroll[p].slotKey \in SlotKey /\ payroll[p].slot \in Slot /\ payroll[p].versionLock \in Nat
    BY <2>1 DEF PayrollRow
  <2>3. \A key \in SlotKey : [key EXCEPT !.tagged = TRUE] \in SlotKey
    BY Zenon DEF SlotKey
  <2>4. \A slot \in Slot : Key(slot) \in SlotKey
    BY DEF SlotKey, Key
  <2> QED
    BY <2>1, <2>2, <2>3, <2>4 DEF Bump
<1>3. ASSUME NEW p \in Payroll, LoadVerify(s, p) PROVE IInv'
  <2> DEFINE ent == [payroll[p] EXCEPT !.estado = "VERIFICADA", !.versionLock = Bump(p, 1)]
  <2>a. ent \in PayrollRow
    BY <1>2, EditedRow DEF PayrollState
  <2>b. ent.estado # "APLICADA"
    BY <1>2 DEF PayrollRow
  <2>1. ent \in PayrollRow /\ ent.estado # "APLICADA"
    BY <2>a, <2>b
  <2>2. Load(s, "verify", p, NoAction, ent)
    BY <1>3 DEF LoadVerify
  <2> HIDE DEF ent
  <2> QED BY <1>0, <2>1, <2>2, LoadPayrollOK DEF PayrollOps, SavedByEntity
<1>4. ASSUME NEW p \in Payroll, LoadReopen(s, p) PROVE IInv'
  <2> DEFINE ent == [payroll[p] EXCEPT !.estado = "ABIERTA", !.versionLock = Bump(p, 1)]
  <2>a. ent \in PayrollRow
    BY <1>2, EditedRow DEF PayrollState
  <2>b. ent.estado # "APLICADA"
    BY <1>2 DEF PayrollRow
  <2>1. ent \in PayrollRow /\ ent.estado # "APLICADA"
    BY <2>a, <2>b
  <2>2. Load(s, "reopen", p, NoAction, ent)
    BY <1>4 DEF LoadReopen
  <2> HIDE DEF ent
  <2> QED BY <1>0, <2>1, <2>2, LoadPayrollOK DEF PayrollOps, SavedByEntity
<1>5. ASSUME NEW p \in Payroll, LoadProcess(s, p) PROVE IInv'
  <2> DEFINE ent == [payroll[p] EXCEPT !.estado = "EN_PROCESO", !.requiresRecalculation = FALSE,
                                       !.versionLock = Bump(p, 2)]
  <2>a. ent \in PayrollRow
    BY <1>2, EditedRow DEF PayrollState
  <2>b. ent.estado # "APLICADA"
    BY <1>2 DEF PayrollRow
  <2>1. ent \in PayrollRow /\ ent.estado # "APLICADA"
    BY <2>a, <2>b
  <2>2. Load(s, "process", p, NoAction, ent)
    BY <1>5 DEF LoadProcess
  <2> HIDE DEF ent
  <2> QED BY <1>0, <2>1, <2>2, LoadPayrollOK DEF PayrollOps
<1>6. ASSUME NEW p \in Payroll, LoadApply(s, p) PROVE IInv'
  BY <1>0, <1>2, <1>6, LoadPayrollOK DEF LoadApply, PayrollOps
<1>7. ASSUME NEW p \in Payroll, LoadInactivate(s, p) PROVE IInv'
  <2> DEFINE ent == [payroll[p] EXCEPT !.estado = "INACTIVA", !.activo = FALSE,
                                       !.slotKey = [@ EXCEPT !.tagged = TRUE],
                                       !.isActiveSlot = FALSE, !.versionLock = Bump(p, 1)]
  <2>a. ent \in PayrollRow
    BY <1>2, EditedRow DEF PayrollState
  <2>b. ent.estado # "APLICADA"
    BY <1>2 DEF PayrollRow
  <2>1. ent \in PayrollRow /\ ent.estado # "APLICADA"
    BY <2>a, <2>b
  <2>2. Load(s, "inactivate", p, NoAction, ent)
    BY <1>7 DEF LoadInactivate
  <2> HIDE DEF ent
  <2> QED BY <1>0, <2>1, <2>2, LoadPayrollOK DEF PayrollOps
<1>8. ASSUME NEW p \in Payroll, LoadReactivate(s, p) PROVE IInv'
  <2> DEFINE ent == [payroll[p] EXCEPT !.estado = "ABIERTA", !.activo = TRUE,
                                       !.slotKey = Key(payroll[p].slot),
                                       !.isActiveSlot = TRUE, !.versionLock = Bump(p, 1)]
  <2>a. ent \in PayrollRow
    BY <1>2, EditedRow DEF PayrollState
  <2>b. ent.estado # "APLICADA"
    BY <1>2 DEF PayrollRow
  <2>1. ent \in PayrollRow /\ ent.estado # "APLICADA"
    BY <2>a, <2>b
  <2>2. Load(s, "reactivate", p, NoAction, ent)
    BY <1>8 DEF LoadReactivate
  <2> HIDE DEF ent
  <2> QED BY <1>0, <2>1, <2>2, LoadPayrollOK DEF PayrollOps
<1>9. ASSUME NEW p \in Payroll, NEW slot \in Slot, LoadUpdate(s, p, slot) PROVE IInv'
  <2> DEFINE ent == [payroll[p] EXCEPT !.slot = slot, !.slotKey = Key(slot), !.versionLock = Bump(p, 1)]
  <2>a. ent \in PayrollRow
    BY <1>2, EditedRow DEF PayrollState
  <2>b. ent.estado # "APLICADA"
    BY <1>2, <1>9 DEF PayrollRow, LoadUpdate
  <2>1. ent \in PayrollRow /\ ent.estado # "APLICADA"
    BY <2>a, <2>b
  <2>2. Load(s, "update", p, NoAction, ent)
    BY <1>9 DEF LoadUpdate
  <2> HIDE DEF ent
  <2> QED BY <1>0, <2>1, <2>2, LoadPayrollOK DEF PayrollOps, SavedByEntity
<1>10. ASSUME NEW p \in Payroll, NEW op \in {"include", "exclude"},
              NEW emps \in (SUBSET Employee) \ {{}}, LoadSelection(s, p, op, emps)
       PROVE  IInv'
  <2> DEFINE ent == [payroll[p] EXCEPT !.requiresRecalculation = TRUE, !.versionLock = Bump(p, 1)]
             r == [Idle EXCEPT !.op = op, !.pc = "loaded", !.p = p, !.emps = emps, !.ent = ent]
  <2>a. ent \in PayrollRow
    BY <1>2, EditedRow DEF PayrollState
  <2>b. ent.estado # "APLICADA"
    BY <1>2, <1>10 DEF PayrollRow, LoadSelection
  <2>1. ent \in PayrollRow /\ ent.estado # "APLICADA"
    BY <2>a, <2>b
  <2>2. Step(s, r) /\ UNCHANGED <<tables, cronTodo, faults>>
    BY <1>10 DEF LoadSelection
  <2> HIDE DEF ent
  <2>3. r \in RequestRow
    BY <2>1 DEF Idle, RequestRow, Operations
  <2>4. WellFormed(r)
    BY <2>1 DEF Idle, WellFormed, PayrollOps, SavedByEntity, TargetOps, SavedActionOps, Busy,
                Unapplied
  <2> HIDE DEF r
  <2>5. RequestsOK'
    BY <1>0, <2>2, <2>3, <2>4, StepOK DEF IInv
  <2> QED BY <2>2, <2>5, KeepTables
<1> QED
  BY <1>1, <1>3, <1>4, <1>5, <1>6, <1>7, <1>8, <1>9, <1>10 DEF PayrollLoad
----------------------------------------------------------------------------
(* Views: a request goes on with what it reads next *)

LEMMA InFlight ==
    ASSUME IInv, NEW s \in Processes
    PROVE  request[s] \in RequestRow /\ WellFormed(request[s])
BY DEF IInv, RequestsOK

LEMMA ReadyRow ==
    ASSUME NEW r \in RequestRow, NEW db \in PayrollRow \cup ActionRow \cup {NoRow},
           NEW acts \in SUBSET Action, NEW fresh \in SUBSET Action,
           NEW emps \in SUBSET Employee, NEW items \in SUBSET (Payroll \X Action)
    PROVE  /\ [r EXCEPT !.pc = "ready"] \in RequestRow
           /\ [r EXCEPT !.pc = "ready", !.db = db] \in RequestRow
           /\ [r EXCEPT !.pc = "ready", !.db = db, !.acts = acts, !.fresh = fresh,
                        !.emps = emps] \in RequestRow
           /\ [r EXCEPT !.pc = "ready", !.emps = emps] \in RequestRow
           /\ [r EXCEPT !.pc = "ready", !.db = db, !.acts = acts] \in RequestRow
           /\ [r EXCEPT !.pc = "ready", !.db = db, !.items = items, !.acts = acts] \in RequestRow
<1>0. \A q \in RequestRow : [q EXCEPT !.pc = "ready"] \in RequestRow
  BY DEF RequestRow
<1>1. \A q \in RequestRow : [q EXCEPT !.pc = "ready", !.db = db] \in RequestRow
  BY DEF RequestRow
<1>2. [r EXCEPT !.pc = "ready", !.db = db, !.acts = acts, !.fresh = fresh, !.emps = emps]
         \in RequestRow
  BY DEF RequestRow
<1>3. [r EXCEPT !.pc = "ready", !.emps = emps] \in RequestRow
  BY DEF RequestRow
<1>4. [r EXCEPT !.pc = "ready", !.db = db, !.acts = acts] \in RequestRow
  BY DEF RequestRow
<1>5. [r EXCEPT !.pc = "ready", !.db = db, !.items = items, !.acts = acts] \in RequestRow
  BY DEF RequestRow
<1> QED BY <1>0, <1>1, <1>2, <1>3, <1>4, <1>5

LEMMA ReadyToSaveOK ==
    ASSUME IInv, NEW s \in Processes, request[s].op \in SavedByEntity, request[s].pc = "loaded",
           ReadyToSave(s)
    PROVE  RequestsOK' /\ JobsOK' /\ request[s].p \in Payroll
<1> DEFINE old == request[s]
           r == [old EXCEPT !.pc = "ready", !.db = payroll[old.p]]
<1>1. old \in RequestRow /\ WellFormed(old)
  BY InFlight
<1>2. old.p \in Payroll /\ Unapplied(old.ent)
  BY <1>1 DEF WellFormed, PayrollOps, Busy, SavedByEntity
<1>3. payroll[old.p] \in PayrollRow
  BY <1>2 DEF IInv, TablesOK
<1>4. r \in RequestRow
  BY <1>1, <1>3, ReadyRow
<1>5. WellFormed(r)
  <2>1. /\ r.op = old.op /\ r.pc = "ready" /\ r.p = old.p /\ r.ent = old.ent
        /\ r.db = payroll[old.p]
    BY <1>1 DEF RequestRow
  <2> HIDE DEF r
  <2> QED
    BY <1>2, <1>3, <2>1 DEF WellFormed, PayrollOps, SavedByEntity, TargetOps, SavedActionOps,
                              Busy, Unapplied
<1>6. Step(s, r) /\ UNCHANGED <<cronTodo, faults>>
  BY DEF ReadyToSave, KeepCronAndFaults
<1> HIDE DEF r
<1>7. RequestsOK'
  BY <1>4, <1>5, <1>6, StepOK DEF IInv
<1> QED BY <1>2, <1>6, <1>7 DEF IInv, JobsOK

LEMMA PayrollViewOK ==
    ASSUME IInv, NEW s \in Session, PayrollView(s)
    PROVE  IInv'
<1> DEFINE old == request[s]
<1>0. s \in Processes BY DEF Processes
<1>1. old \in RequestRow /\ WellFormed(old)
  BY <1>0, InFlight
<1>2. ASSUME old.op \in PayrollOps, old.pc = "loaded"
      PROVE  /\ old.p \in Payroll /\ old.ent \in PayrollRow
             /\ old.op # "apply" => Unapplied(old.ent)
             /\ payroll[old.p] \in PayrollRow
  BY <1>1, <1>2 DEF WellFormed, Busy, IInv, TablesOK
<1>3. ASSUME ViewCreate(s) \/ ViewUpdate(s) \/ ViewVerify(s) \/ ViewReopen(s) PROVE IInv'
  <2>1. old.op \in SavedByEntity /\ old.pc = "loaded" /\ ReadyToSave(s) /\ UNCHANGED tables
    BY <1>3 DEF ViewCreate, ViewUpdate, ViewVerify, ViewReopen, At, SavedByEntity
  <2>2. RequestsOK' /\ JobsOK'
    BY <1>0, <2>1, ReadyToSaveOK
  <2> QED BY <2>1, <2>2 DEF IInv, TablesOK, tables
<1>4. ASSUME ViewSelection(s) PROVE IInv'
  <2>1. old.op \in SavedByEntity /\ old.pc = "loaded" /\ ReadyToSave(s)
    BY <1>4 DEF ViewSelection, At, SavedByEntity
  <2>2. RequestsOK' /\ JobsOK' /\ old.p \in Payroll
    BY <1>0, <2>1, ReadyToSaveOK
  <2>3. selection' \in [Payroll -> [Employee -> Mark]]
    BY <1>4, <2>2 DEF ViewSelection, IInv, TablesOK, Mark
  <2> QED BY <1>4, <2>2, <2>3 DEF ViewSelection, IInv, TablesOK
<1>5. ASSUME ViewProcess(s) PROVE IInv'
  <2> DEFINE acts == Collected(old.p, old.ent.slot)
             fresh == {a \in acts : action[a].idCalendarioNomina = NoPayroll}
             r == [old EXCEPT !.pc = "ready", !.db = payroll[old.p], !.acts = acts,
                              !.fresh = fresh, !.emps = Included(old.p)]
  <2>1. old.op = "process" /\ old.pc = "loaded" /\ Step(s, r)
        /\ UNCHANGED <<tables, cronTodo, faults>>
    BY <1>5 DEF ViewProcess, At
  <2>2. /\ old.p \in Payroll /\ Unapplied(old.ent) /\ payroll[old.p] \in PayrollRow
        /\ acts \in SUBSET Action /\ fresh \in SUBSET Action /\ Included(old.p) \in SUBSET Employee
    BY <1>2, <2>1 DEF PayrollOps, Collected, Included
  <2> HIDE DEF acts, fresh
  <2>3. r \in RequestRow
    BY <1>1, <2>2, ReadyRow
  <2>4. WellFormed(r)
    <3>1. /\ r.op = old.op /\ r.pc = "ready" /\ r.p = old.p /\ r.ent = old.ent
          /\ r.db = payroll[old.p]
      BY <1>1 DEF RequestRow
    <3> HIDE DEF r
    <3> QED BY <2>1, <2>2, <3>1 DEF WellFormed, PayrollOps, SavedByEntity, TargetOps,
                                     SavedActionOps, Busy, Unapplied
  <2> HIDE DEF r
  <2>5. RequestsOK'
    BY <1>0, <2>1, <2>3, <2>4, StepOK DEF IInv
  <2> QED BY <2>1, <2>5, KeepTables
<1>6. ASSUME ViewApply(s) PROVE IInv'
  <2> DEFINE r == [old EXCEPT !.pc = "ready", !.emps = results[old.p]]
  <2>1. old.op = "apply" /\ old.pc = "loaded" /\ Step(s, r)
        /\ UNCHANGED <<tables, cronTodo, faults>>
    BY <1>6 DEF ViewApply, At
  <2>2. old.p \in Payroll /\ old.ent \in PayrollRow /\ results[old.p] \in SUBSET Employee
    BY <1>2, <2>1 DEF PayrollOps, IInv, TablesOK
  <2>3. r \in RequestRow
    BY <1>1, <2>2, ReadyRow
  <2>4. WellFormed(r)
    <3>1. r.op = old.op /\ r.pc = "ready" /\ r.p = old.p /\ r.ent = old.ent
      BY <1>1 DEF RequestRow
    <3> HIDE DEF r
    <3> QED BY <2>1, <2>2, <3>1 DEF WellFormed, PayrollOps, SavedByEntity, TargetOps,
                                     SavedActionOps, Busy
  <2> HIDE DEF r
  <2>5. RequestsOK'
    BY <1>0, <2>1, <2>3, <2>4, StepOK DEF IInv
  <2> QED BY <2>1, <2>5, KeepTables
<1>7. ASSUME ViewInactivate(s) PROVE IInv'
  <2> DEFINE r == [old EXCEPT !.pc = "ready", !.db = payroll[old.p], !.acts = Attached(old.p)]
  <2>1. old.op = "inactivate" /\ old.pc = "loaded" /\ Step(s, r)
        /\ UNCHANGED <<tables, cronTodo, faults>>
    BY <1>7 DEF ViewInactivate, At
  <2>2. /\ old.p \in Payroll /\ Unapplied(old.ent) /\ payroll[old.p] \in PayrollRow
        /\ Attached(old.p) \in SUBSET Action
    BY <1>2, <2>1 DEF PayrollOps, Attached
  <2>3. r \in RequestRow
    BY <1>1, <2>2, ReadyRow
  <2>4. WellFormed(r)
    <3>1. /\ r.op = old.op /\ r.pc = "ready" /\ r.p = old.p /\ r.ent = old.ent
          /\ r.db = payroll[old.p]
      BY <1>1 DEF RequestRow
    <3> HIDE DEF r
    <3> QED BY <2>1, <2>2, <3>1 DEF WellFormed, PayrollOps, SavedByEntity, TargetOps,
                                     SavedActionOps, Busy, Unapplied
  <2> HIDE DEF r
  <2>5. RequestsOK'
    BY <1>0, <2>1, <2>3, <2>4, StepOK DEF IInv
  <2> QED BY <2>1, <2>5, KeepTables
<1>8. ASSUME ViewReactivate(s) PROVE IInv'
  <2> DEFINE mine == {i \in orphans : i[1] = old.p}
             acts == {i[2] : i \in {j \in mine : Reassignable(j[1], j[2], old.p, old.ent)}}
             r == [old EXCEPT !.pc = "ready", !.db = payroll[old.p], !.items = mine,
                              !.acts = acts]
  <2>1. old.op = "reactivate" /\ old.pc = "loaded" /\ Step(s, r)
        /\ UNCHANGED <<tables, cronTodo, faults>>
    BY <1>8 DEF ViewReactivate, At
  <2>2. /\ old.p \in Payroll /\ Unapplied(old.ent) /\ payroll[old.p] \in PayrollRow
        /\ mine \in SUBSET (Payroll \X Action)
    BY <1>2, <2>1 DEF PayrollOps, IInv, TablesOK
  <2>3. acts \in SUBSET Action
    BY <2>2
  <2> HIDE DEF acts, mine
  <2>4. r \in RequestRow
    BY <1>1, <2>2, <2>3, ReadyRow
  <2>5. WellFormed(r)
    <3>1. /\ r.op = old.op /\ r.pc = "ready" /\ r.p = old.p /\ r.ent = old.ent
          /\ r.db = payroll[old.p]
      BY <1>1 DEF RequestRow
    <3> HIDE DEF r
    <3> QED BY <2>1, <2>2, <3>1 DEF WellFormed, PayrollOps, SavedByEntity, TargetOps,
                                     SavedActionOps, Busy, Unapplied
  <2> HIDE DEF r
  <2>6. RequestsOK'
    BY <1>0, <2>1, <2>4, <2>5, StepOK DEF IInv
  <2> QED BY <2>1, <2>6, KeepTables
<1> QED
  BY <1>3, <1>4, <1>5, <1>6, <1>7, <1>8 DEF PayrollView
----------------------------------------------------------------------------
(* Commits of the payroll service *)

\* What a save puts in the table, and that no save makes an applied payroll.
LEMMA MergedOK ==
    ASSUME IInv, NEW s \in Processes, request[s].op \in PayrollOps \ {"apply"},
           request[s].pc = "ready"
    PROVE  /\ request[s].p \in Payroll
           /\ Merged(s) \in PayrollRow
           /\ Merged(s).estado = "APLICADA" => payroll[request[s].p].estado = "APLICADA"
           /\ [payroll EXCEPT ![request[s].p] = Merged(s)] \in [Payroll -> PayrollRow]
<1> DEFINE r == request[s]
<1>1. r \in RequestRow /\ WellFormed(r)
  BY InFlight
<1>2. r.p \in Payroll /\ Unapplied(r.ent) /\ r.db \in PayrollRow
  BY <1>1 DEF WellFormed, Busy
<1>3. payroll[r.p] \in PayrollRow
  BY <1>2 DEF IInv, TablesOK
<1>4. Merged(s) \in PayrollRow /\ Merged(s).estado \in {payroll[r.p].estado, r.ent.estado}
  BY <1>2, <1>3, MergedRow DEF Merged, Unapplied
<1> QED BY <1>2, <1>4 DEF Unapplied, IInv, TablesOK

\* After its commit, a request that creates, reopens or reactivates goes on to
\* the orphans.
LEMMA OrphansNextOK ==
    ASSUME IInv, NEW s \in Processes, NEW p \in Payroll, NEW op \in Operations,
           Step(s, [Idle EXCEPT !.op = op, !.pc = "orphans", !.p = p])
    PROVE  RequestsOK'
<1> DEFINE r == [Idle EXCEPT !.op = op, !.pc = "orphans", !.p = p]
<1>1. r \in RequestRow
  BY DEF Idle, RequestRow
<1>2. WellFormed(r)
  <2>1. r.op = op /\ r.pc = "orphans" /\ r.p = p
    BY DEF Idle
  <2> HIDE DEF r
  <2> QED BY <2>1 DEF WellFormed, Busy
<1>3. Step(s, r)
  OBVIOUS
<1> HIDE DEF r
<1> QED BY <1>1, <1>2, <1>3, StepOK DEF IInv

LEMMA PayrollCommitOK ==
    ASSUME IInv, NEW s \in Session, PayrollCommit(s)
    PROVE  IInv'
<1> DEFINE r == request[s]
<1>0. s \in Processes BY DEF Processes
<1>1. r \in RequestRow /\ WellFormed(r)
  BY <1>0, InFlight
<1>2. ASSUME NEW p \in Payroll, CommitCreate(s, p) PROVE IInv'
  <2>1. r.op = "create" /\ Unapplied(r.ent)
    BY <1>1, <1>2 DEF CommitCreate, At, WellFormed
  <2>2. payroll' \in [Payroll -> PayrollRow]
    BY <1>2, <2>1 DEF CommitCreate, IInv, TablesOK, Unapplied
  <2>3. RequestsOK'
    <3> DEFINE x == [r EXCEPT !.pc = "loaded", !.p = p]
    <3>1. x \in RequestRow /\ x.op = r.op /\ x.pc = "loaded" /\ x.p = p /\ x.ent = r.ent
      BY <1>1 DEF RequestRow
    <3>2. Step(s, x)
      BY <1>2 DEF CommitCreate
    <3> HIDE DEF x
    <3>3. WellFormed(x)
      BY <2>1, <3>1 DEF WellFormed, TargetOps, SavedActionOps, Unapplied
    <3> QED BY <1>0, <3>1, <3>2, <3>3, StepOK DEF IInv
  <2> QED BY <1>2, <2>2, <2>3 DEF CommitCreate, KeepCronAndFaults, IInv, TablesOK, JobsOK
<1>3. ASSUME CommitSave(s) PROVE IInv'
  <2>1. r.op \in SavedByEntity /\ r.pc = "ready"
    BY <1>3 DEF CommitSave
  <2>2. r.p \in Payroll /\ payroll' \in [Payroll -> PayrollRow]
    BY <1>0, <1>3, <2>1, MergedOK DEF CommitSave, PayrollOps, SavedByEntity
  <2>3. RequestsOK'
    <3>1. CASE r.op \in {"create", "reopen"}
      BY <1>0, <1>1, <1>3, <2>2, <3>1, OrphansNextOK DEF CommitSave, RequestRow
    <3>2. CASE r.op \notin {"create", "reopen"}
      BY <1>0, <1>3, <3>2, FinishOK DEF CommitSave, IInv
    <3> QED BY <3>1, <3>2
  <2> QED BY <1>3, <2>2, <2>3 DEF CommitSave, KeepCronAndFaults, IInv, TablesOK, JobsOK
<1>4. ASSUME CommitProcess(s) PROVE IInv'
  <2>1. r.op = "process" /\ r.pc = "ready"
    BY <1>4 DEF CommitProcess, At
  <2>2. r.p \in Payroll /\ payroll' \in [Payroll -> PayrollRow]
    BY <1>0, <1>4, <2>1, MergedOK DEF CommitProcess, PayrollOps
  <2>3. inputs' \in [Payroll -> SUBSET Action] /\ results' \in [Payroll -> SUBSET Employee]
    <3>1. r.acts \in SUBSET Action /\ r.emps \in SUBSET Employee
      BY <1>1 DEF RequestRow
    <3> QED BY <1>4, <3>1 DEF CommitProcess, IInv, TablesOK
  <2>4. action' \in [Action -> ActionRow]
    <3>1. ASSUME NEW a \in Action
          PROVE  /\ [action[a] EXCEPT !.idCalendarioNomina = r.p] \in ActionRow
                 /\ [action[a] EXCEPT !.estado = "INVALIDATED"] \in ActionRow
                 /\ action[a] \in ActionRow
      BY <2>2 DEF IInv, TablesOK, ActionRow, ActionState
    <3> QED BY <1>4, <3>1 DEF CommitProcess
  <2>5. RequestsOK'
    BY <1>0, <1>4, FinishOK DEF CommitProcess, IInv
  <2> QED BY <1>4, <2>2, <2>3, <2>4, <2>5 DEF CommitProcess, KeepCronAndFaults, IInv, TablesOK, JobsOK
<1>5. ASSUME CommitApply(s) PROVE IInv'
  <2>1. r.p \in Payroll
    BY <1>1, <1>5 DEF CommitApply, At, WellFormed, PayrollOps, Busy
  <2>2. payroll' \in [Payroll -> PayrollRow]
    <3>1. Applied(payroll[r.p]) \in PayrollRow
      BY <2>1, AppliedRow DEF IInv, TablesOK
    <3> QED BY <1>5, <3>1 DEF CommitApply, IInv, TablesOK
  <2>3. action' \in [Action -> ActionRow]
    <3>1. ASSUME NEW a \in Action
          PROVE  [action[a] EXCEPT !.estado = "CONSUMED"] \in ActionRow /\ action[a] \in ActionRow
      BY DEF IInv, TablesOK, ActionRow, ActionState
    <3> QED BY <1>5, <3>1 DEF CommitApply
  <2>4. aguinaldo' \subseteq Payroll \X Employee
    BY <1>5, <2>1 DEF CommitApply, Provisions, IInv, TablesOK
  <2>5. RequestsOK'
    BY <1>0, <1>5, FinishOK DEF CommitApply, IInv
  <2> QED BY <1>5, <2>2, <2>3, <2>4, <2>5 DEF CommitApply, KeepCronAndFaults, IInv, TablesOK, JobsOK
<1>6. ASSUME CommitInactivate(s) PROVE IInv'
  <2>1. r.op = "inactivate" /\ r.pc = "ready"
    BY <1>6 DEF CommitInactivate, At
  <2>2. r.p \in Payroll /\ payroll' \in [Payroll -> PayrollRow]
    BY <1>0, <1>6, <2>1, MergedOK DEF CommitInactivate, PayrollOps
  <2>3. orphans' \subseteq Payroll \X Action
    <3>1. r.acts \in SUBSET Action
      BY <1>1 DEF RequestRow
    <3> QED BY <1>6, <2>2, <3>1 DEF CommitInactivate, IInv, TablesOK
  <2>4. action' \in [Action -> ActionRow]
    <3>1. [estado |-> "PENDING_RRHH", idCalendarioNomina |-> NoPayroll] \in ActionRow
      BY DEF ActionRow, ActionState
    <3> QED BY <1>6, <3>1 DEF CommitInactivate, IInv, TablesOK
  <2>5. RequestsOK'
    BY <1>0, <1>6, FinishOK DEF CommitInactivate, IInv
  <2> QED BY <1>6, <2>2, <2>3, <2>4, <2>5 DEF CommitInactivate, KeepCronAndFaults, IInv, TablesOK, JobsOK
<1>7. ASSUME CommitReactivate(s) PROVE IInv'
  <2>1. r.op = "reactivate" /\ r.pc = "ready"
    BY <1>7 DEF CommitReactivate, At
  <2>2. r.p \in Payroll /\ payroll' \in [Payroll -> PayrollRow]
    BY <1>0, <1>7, <2>1, MergedOK DEF CommitReactivate, PayrollOps
  <2>3. action' \in [Action -> ActionRow]
    <3>1. ASSUME NEW a \in Action PROVE Relinked(a, r.p) \in ActionRow /\ action[a] \in ActionRow
      BY <2>2 DEF Relinked, IInv, TablesOK, ActionRow, ActionState
    <3> QED BY <1>7, <3>1 DEF CommitReactivate
  <2>4. RequestsOK'
    BY <1>0, <1>7, <2>2, OrphansNextOK DEF CommitReactivate, Operations
  <2> QED BY <1>7, <2>2, <2>3, <2>4 DEF CommitReactivate, KeepCronAndFaults, IInv, TablesOK, JobsOK
<1> QED
  BY <1>2, <1>3, <1>4, <1>5, <1>6, <1>7 DEF PayrollCommit

LEMMA ReassignOK ==
    ASSUME IInv, NEW s \in Processes, Reassign(s)
    PROVE  IInv'
<1> DEFINE old == request[s]
<1>1. old \in RequestRow /\ WellFormed(old)
  BY InFlight
<1>2. ASSUME ViewOrphans(s) PROVE IInv'
  <2> DEFINE eligible == {i \in orphans : Reassignable(i[1], i[2], old.p, payroll[old.p])}
             closed == {i \in orphans : Terminal(i[1], i[2], old.p, payroll[old.p])}
             acts == {i[2] : i \in eligible}
             r == [old EXCEPT !.pc = "link", !.acts = acts, !.items = closed]
  <2>1. old.pc = "orphans" /\ Step(s, r) /\ UNCHANGED <<tables, cronTodo, faults>>
    BY <1>2 DEF ViewOrphans
  <2>2. old.p \in Payroll /\ acts \in SUBSET Action /\ closed \in SUBSET (Payroll \X Action)
    BY <1>1, <2>1 DEF WellFormed, IInv, TablesOK
  <2> HIDE DEF acts, closed
  <2>3. r \in RequestRow
    BY <1>1, <2>2 DEF RequestRow
  <2>4. WellFormed(r)
    <3>1. r.pc = "link" /\ r.p = old.p
      BY <1>1 DEF RequestRow
    <3> HIDE DEF r
    <3> QED BY <2>2, <3>1 DEF WellFormed, Busy
  <2> HIDE DEF r
  <2>5. RequestsOK'
    BY <2>1, <2>3, <2>4, StepOK DEF IInv
  <2> QED BY <2>1, <2>5, KeepTables
<1>3. ASSUME CommitOrphans(s) PROVE IInv'
  <2>1. old.p \in Payroll
    BY <1>1, <1>3 DEF CommitOrphans, WellFormed
  <2>2. action' \in [Action -> ActionRow]
    <3>1. ASSUME NEW a \in Action PROVE Relinked(a, old.p) \in ActionRow /\ action[a] \in ActionRow
      BY <2>1 DEF Relinked, IInv, TablesOK, ActionRow, ActionState
    <3> QED BY <1>3, <3>1 DEF CommitOrphans
  <2>3. RequestsOK'
    BY <1>3, FinishOK DEF CommitOrphans, IInv
  <2> QED BY <1>3, <2>2, <2>3 DEF CommitOrphans, KeepCronAndFaults, IInv, TablesOK, JobsOK
<1>4. ASSUME SkipOrphans(s) PROVE IInv'
  <2>1. RequestsOK'
    BY <1>4, FinishOK DEF SkipOrphans, IInv
  <2> QED BY <1>4, <2>1, KeepTables DEF SkipOrphans
<1> QED BY <1>2, <1>3, <1>4 DEF Reassign

LEMMA CronOK ==
    ASSUME IInv, CronTick \/ CronNext
    PROVE  IInv'
<1>1. ASSUME CronTick PROVE IInv'
  <2>1. cronTodo' \subseteq Payroll /\ UNCHANGED <<tables, request, faults>>
    BY <1>1 DEF CronTick
  <2> QED BY <2>1 DEF IInv, TablesOK, RequestsOK, JobsOK, tables
<1>2. ASSUME CronNext PROVE IInv'
  <2>1. PICK p \in cronTodo :
           /\ cronTodo' = cronTodo \ {p}
           /\ Step(Cron, [Idle EXCEPT !.op = "cron", !.pc = "orphans", !.p = p])
    BY <1>2 DEF CronNext
  <2>2. RequestsOK'
    BY <2>1, OrphansNextOK DEF IInv, JobsOK, Processes, Operations
  <2> QED BY <1>2, <2>1, <2>2 DEF CronNext, IInv, TablesOK, JobsOK, tables
<1> QED BY <1>1, <1>2
----------------------------------------------------------------------------
(* The personal-actions service *)

\* Every load of the personal-actions service.
LEMMA ActionLoadOK ==
    ASSUME IInv, NEW s \in Session, ActionLoad(s)
    PROVE  IInv'
<1>0. s \in Processes BY DEF Processes
<1>1. PICK a \in Action :
         \/ CreateDraft(s, a) \/ LoadAdvance(s, a) \/ LoadReject(s, a)
         \/ LoadInvalidate(s, a) \/ LoadRevive(s, a)
         \/ \E p \in Payroll : \/ LoadRegister(s, a, p) \/ LoadBulk(s, a, p)
                               \/ LoadApprove(s, a, p) \/ LoadEdit(s, a, p)
                               \/ LoadAssociate(s, a, p)
  BY DEF ActionLoad
<1>2. action[a] \in ActionRow
  BY DEF IInv, TablesOK
<1>3. ASSUME NEW state \in ActionState, NEW p \in Payroll
      PROVE  /\ [action[a] EXCEPT !.estado = state] \in ActionRow
             /\ [action[a] EXCEPT !.idCalendarioNomina = p] \in ActionRow
  BY <1>2 DEF ActionRow
<1>4. ASSUME CreateDraft(s, a) PROVE IInv'
  <2>1. action' \in [Action -> ActionRow]
    BY <1>4 DEF CreateDraft, Insert, IInv, TablesOK, ActionRow, ActionState
  <2> QED BY <1>4, <2>1 DEF CreateDraft, Insert, KeepPayrollTables, IInv, TablesOK, RequestsOK, JobsOK
<1>5. ASSUME LoadAdvance(s, a) PROVE IInv'
  <2>1. NextState[action[a].estado] \in ActionState
    BY <1>5 DEF LoadAdvance, PendingStates, NextState, ActionState
  <2>2. [action[a] EXCEPT !.estado = NextState[action[a].estado]] \in ActionRow
    BY <1>3, <2>1, <1>2 DEF ActionRow
  <2> QED BY <1>0, <1>5, <2>2, LoadSavedActionOK DEF LoadAdvance, SavedActionOps
<1>6. ASSUME LoadReject(s, a) \/ LoadInvalidate(s, a) \/ LoadRevive(s, a) PROVE IInv'
  <2>1. /\ [action[a] EXCEPT !.estado = "REJECTED"] \in ActionRow
        /\ [action[a] EXCEPT !.estado = "INVALIDATED"] \in ActionRow
        /\ [action[a] EXCEPT !.estado = "PENDING_SUPERVISOR"] \in ActionRow
    BY <1>2 DEF ActionRow, ActionState
  <2> QED BY <1>0, <1>6, <2>1, LoadSavedActionOK
             DEF LoadReject, LoadInvalidate, LoadRevive, SavedActionOps
<1>7. ASSUME NEW p \in Payroll, LoadRegister(s, a, p) \/ LoadBulk(s, a, p) PROVE IInv'
  BY <1>0, <1>7, LoadTargetOK DEF LoadRegister, LoadBulk, TargetOps
<1>8. ASSUME NEW p \in Payroll, LoadApprove(s, a, p) PROVE IInv'
  BY <1>0, <1>2, <1>8, LoadTargetOK DEF LoadApprove, TargetOps
<1>9. ASSUME NEW p \in Payroll, LoadEdit(s, a, p) \/ LoadAssociate(s, a, p) PROVE IInv'
  BY <1>0, <1>3, <1>9, LoadSavedActionOK DEF LoadEdit, LoadAssociate, SavedActionOps, ActionState
<1> QED BY <1>1, <1>4, <1>5, <1>6, <1>7, <1>8, <1>9

\* A request that goes on to the marks or to the flags.
LEMMA NextPcOK ==
    ASSUME IInv, NEW s \in Processes, NEW pc \in {"mark", "flag"},
           request[s].a \in Action, pc = "mark" => request[s].p \in Payroll,
           Step(s, [request[s] EXCEPT !.pc = pc])
    PROVE  RequestsOK'
<1> DEFINE old == request[s]
           r == [old EXCEPT !.pc = pc]
<1>1. old \in RequestRow
  BY InFlight
<1>2. r \in RequestRow
  BY <1>1 DEF RequestRow
<1>3. WellFormed(r)
  <2>1. r.pc = pc /\ r.p = old.p /\ r.a = old.a
    BY <1>1 DEF RequestRow
  <2> HIDE DEF r
  <2> QED BY <2>1 DEF WellFormed, Busy
<1>4. Step(s, r)
  OBVIOUS
<1> HIDE DEF r
<1> QED BY <1>2, <1>3, <1>4, StepOK DEF IInv

LEMMA ActionStepOK ==
    ASSUME IInv, NEW s \in Session, ActionStep(s)
    PROVE  IInv'
<1> DEFINE old == request[s]
<1>0. s \in Processes BY DEF Processes
<1>1. old \in RequestRow /\ WellFormed(old)
  BY <1>0, InFlight
<1>2. ASSUME old.op \in TargetOps, old.pc \in Busy PROVE old.p \in Payroll /\ old.a \in Action
  BY <1>1, <1>2 DEF WellFormed
<1>3. ASSUME ViewApprove(s) PROVE IInv'
  <2> DEFINE r == [old EXCEPT !.pc = "ready"]
  <2>1. old.op = "approve" /\ old.pc = "loaded" /\ Step(s, r)
        /\ UNCHANGED <<tables, cronTodo, faults>>
    BY <1>3 DEF ViewApprove, At
  <2>2. old.p \in Payroll /\ old.a \in Action
    BY <1>2, <2>1 DEF TargetOps, Busy
  <2>3. r \in RequestRow
    BY <1>1 DEF RequestRow
  <2>4. WellFormed(r)
    <3>1. r.op = old.op /\ r.pc = "ready" /\ r.p = old.p /\ r.a = old.a
      BY <1>1 DEF RequestRow
    <3> HIDE DEF r
    <3> QED BY <2>1, <2>2, <3>1 DEF WellFormed, PayrollOps, SavedByEntity, TargetOps,
                                     SavedActionOps, Busy
  <2> HIDE DEF r
  <2>5. RequestsOK'
    BY <1>0, <2>1, <2>3, <2>4, StepOK DEF IInv
  <2> QED BY <2>1, <2>5, KeepTables
<1>4. ASSUME ViewAction(s) PROVE IInv'
  <2> DEFINE r == [old EXCEPT !.pc = "ready", !.db = action[old.a]]
  <2>1. old.op \in SavedActionOps /\ old.pc = "loaded" /\ Step(s, r)
        /\ UNCHANGED <<tables, cronTodo, faults>>
    BY <1>4 DEF ViewAction
  <2>2. old.a \in Action /\ old.ent \in ActionRow
    BY <1>1, <2>1 DEF WellFormed, Busy
  <2>3. action[old.a] \in ActionRow
    BY <2>2 DEF IInv, TablesOK
  <2>4. r \in RequestRow
    BY <1>1, <2>3 DEF RequestRow
  <2>5. WellFormed(r)
    <3>1. r.op = old.op /\ r.pc = "ready" /\ r.a = old.a /\ r.ent = old.ent /\ r.db = action[old.a]
      BY <1>1 DEF RequestRow
    <3> HIDE DEF r
    <3> QED BY <2>1, <2>2, <2>3, <3>1 DEF WellFormed, PayrollOps, SavedByEntity, TargetOps,
                                           SavedActionOps, Busy
  <2> HIDE DEF r
  <2>6. RequestsOK'
    BY <1>0, <2>1, <2>4, <2>5, StepOK DEF IInv
  <2> QED BY <2>1, <2>6, KeepTables
<1>5. ASSUME CommitRegister(s) PROVE IInv'
  <2>1. old.p \in Payroll /\ old.a \in Action
    BY <1>2, <1>5 DEF CommitRegister, At, TargetOps, Busy
  <2>2. action' \in [Action -> ActionRow]
    BY <1>5, <2>1 DEF CommitRegister, Insert, IInv, TablesOK, ActionRow, ActionState
  <2>3. RequestsOK'
    BY <1>0, <1>5, FinishOK DEF CommitRegister, IInv
  <2> QED BY <1>5, <2>2, <2>3 DEF CommitRegister, Insert, KeepPayrollTables, IInv, TablesOK, JobsOK
<1>6. ASSUME CommitBulk(s) PROVE IInv'
  <2>1. old.p \in Payroll /\ old.a \in Action
    BY <1>2, <1>6 DEF CommitBulk, At, TargetOps, Busy
  <2>2. action' \in [Action -> ActionRow]
    BY <1>6, <2>1 DEF CommitBulk, Insert, IInv, TablesOK, ActionRow, ActionState
  <2>3. RequestsOK'
    BY <1>0, <1>6, <2>1, NextPcOK DEF CommitBulk
  <2> QED BY <1>6, <2>2, <2>3 DEF CommitBulk, Insert, KeepPayrollTables, IInv, TablesOK, JobsOK
<1>7. ASSUME CommitApprove(s) PROVE IInv'
  <2>1. old.p \in Payroll /\ old.a \in Action
    BY <1>2, <1>7 DEF CommitApprove, At, TargetOps, Busy
  <2>2. action' \in [Action -> ActionRow]
    BY <1>7, <2>1 DEF CommitApprove, IInv, TablesOK, ActionRow, ActionState
  <2>3. RequestsOK'
    BY <1>0, <1>7, <2>1, NextPcOK DEF CommitApprove
  <2> QED BY <1>7, <2>2, <2>3 DEF CommitApprove, KeepPayrollTables, IInv, TablesOK, JobsOK
<1>8. ASSUME CommitAction(s) PROVE IInv'
  <2>1. /\ old.op \in SavedActionOps /\ old.pc = "ready"
        /\ action' = [action EXCEPT ![old.a] = MergeAction(@, old.db, old.ent)]
        /\ KeepPayrollTables /\ UNCHANGED <<cronTodo, faults>>
    BY <1>8 DEF CommitAction
  <2>2. old.a \in Action /\ old.ent \in ActionRow /\ old.db \in ActionRow
    BY <1>1, <2>1 DEF WellFormed, Busy
  <2>3. action' \in [Action -> ActionRow]
    <3>1. MergeAction(action[old.a], old.db, old.ent) \in ActionRow
      BY <2>2, MergedActionRow DEF IInv, TablesOK
    <3> QED BY <2>1, <2>2, <3>1 DEF IInv, TablesOK
  <2>4. RequestsOK'
    <3>1. CASE FlagsAfter(old)
      <4> DEFINE r == [Idle EXCEPT !.op = old.op, !.pc = "flag", !.a = old.a]
      <4>1. Step(s, r)
        BY <1>8, <3>1 DEF CommitAction
      <4>2. r \in RequestRow
        BY <2>1, <2>2 DEF Idle, RequestRow, Operations, SavedActionOps
      <4>3. WellFormed(r)
        <5>1. r.pc = "flag" /\ r.a = old.a
          BY DEF Idle
        <5> HIDE DEF r
        <5> QED BY <2>2, <5>1 DEF WellFormed, Busy
      <4> HIDE DEF r
      <4> QED BY <1>0, <4>1, <4>2, <4>3, StepOK DEF IInv
    <3>2. CASE ~FlagsAfter(old)
      BY <1>0, <1>8, <3>2, FinishOK DEF CommitAction, IInv
    <3> QED BY <3>1, <3>2
  <2> QED BY <2>1, <2>3, <2>4 DEF KeepPayrollTables, IInv, TablesOK, JobsOK
<1>9. ASSUME MarkRevalidation(s) PROVE IInv'
  <2>1. old.p \in Payroll /\ old.a \in Action
    BY <1>1, <1>9 DEF MarkRevalidation, WellFormed
  <2>2. Owner[old.a] \in Employee
    BY <2>1, FunctionsAssumption
  <2>3. payroll' \in [Payroll -> PayrollRow]
    <3>1. payroll[old.p] \in PayrollRow
      BY <2>1 DEF IInv, TablesOK
    <3>2. \A row \in PayrollRow : [row EXCEPT !.requiresRecalculation = TRUE] \in PayrollRow
      BY Zenon DEF PayrollRow
    <3>3. [payroll[old.p] EXCEPT !.requiresRecalculation = TRUE] \in PayrollRow
      BY <3>1, <3>2
    <3> QED BY <1>9, <3>3 DEF MarkRevalidation, IInv, TablesOK
  <2>4. selection' \in [Payroll -> [Employee -> Mark]]
    <3> DEFINE marks == [selection[old.p] EXCEPT ![Owner[old.a]] = "reval"]
    <3>1. marks \in [Employee -> Mark]
      BY <2>1, <2>2 DEF IInv, TablesOK, Mark
    <3>2. selection' = selection \/ selection' = [selection EXCEPT ![old.p] = marks]
      BY <1>9 DEF MarkRevalidation
    <3> HIDE DEF marks
    <3> QED BY <3>1, <3>2 DEF IInv, TablesOK
  <2>5. RequestsOK'
    BY <1>0, <1>9, <2>1, NextPcOK DEF MarkRevalidation
  <2> QED BY <1>9, <2>3, <2>4, <2>5 DEF MarkRevalidation, IInv, TablesOK, JobsOK
<1>10. ASSUME FlagRecalculation(s) PROVE IInv'
  <2>1. ASSUME NEW q \in Payroll
        PROVE  [payroll[q] EXCEPT !.requiresRecalculation = TRUE] \in PayrollRow
               /\ payroll[q] \in PayrollRow
    BY DEF IInv, TablesOK, PayrollRow
  <2>2. payroll' \in [Payroll -> PayrollRow]
    BY <1>10, <2>1 DEF FlagRecalculation
  <2>3. RequestsOK'
    BY <1>0, <1>10, FinishOK DEF FlagRecalculation, IInv
  <2> QED BY <1>10, <2>2, <2>3 DEF FlagRecalculation, IInv, TablesOK, JobsOK
<1> QED
  BY <1>3, <1>4, <1>5, <1>6, <1>7, <1>8, <1>9, <1>10 DEF ActionStep
----------------------------------------------------------------------------
(* The whole system *)

LEMMA JobsKeepOK ==
    ASSUME IInv, Jobs
    PROVE  IInv'
<1>1. ASSUME NEW a \in Action
      PROVE  /\ [action[a] EXCEPT !.estado = "EXPIRED"] \in ActionRow
             /\ [action[a] EXCEPT !.estado = "INVALIDATED"] \in ActionRow
             /\ action[a] \in ActionRow
  BY DEF IInv, TablesOK, ActionRow, ActionState
<1>2. ASSUME NEW past \in SUBSET Action, Hygiene(past) PROVE IInv'
  <2>1. action' \in [Action -> ActionRow]
    BY <1>1, <1>2 DEF Hygiene
  <2> QED BY <1>2, <2>1 DEF Hygiene, KeepPayrollTables, IInv, TablesOK, RequestsOK, JobsOK
<1>3. ASSUME NEW e \in Employee, EmployeeContextUpdated(e) PROVE IInv'
  <2>1. action' \in [Action -> ActionRow]
    BY <1>1, <1>3 DEF EmployeeContextUpdated
  <2> QED BY <1>3, <2>1 DEF EmployeeContextUpdated, KeepPayrollTables, IInv, TablesOK, RequestsOK, JobsOK
<1> QED BY <1>2, <1>3 DEF Jobs

LEMMA EndOK ==
    ASSUME IInv, NEW s \in Processes, Reject(s) \/ Fail(s)
    PROVE  IInv'
<1>1. Step(s, Idle) /\ UNCHANGED tables /\ cronTodo' = cronTodo
  BY DEF Reject, Fail
<1>2. faults' \in Nat
  BY DEF Reject, Fail, IInv, JobsOK
<1>3. RequestsOK'
  BY <1>1, FinishOK DEF IInv
<1> QED BY <1>1, <1>2, <1>3 DEF IInv, TablesOK, JobsOK, tables

LEMMA InitOK ==
    ASSUME Init
    PROVE  IInv
<1>1. (CHOOSE x \in Slot : TRUE) \in Slot
  BY SetsAssumption
<1>2. TablesOK
  <2> DEFINE row == [estado |-> "NONE", versionLock |-> 0, requiresRecalculation |-> FALSE,
                     activo |-> FALSE, slot |-> CHOOSE x \in Slot : TRUE,
                     slotKey |-> Key(CHOOSE x \in Slot : TRUE),
                     isActiveSlot |-> FALSE]
  <2>1. row \in PayrollRow
    BY <1>1 DEF PayrollRow, PayrollState, SlotKey, Key
  <2>2. payroll = [p \in Payroll |-> row]
    BY DEF Init
  <2> HIDE DEF row
  <2>3. payroll \in [Payroll -> PayrollRow]
    BY <2>1, <2>2
  <2>4. action \in [Action -> ActionRow]
    BY DEF Init, ActionRow, ActionState
  <2> QED BY <2>3, <2>4 DEF Init, TablesOK, Mark
<1>3. RequestsOK
  BY IdleOK DEF Init, RequestsOK
<1> QED BY <1>2, <1>3 DEF Init, IInv, JobsOK

LEMMA NextOK ==
    ASSUME IInv, [Next]_vars
    PROVE  IInv'
<1>1. ASSUME NEW s \in Session, Serve(s) PROVE IInv'
  <2>1. s \in Processes
    BY DEF Processes
  <2> QED BY <1>1, <2>1, PayrollLoadOK, PayrollViewOK, PayrollCommitOK, ActionLoadOK, ActionStepOK,
             EndOK DEF Serve
<1>2. ASSUME NEW s \in Processes, Reassign(s) \/ Fail(s) PROVE IInv'
  BY <1>2, ReassignOK, EndOK
<1>3. ASSUME CronTick \/ CronNext PROVE IInv'
  BY <1>3, CronOK
<1>4. ASSUME Jobs PROVE IInv'
  BY <1>4, JobsKeepOK
<1>5. ASSUME UNCHANGED vars PROVE IInv'
  BY <1>5 DEF vars, IInv, TablesOK, RequestsOK, JobsOK
<1> QED BY <1>1, <1>2, <1>3, <1>4, <1>5 DEF Next

\* The invariant is inductive.
THEOREM Inductive == Spec => []IInv
<1>1. Init => IInv
  BY InitOK
<1>2. IInv /\ [Next]_vars => IInv'
  BY NextOK
<1> QED BY <1>1, <1>2, PTL DEF Spec

\* Every table and every request keeps its type: no interleaving of requests
\* leaves an action linked to a payroll that is no payroll, a mark outside the
\* three, or a request that goes on with an entity it did not read.
THEOREM TypeCorrect == Spec => []TypeOK
<1>1. IInv => TypeOK
  BY DEF IInv, TablesOK, RequestsOK, JobsOK, TypeOK
<1> QED BY <1>1, Inductive, PTL
----------------------------------------------------------------------------
(* Nothing but the compare-and-set of apply makes an applied payroll *)

BecomesApplied(p) == payroll[p].estado # "APLICADA" /\ payroll'[p].estado = "APLICADA"

\* Saves write the state the table has or an entity that is not applied.
LEMMA SaveAppliesNothing ==
    ASSUME IInv, NEW s \in Processes, NEW p \in Payroll,
           request[s].op \in PayrollOps \ {"apply"}, request[s].pc = "ready",
           payroll' = [payroll EXCEPT ![request[s].p] = Merged(s)]
    PROVE  ~BecomesApplied(p)
<1>1. /\ request[s].p \in Payroll
      /\ Merged(s).estado = "APLICADA" => payroll[request[s].p].estado = "APLICADA"
  BY MergedOK
<1>2. payroll'[p] = IF p = request[s].p THEN Merged(s) ELSE payroll[p]
  BY <1>1 DEF IInv, TablesOK
<1> QED BY <1>1, <1>2 DEF BecomesApplied

LEMMA CommitAppliesByCAS ==
    ASSUME IInv, NEW s \in Session, PayrollCommit(s), NEW p \in Payroll, BecomesApplied(p)
    PROVE  payroll[p].estado = "VERIFICADA" /\ ~payroll[p].requiresRecalculation
<1> DEFINE r == request[s]
           ByCAS == payroll[p].estado = "VERIFICADA" /\ ~payroll[p].requiresRecalculation
<1>0. s \in Processes BY DEF Processes
<1>1. r \in RequestRow /\ WellFormed(r)
  BY <1>0, InFlight
<1>2. ASSUME NEW q \in Payroll, CommitCreate(s, q) PROVE ByCAS
  <2>1. r.ent.estado # "APLICADA"
    BY <1>1, <1>2 DEF CommitCreate, At, WellFormed, Unapplied
  <2>2. payroll'[p] = IF p = q THEN r.ent ELSE payroll[p]
    BY <1>2 DEF CommitCreate, IInv, TablesOK
  <2> QED BY <2>1, <2>2 DEF BecomesApplied
<1>3. ASSUME CommitSave(s) PROVE ByCAS
  BY <1>0, <1>3, SaveAppliesNothing DEF CommitSave, PayrollOps, SavedByEntity
<1>4. ASSUME CommitProcess(s) PROVE ByCAS
  BY <1>0, <1>4, SaveAppliesNothing DEF CommitProcess, At, PayrollOps
<1>5. ASSUME CommitInactivate(s) PROVE ByCAS
  BY <1>0, <1>5, SaveAppliesNothing DEF CommitInactivate, At, PayrollOps
<1>6. ASSUME CommitReactivate(s) PROVE ByCAS
  BY <1>0, <1>6, SaveAppliesNothing DEF CommitReactivate, At, PayrollOps
<1>7. ASSUME CommitApply(s) PROVE ByCAS
  <2>1. StillAsLoaded(s) /\ payroll' = [payroll EXCEPT ![r.p] = Applied(payroll[r.p])]
    BY <1>7 DEF CommitApply
  <2>2. CASE p = r.p
    BY <2>1, <2>2 DEF StillAsLoaded
  <2>3. CASE p # r.p
    BY <2>1, <2>3 DEF BecomesApplied, IInv, TablesOK
  <2> QED BY <2>2, <2>3
<1> QED BY <1>2, <1>3, <1>4, <1>5, <1>6, <1>7 DEF PayrollCommit

\* The flags that the approval of an action raises do not touch the state.
LEMMA ActionStepAppliesNothing ==
    ASSUME IInv, NEW s \in Session, ActionStep(s), NEW p \in Payroll
    PROVE  ~BecomesApplied(p)
<1>1. payroll[p] \in PayrollRow
  BY DEF IInv, TablesOK
<1>2. \A row \in PayrollRow : [row EXCEPT !.requiresRecalculation = TRUE].estado = row.estado
  BY DEF PayrollRow
<1>3. ASSUME MarkRevalidation(s) PROVE payroll'[p].estado = payroll[p].estado
  <2>1. \/ payroll' = payroll
        \/ payroll' = [payroll EXCEPT ![request[s].p] =
                          [payroll[request[s].p] EXCEPT !.requiresRecalculation = TRUE]]
    BY <1>3 DEF MarkRevalidation
  <2>2. \/ payroll'[p] = payroll[p]
        \/ payroll'[p] = [payroll[p] EXCEPT !.requiresRecalculation = TRUE]
    BY <2>1 DEF IInv, TablesOK
  <2> QED BY <1>1, <1>2, <2>2
<1>4. ASSUME FlagRecalculation(s) PROVE payroll'[p].estado = payroll[p].estado
  <2>1. \/ payroll'[p] = payroll[p]
        \/ payroll'[p] = [payroll[p] EXCEPT !.requiresRecalculation = TRUE]
    BY <1>4 DEF FlagRecalculation
  <2> QED BY <1>1, <1>2, <2>1
<1>5. \/ UNCHANGED payroll \/ MarkRevalidation(s) \/ FlagRecalculation(s)
  BY DEF ActionStep, ViewApprove, ViewAction, CommitRegister, CommitBulk, CommitApprove,
         CommitAction, Insert, KeepPayrollTables, tables
<1> QED BY <1>3, <1>4, <1>5 DEF BecomesApplied

LEMMA OthersKeepPayroll ==
    /\ \A s \in Session : PayrollLoad(s) => UNCHANGED payroll
    /\ \A s \in Session : PayrollView(s) => UNCHANGED payroll
    /\ \A s \in Session : ActionLoad(s) => UNCHANGED payroll
    /\ \A s \in Processes : Reassign(s) \/ Reject(s) \/ Fail(s) => UNCHANGED payroll
    /\ CronTick \/ CronNext \/ Jobs => UNCHANGED payroll
<1>1. ASSUME NEW s \in Session, PayrollLoad(s) PROVE UNCHANGED payroll
  BY <1>1 DEF PayrollLoad, LoadCreate, LoadVerify, LoadReopen, LoadProcess, LoadApply, LoadInactivate,
              LoadReactivate, LoadUpdate, LoadSelection, Load, tables
<1>2. ASSUME NEW s \in Session, PayrollView(s) PROVE UNCHANGED payroll
  BY <1>2 DEF PayrollView, ViewCreate, ViewUpdate, ViewVerify, ViewReopen, ViewSelection, ViewProcess,
              ViewApply, ViewInactivate, ViewReactivate, tables
<1>3. ASSUME NEW s \in Session, ActionLoad(s) PROVE UNCHANGED payroll
  BY <1>3 DEF ActionLoad, CreateDraft, Insert, KeepPayrollTables, LoadAdvance, LoadReject,
              LoadInvalidate, LoadRevive, LoadRegister, LoadBulk, LoadApprove, LoadEdit,
              LoadAssociate, Load, tables
<1>4. ASSUME NEW s \in Processes, Reassign(s) \/ Reject(s) \/ Fail(s) PROVE UNCHANGED payroll
  BY <1>4 DEF Reassign, ViewOrphans, CommitOrphans, SkipOrphans, Reject, Fail, tables
<1>5. ASSUME CronTick \/ CronNext \/ Jobs PROVE UNCHANGED payroll
  BY <1>5 DEF CronTick, CronNext, Jobs, Hygiene, EmployeeContextUpdated, KeepPayrollTables, tables
<1> QED BY <1>1, <1>2, <1>3, <1>4, <1>5

\* Whatever requests interleave, a payroll becomes APLICADA only in a step that
\* finds it VERIFICADA with nothing left to recalculate: no stale entity that
\* another handler saves can apply it.
THEOREM AppliedThroughCAS == Spec => AppliedOnlyThroughCAS
<1>1. ASSUME IInv, [Next]_vars, NEW p \in Payroll, BecomesApplied(p)
      PROVE  payroll[p].estado = "VERIFICADA" /\ ~payroll[p].requiresRecalculation
  <2> DEFINE ByCAS == payroll[p].estado = "VERIFICADA" /\ ~payroll[p].requiresRecalculation
  <2>1. payroll' # payroll
    BY <1>1 DEF BecomesApplied
  <2>2. ASSUME NEW s \in Session, Serve(s) PROVE ByCAS
    <3>1. s \in Processes
      BY DEF Processes
    <3>2. PayrollCommit(s) \/ ActionStep(s)
      BY <2>1, <2>2, <3>1, OthersKeepPayroll DEF Serve
    <3> QED BY <1>1, <3>2, CommitAppliesByCAS, ActionStepAppliesNothing
  <2>3. \E s \in Session : Serve(s)
    BY <1>1, <2>1, OthersKeepPayroll DEF Next, vars
  <2> QED BY <2>2, <2>3
<1>2. IInv /\ [Next]_vars
      => [\A p \in Payroll : payroll[p].estado # "APLICADA" /\ payroll'[p].estado = "APLICADA" =>
             payroll[p].estado = "VERIFICADA" /\ ~payroll[p].requiresRecalculation]_vars
  BY <1>1 DEF BecomesApplied
<1>3. []IInv /\ [][Next]_vars => AppliedOnlyThroughCAS
  BY <1>2, PTL DEF AppliedOnlyThroughCAS
<1> QED BY <1>3, Inductive, PTL DEF Spec
----------------------------------------------------------------------------
(* The unique index, while payrolls are saved side by side *)

Saves == PayrollOps \ {"apply"}

Lives(row) == row.estado \notin {"NONE", "APLICADA"}

\* The key of a living row is that of its slot, with the suffix while it is inactive;
\* activo and is_active_slot change together.
KeyOf(row) == IF row.activo THEN Key(row.slot) ELSE [slot |-> row.slot, tagged |-> TRUE]

Keyed(row) == Lives(row) => row.slotKey = KeyOf(row) /\ (row.activo <=> row.isActiveSlot)

Indexed ==
    \A p, q \in Payroll : Exists(p) /\ Exists(q) /\ SameKey(payroll[p], payroll[q]) => p = q

\* An update moves an active payroll; the others save a payroll where they found it.
Tied(op, ent, row) == IF op = "update" THEN ent.activo /\ row.activo ELSE ent.slot = row.slot

\* The entities in memory, and the rows they are compared with, are keyed too, so that
\* what save() merges takes the three columns from one of them.
Carries(r) ==
    /\ r.op = "create" /\ r.pc = "new" => Lives(r.ent) /\ Keyed(r.ent)
    /\ r.op \in Saves /\ r.pc \in Busy => /\ Lives(r.ent) /\ Keyed(r.ent)
                                          /\ Lives(payroll[r.p]) /\ Tied(r.op, r.ent, payroll[r.p])
    /\ r.op \in Saves /\ r.pc = "ready" => /\ Lives(r.db) /\ Keyed(r.db)
                                           /\ r.db.slot = payroll[r.p].slot
                                           /\ r.op = "update" => r.db.activo

RaceInv ==
    /\ \A p \in Payroll : Keyed(payroll[p])
    /\ Indexed
    /\ \A s \in Session : Carries(request[s])

\* No request saves a payroll while another one applies it.
AppliesApart == \A s, t \in Session : CommitApply(s) => s = t \/ request[t].op \notin Saves

LEMMA SessionMoves ==
    ASSUME IInv, NEW s \in Session, NEW r, Step(s, r)
    PROVE  request'[s] = r /\ \A t \in Session : t # s => request'[t] = request[t]
  BY SessionIsProcess DEF Step, IInv, RequestsOK

Carrying(r) == r.op \in Saves /\ r.pc \in Busy

Unladen(r) == r.pc # "new" /\ ~Carrying(r)

LEMMA UnladenCarries ==
    ASSUME NEW r, Unladen(r) PROVE Carries(r) /\ Carries(r)'
  BY DEF Unladen, Carrying, Carries, Busy

\* What a held payroll must not lose while its request goes on.
Steady(r) ==
    Carrying(r) => /\ payroll'[r.p].slot = payroll[r.p].slot
                   /\ r.op = "update" => (payroll[r.p].activo <=> payroll'[r.p].activo)

LEMMA SteadyCarries ==
    ASSUME NEW r, Carries(r), Steady(r), Carrying(r) => Lives(payroll'[r.p])
    PROVE  Carries(r)'
<1>1. r.op = "create" /\ r.pc = "new" => Lives(r.ent) /\ Keyed(r.ent)
  BY DEF Carries
<1>2. Carrying(r) => /\ Lives(r.ent) /\ Keyed(r.ent) /\ Lives(payroll'[r.p])
                     /\ Tied(r.op, r.ent, payroll'[r.p])
  <2>1. Carrying(r) => Lives(r.ent) /\ Keyed(r.ent) /\ Tied(r.op, r.ent, payroll[r.p])
    BY DEF Carries, Carrying
  <2> QED
    BY <2>1 DEF Steady, Tied
<1>3. Carrying(r) /\ r.pc = "ready" => /\ Lives(r.db) /\ Keyed(r.db)
                                       /\ r.db.slot = payroll'[r.p].slot
                                       /\ r.op = "update" => r.db.activo
  BY DEF Carries, Carrying, Steady
<1>4. /\ Lives(r.ent)' <=> Lives(r.ent)
      /\ Lives(r.db)' <=> Lives(r.db)
  BY DEF Lives
<1>5. /\ Keyed(r.ent)' <=> Keyed(r.ent)
      /\ Keyed(r.db)' <=> Keyed(r.db)
  BY <1>4 DEF Keyed, KeyOf, Key
<1>6. Carrying(r) => Lives(payroll[r.p])' /\ Tied(r.op, r.ent, payroll[r.p])'
  BY <1>2 DEF Lives, Tied
<1> QED
  BY <1>1, <1>2, <1>3, <1>4, <1>5, <1>6 DEF Carries, Carrying, Busy

\* A step after which the living rows live, with their keys.
LEMMA RowsRace ==
    ASSUME IInv, RaceInv, Indexed',
           \A p \in Payroll : Keyed(payroll'[p]) /\ (Lives(payroll[p]) => Lives(payroll'[p])),
           \A s \in Session : Carries(request[s])' \/ (request'[s] = request[s] /\ Steady(request[s]))
    PROVE  RaceInv'
<1>1. ASSUME NEW s \in Session PROVE Carries(request[s])'
  <2>1. CASE request'[s] = request[s] /\ Steady(request[s])
    <3>1. PICK r : r = request[s]
      OBVIOUS
    <3>2. Carries(r) /\ WellFormed(r) /\ Steady(r)
      BY <2>1, <3>1, InFlight, SessionIsProcess DEF RaceInv
    <3>3. Carrying(r) => Lives(payroll'[r.p])
      BY <3>2 DEF WellFormed, Saves, Carrying, Carries
    <3>4. Carries(r)'
      BY <3>2, <3>3, SteadyCarries
    <3> QED
      BY <2>1, <3>1, <3>4
  <2> QED
    BY <2>1
<1>2. \A p \in Payroll : Keyed(payroll[p])'
  BY DEF Keyed, KeyOf, Key, Lives
<1> QED
  BY <1>1, <1>2 DEF RaceInv

\* A step that at most asks for recalculations.
LEMMA QuietRaces ==
    ASSUME IInv, RaceInv,
           \A p \in Payroll :
              payroll'[p] \in {payroll[p], [payroll[p] EXCEPT !.requiresRecalculation = TRUE]},
           \A s \in Session : request'[s] = request[s] \/ Unladen(request'[s])
    PROVE  RaceInv'
<1>1. ASSUME NEW p \in Payroll
      PROVE  /\ payroll'[p].estado = payroll[p].estado /\ payroll'[p].slot = payroll[p].slot
             /\ payroll'[p].activo = payroll[p].activo /\ payroll'[p].slotKey = payroll[p].slotKey
             /\ payroll'[p].isActiveSlot = payroll[p].isActiveSlot
  <2>1. payroll[p] \in PayrollRow
    BY DEF IInv, TablesOK
  <2>2. payroll'[p] \in {payroll[p], [payroll[p] EXCEPT !.requiresRecalculation = TRUE]}
    OBVIOUS
  <2> QED
    BY <2>1, <2>2 DEF PayrollRow
<1>2. Indexed'
  BY <1>1 DEF RaceInv, Indexed, Exists, SameKey
<1>3. \A p \in Payroll : Keyed(payroll'[p]) /\ (Lives(payroll[p]) => Lives(payroll'[p]))
  BY <1>1 DEF RaceInv, Keyed, KeyOf, Lives
<1>4. ASSUME NEW s \in Session
      PROVE  Carries(request[s])' \/ (request'[s] = request[s] /\ Steady(request[s]))
  <2>1. CASE Unladen(request'[s])
    <3>1. PICK r : r = request'[s]
      OBVIOUS
    <3>2. Carries(r)'
      BY <2>1, <3>1, UnladenCarries
    <3> QED
      BY <3>1, <3>2
  <2>2. CASE request'[s] = request[s]
    <3>1. Carrying(request[s]) => request[s].p \in Payroll
      BY InFlight, SessionIsProcess DEF WellFormed, Saves, Carrying
    <3> QED
      BY <1>1, <2>2, <3>1 DEF Steady
  <2> QED
    BY <2>1, <2>2
<1> QED
  BY <1>2, <1>3, <1>4, RowsRace

\* A request that has just read its entity.
LEMMA LoadRaces ==
    ASSUME IInv, RaceInv, NEW s \in Session, NEW r, Step(s, r), UNCHANGED payroll, Carries(r)
    PROVE  RaceInv'
<1>1. payroll' = payroll
  OBVIOUS
<1>2. ASSUME NEW t \in Session PROVE Carries(request[t])'
  <2>1. Carries(r)'
    BY <1>1 DEF Carries, Lives, Keyed, KeyOf, Key, Tied
  <2>2. CASE t = s
    BY <2>1, <2>2, SessionMoves
  <2>3. CASE t # s
    <3>1. request'[t] = request[t]
      BY <2>3, SessionMoves
    <3> QED
      BY <1>1, <3>1 DEF RaceInv, Carries, Lives, Keyed, KeyOf, Key, Tied
  <2> QED
    BY <2>2, <2>3
<1> QED
  BY <1>1, <1>2 DEF RaceInv, Keyed, KeyOf, Key, Lives, Indexed, Exists

LEMMA LoadedCarries ==
    ASSUME NEW op, NEW p, NEW a, NEW ent, NEW emps,
           op \in Saves => /\ Lives(ent) /\ Keyed(ent)
                           /\ Lives(payroll[p]) /\ Tied(op, ent, payroll[p])
    PROVE  /\ Carries([Idle EXCEPT !.op = op, !.pc = "loaded", !.p = p, !.a = a, !.ent = ent])
           /\ Carries([Idle EXCEPT !.op = op, !.pc = "loaded", !.p = p, !.emps = emps, !.ent = ent])
<1>1. ASSUME NEW r, r.op = op, r.pc = "loaded", r.p = p, r.ent = ent PROVE Carries(r)
  BY <1>1 DEF Carries, Busy
<1>2. [Idle EXCEPT !.op = op, !.pc = "loaded", !.p = p, !.a = a, !.ent = ent].op = op
  BY DEF Idle
<1> DEFINE x == [Idle EXCEPT !.op = op, !.pc = "loaded", !.p = p, !.a = a, !.ent = ent]
           y == [Idle EXCEPT !.op = op, !.pc = "loaded", !.p = p, !.emps = emps, !.ent = ent]
<1>3. /\ x.op = op /\ x.pc = "loaded" /\ x.p = p /\ x.ent = ent
      /\ y.op = op /\ y.pc = "loaded" /\ y.p = p /\ y.ent = ent
  BY DEF Idle
<1> HIDE DEF x, y
<1>4. Carries(x) /\ Carries(y)
  BY <1>1, <1>3
<1> QED
  BY <1>4 DEF x, y

LEMMA LoadOfRow ==
    ASSUME IInv, RaceInv, NEW s \in Session, NEW op, NEW p, NEW a, NEW ent, Load(s, op, p, a, ent),
           op \in Saves => /\ Lives(ent) /\ Keyed(ent)
                           /\ Lives(payroll[p]) /\ Tied(op, ent, payroll[p])
    PROVE  RaceInv'
<1>1. PICK r : r = [Idle EXCEPT !.op = op, !.pc = "loaded", !.p = p, !.a = a, !.ent = ent]
  OBVIOUS
<1>2. Carries(r)
  BY <1>1, LoadedCarries
<1>3. Step(s, r) /\ UNCHANGED payroll
  BY <1>1 DEF Load, tables
<1> QED
  BY <1>2, <1>3, LoadRaces

LEMMA PayrollLoadRaces ==
    ASSUME IInv, RaceInv, NEW s \in Session, PayrollLoad(s)
    PROVE  RaceInv'
<1>1. \A p \in Payroll : payroll[p] \in PayrollRow /\ Keyed(payroll[p])
  BY DEF IInv, TablesOK, RaceInv
<1>a. \A p \in Payroll : /\ payroll[p].slotKey \in SlotKey
                          /\ payroll[p].activo \in BOOLEAN /\ payroll[p].isActiveSlot \in BOOLEAN
  BY <1>1 DEF PayrollRow
<1>b. \A key \in SlotKey : [key EXCEPT !.tagged = TRUE] = [slot |-> key.slot, tagged |-> TRUE]
  <2>1. \A x, y \in SlotKey : x.slot = y.slot /\ x.tagged = y.tagged => x = y
    BY DEF SlotKey
  <2>2. ASSUME NEW key \in SlotKey
        PROVE  /\ [key EXCEPT !.tagged = TRUE] \in SlotKey
               /\ [slot |-> key.slot, tagged |-> TRUE] \in SlotKey
               /\ [key EXCEPT !.tagged = TRUE].slot = key.slot
               /\ [key EXCEPT !.tagged = TRUE].tagged = TRUE
    BY DEF SlotKey
  <2> QED
    BY <2>1, <2>2
<1>2. ASSUME NEW slot \in Slot, LoadCreate(s, slot) PROVE RaceInv'
  <2>1. PICK ent : ent = [estado |-> "ABIERTA", versionLock |-> 0, requiresRecalculation |-> FALSE,
                          activo |-> TRUE, slot |-> slot, slotKey |-> Key(slot),
                          isActiveSlot |-> TRUE]
    OBVIOUS
  <2>2. Lives(ent) /\ Keyed(ent)
    BY <2>1 DEF Lives, Keyed, KeyOf
  <2>3. PICK r : r = [Idle EXCEPT !.op = "create", !.pc = "new", !.ent = ent]
    OBVIOUS
  <2>4. Step(s, r) /\ UNCHANGED payroll
    BY <1>2, <2>1, <2>3 DEF LoadCreate, tables
  <2>5. r.pc = "new" /\ r.ent = ent
    BY <2>3 DEF Idle
  <2>6. Carries(r)
    BY <2>2, <2>5 DEF Carries, Busy
  <2> QED
    BY <2>4, <2>6, LoadRaces
<1>3. ASSUME NEW p \in Payroll, NEW op, NEW ent, Load(s, op, p, NoAction, ent),
             Lives(ent), Keyed(ent), Lives(payroll[p]), Tied(op, ent, payroll[p])
      PROVE  RaceInv'
  BY <1>3, LoadOfRow
<1>4. ASSUME NEW p \in Payroll, LoadVerify(s, p) PROVE RaceInv'
  <2>1. PICK ent : ent = [payroll[p] EXCEPT !.estado = "VERIFICADA", !.versionLock = Bump(p, 1)]
    OBVIOUS
  <2>a. ent.estado \notin {"NONE", "APLICADA"} /\ Lives(payroll[p])
    BY <1>1, <1>4, <2>1 DEF Lives, PayrollRow, LoadVerify
  <2>b. /\ payroll[p].slotKey = KeyOf(payroll[p])
        /\ (payroll[p].activo <=> payroll[p].isActiveSlot)
    BY <1>1, <2>a DEF Keyed
  <2>2. Lives(ent) /\ Keyed(ent) /\ Lives(payroll[p]) /\ Tied("verify", ent, payroll[p])
    BY <1>1, <1>4, <2>1, <1>a, <2>a, <2>b DEF Lives, Keyed, KeyOf, Key, Tied, PayrollRow, LoadVerify
  <2>3. Load(s, "verify", p, NoAction, ent)
    BY <1>4, <2>1 DEF LoadVerify
  <2> QED
    BY <1>3, <2>2, <2>3
<1>5. ASSUME NEW p \in Payroll, LoadReopen(s, p) PROVE RaceInv'
  <2>1. PICK ent : ent = [payroll[p] EXCEPT !.estado = "ABIERTA", !.versionLock = Bump(p, 1)]
    OBVIOUS
  <2>a. ent.estado \notin {"NONE", "APLICADA"} /\ Lives(payroll[p])
    BY <1>1, <1>5, <2>1 DEF Lives, PayrollRow, LoadReopen
  <2>b. /\ payroll[p].slotKey = KeyOf(payroll[p])
        /\ (payroll[p].activo <=> payroll[p].isActiveSlot)
    BY <1>1, <2>a DEF Keyed
  <2>2. Lives(ent) /\ Keyed(ent) /\ Lives(payroll[p]) /\ Tied("reopen", ent, payroll[p])
    BY <1>1, <1>5, <2>1, <1>a, <2>a, <2>b DEF Lives, Keyed, KeyOf, Key, Tied, PayrollRow, LoadReopen
  <2>3. Load(s, "reopen", p, NoAction, ent)
    BY <1>5, <2>1 DEF LoadReopen
  <2> QED
    BY <1>3, <2>2, <2>3
<1>6. ASSUME NEW p \in Payroll, LoadProcess(s, p) PROVE RaceInv'
  <2>1. PICK ent : ent = [payroll[p] EXCEPT !.estado = "EN_PROCESO",
                                            !.requiresRecalculation = FALSE,
                                            !.versionLock = Bump(p, 2)]
    OBVIOUS
  <2>a. ent.estado \notin {"NONE", "APLICADA"} /\ Lives(payroll[p])
    BY <1>1, <1>6, <2>1 DEF Lives, PayrollRow, LoadProcess
  <2>b. /\ payroll[p].slotKey = KeyOf(payroll[p])
        /\ (payroll[p].activo <=> payroll[p].isActiveSlot)
    BY <1>1, <2>a DEF Keyed
  <2>2. Lives(ent) /\ Keyed(ent) /\ Lives(payroll[p]) /\ Tied("process", ent, payroll[p])
    BY <1>1, <1>6, <2>1, <1>a, <2>a, <2>b DEF Lives, Keyed, KeyOf, Key, Tied, PayrollRow, LoadProcess
  <2>3. Load(s, "process", p, NoAction, ent)
    BY <1>6, <2>1 DEF LoadProcess
  <2> QED
    BY <1>3, <2>2, <2>3
<1>7. ASSUME NEW p \in Payroll, LoadApply(s, p) PROVE RaceInv'
  BY <1>7, LoadOfRow DEF LoadApply, Saves
<1>8. ASSUME NEW p \in Payroll, LoadInactivate(s, p) PROVE RaceInv'
  <2>1. PICK ent : ent = [payroll[p] EXCEPT !.estado = "INACTIVA", !.activo = FALSE,
                                            !.slotKey = [@ EXCEPT !.tagged = TRUE],
                                            !.isActiveSlot = FALSE,
                                            !.versionLock = Bump(p, 1)]
    OBVIOUS
  <2>a. ent.estado \notin {"NONE", "APLICADA"} /\ Lives(payroll[p])
    BY <1>1, <1>8, <2>1 DEF Lives, PayrollRow, LoadInactivate, Operational
  <2>b. /\ payroll[p].slotKey = KeyOf(payroll[p])
        /\ (payroll[p].activo <=> payroll[p].isActiveSlot)
    BY <1>1, <2>a DEF Keyed
  <2>2. Lives(ent) /\ Keyed(ent) /\ Lives(payroll[p]) /\ Tied("inactivate", ent, payroll[p])
    BY <1>1, <1>8, <2>1, <1>a, <1>b, <2>a, <2>b DEF Lives, Keyed, KeyOf, Key, Tied, PayrollRow, LoadInactivate
  <2>3. Load(s, "inactivate", p, NoAction, ent)
    BY <1>8, <2>1 DEF LoadInactivate
  <2> QED
    BY <1>3, <2>2, <2>3
<1>9. ASSUME NEW p \in Payroll, LoadReactivate(s, p) PROVE RaceInv'
  <2>1. PICK ent : ent = [payroll[p] EXCEPT !.estado = "ABIERTA", !.activo = TRUE,
                                            !.slotKey = Key(payroll[p].slot),
                                            !.isActiveSlot = TRUE,
                                            !.versionLock = Bump(p, 1)]
    OBVIOUS
  <2>a. ent.estado \notin {"NONE", "APLICADA"} /\ Lives(payroll[p])
    BY <1>1, <1>9, <2>1 DEF Lives, PayrollRow, LoadReactivate
  <2>b. /\ payroll[p].slotKey = KeyOf(payroll[p])
        /\ (payroll[p].activo <=> payroll[p].isActiveSlot)
    BY <1>1, <2>a DEF Keyed
  <2>2. Lives(ent) /\ Keyed(ent) /\ Lives(payroll[p]) /\ Tied("reactivate", ent, payroll[p])
    BY <1>1, <1>9, <2>1, <1>a, <2>a, <2>b DEF Lives, Keyed, KeyOf, Key, Tied, PayrollRow, LoadReactivate
  <2>3. Load(s, "reactivate", p, NoAction, ent)
    BY <1>9, <2>1 DEF LoadReactivate
  <2> QED
    BY <1>3, <2>2, <2>3
<1>10. ASSUME NEW p \in Payroll, NEW slot \in Slot, LoadUpdate(s, p, slot) PROVE RaceInv'
  <2>1. PICK ent : ent = [payroll[p] EXCEPT !.slot = slot, !.slotKey = Key(slot),
                                            !.versionLock = Bump(p, 1)]
    OBVIOUS
  <2>a. ent.estado \notin {"NONE", "APLICADA"} /\ Lives(payroll[p])
    BY <1>1, <1>10, <2>1 DEF Lives, PayrollRow, LoadUpdate
  <2>b. /\ payroll[p].slotKey = KeyOf(payroll[p])
        /\ (payroll[p].activo <=> payroll[p].isActiveSlot)
    BY <1>1, <2>a DEF Keyed
  <2>2. Lives(ent) /\ Keyed(ent) /\ Lives(payroll[p]) /\ Tied("update", ent, payroll[p])
    BY <1>1, <1>10, <2>1, <1>a, <2>a, <2>b DEF Lives, Keyed, KeyOf, Key, Tied, PayrollRow, LoadUpdate
  <2>3. Load(s, "update", p, NoAction, ent)
    BY <1>10, <2>1 DEF LoadUpdate
  <2> QED
    BY <1>3, <2>2, <2>3
<1>11. ASSUME NEW p \in Payroll, NEW op \in {"include", "exclude"}, NEW emps,
              LoadSelection(s, p, op, emps)
       PROVE  RaceInv'
  <2>1. PICK ent : ent = [payroll[p] EXCEPT !.requiresRecalculation = TRUE,
                                            !.versionLock = Bump(p, 1)]
    OBVIOUS
  <2>a. ent.estado \notin {"NONE", "APLICADA"} /\ Lives(payroll[p])
    BY <1>1, <1>11, <2>1 DEF Lives, PayrollRow, LoadSelection, Exists
  <2>b. /\ payroll[p].slotKey = KeyOf(payroll[p])
        /\ (payroll[p].activo <=> payroll[p].isActiveSlot)
    BY <1>1, <2>a DEF Keyed
  <2>2. Lives(ent) /\ Keyed(ent) /\ Lives(payroll[p]) /\ Tied(op, ent, payroll[p])
    BY <1>1, <1>11, <2>1, <1>a, <2>a, <2>b DEF Lives, Keyed, KeyOf, Key, Tied, PayrollRow, LoadSelection
  <2>3. PICK r : r = [Idle EXCEPT !.op = op, !.pc = "loaded", !.p = p, !.emps = emps, !.ent = ent]
    OBVIOUS
  <2>4. Step(s, r) /\ UNCHANGED payroll
    BY <1>11, <2>1, <2>3 DEF LoadSelection, tables
  <2>5. Carries(r)
    BY <2>2, <2>3, LoadedCarries
  <2> QED
    BY <2>4, <2>5, LoadRaces
<1> QED
  BY <1>2, <1>4, <1>5, <1>6, <1>7, <1>8, <1>9, <1>10, <1>11 DEF PayrollLoad

\* A view goes on with the entity of the load and the row as it is now.
LEMMA ViewGoesOn ==
    ASSUME IInv, NEW s \in Session, PayrollView(s)
    PROVE  \E r : /\ Step(s, r) /\ UNCHANGED payroll /\ r = request'[s]
                  /\ request[s].pc = "loaded" /\ request[s].op \in PayrollOps
                  /\ r.op = request[s].op /\ r.p = request[s].p /\ r.ent = request[s].ent
                  /\ r.pc = "ready"
                  /\ request[s].op # "apply" => r.db = payroll[request[s].p]
<1> DEFINE old == request[s]
<1>a. old \in RequestRow
  BY SessionIsProcess, InFlight
<1>b. PICK r : r = request'[s]
  OBVIOUS
<1>1. \E x : Step(s, x)
  BY DEF PayrollView, ViewCreate, ViewUpdate, ViewVerify, ViewReopen, ViewSelection, ViewProcess, ViewApply,
         ViewInactivate, ViewReactivate, ReadyToSave
<1>2. Step(s, r)
  BY <1>b, <1>1, SessionMoves
<1>3. UNCHANGED payroll /\ old.pc = "loaded" /\ old.op \in PayrollOps
  BY DEF PayrollView, ViewCreate, ViewUpdate, ViewVerify, ViewReopen, ViewSelection, ViewProcess, ViewApply,
         ViewInactivate, ViewReactivate, tables, At, PayrollOps, SavedByEntity
<1>4. ASSUME ReadyToSave(s)
      PROVE  r.op = old.op /\ r.pc = "ready" /\ r.p = old.p /\ r.ent = old.ent /\ r.db = payroll[old.p]
  <2>1. r = [old EXCEPT !.pc = "ready", !.db = payroll[old.p]]
    BY <1>b, <1>4, SessionMoves DEF ReadyToSave
  <2> QED
    BY <1>a, <2>1 DEF RequestRow
<1>5. ASSUME ViewProcess(s)
      PROVE  r.op = old.op /\ r.pc = "ready" /\ r.p = old.p /\ r.ent = old.ent /\ r.db = payroll[old.p]
  <2>1. PICK acts, fresh, emps :
           Step(s, [old EXCEPT !.pc = "ready", !.db = payroll[old.p], !.acts = acts,
                               !.fresh = fresh, !.emps = emps])
    BY <1>5 DEF ViewProcess
  <2>2. r = [old EXCEPT !.pc = "ready", !.db = payroll[old.p], !.acts = acts,
                        !.fresh = fresh, !.emps = emps]
    BY <1>b, <2>1, SessionMoves
  <2> QED
    BY <1>a, <2>2 DEF RequestRow
<1>6. ASSUME ViewApply(s)
      PROVE  r.op = old.op /\ r.pc = "ready" /\ r.p = old.p /\ r.ent = old.ent /\ old.op = "apply"
  <2>1. r = [old EXCEPT !.pc = "ready", !.emps = results[old.p]]
    BY <1>b, <1>6, SessionMoves DEF ViewApply
  <2> QED
    BY <1>a, <1>6, <2>1 DEF RequestRow, ViewApply, At
<1>7. ASSUME ViewInactivate(s)
      PROVE  r.op = old.op /\ r.pc = "ready" /\ r.p = old.p /\ r.ent = old.ent /\ r.db = payroll[old.p]
  <2>1. r = [old EXCEPT !.pc = "ready", !.db = payroll[old.p], !.acts = Attached(old.p)]
    BY <1>b, <1>7, SessionMoves DEF ViewInactivate
  <2> QED
    BY <1>a, <2>1 DEF RequestRow
<1>8. ASSUME ViewReactivate(s)
      PROVE  r.op = old.op /\ r.pc = "ready" /\ r.p = old.p /\ r.ent = old.ent /\ r.db = payroll[old.p]
  <2>1. PICK items, acts :
           Step(s, [old EXCEPT !.pc = "ready", !.db = payroll[old.p], !.items = items,
                               !.acts = acts])
    BY <1>8 DEF ViewReactivate
  <2>2. r = [old EXCEPT !.pc = "ready", !.db = payroll[old.p], !.items = items, !.acts = acts]
    BY <1>b, <2>1, SessionMoves
  <2> QED
    BY <1>a, <2>2 DEF RequestRow
<1>9. ReadyToSave(s) \/ ViewProcess(s) \/ ViewApply(s) \/ ViewInactivate(s) \/ ViewReactivate(s)
  BY DEF PayrollView, ViewCreate, ViewUpdate, ViewVerify, ViewReopen, ViewSelection
<1> QED
  BY <1>b, <1>2, <1>3, <1>4, <1>5, <1>6, <1>7, <1>8, <1>9

LEMMA PayrollViewRaces ==
    ASSUME IInv, RaceInv, NEW s \in Session, PayrollView(s)
    PROVE  RaceInv'
<1> DEFINE old == request[s]
<1>1. WellFormed(old) /\ Carries(old)
  BY SessionIsProcess, InFlight DEF RaceInv
<1>3. PICK r : /\ Step(s, r) /\ UNCHANGED payroll /\ r = request'[s]
               /\ old.pc = "loaded" /\ old.op \in PayrollOps
               /\ r.op = old.op /\ r.p = old.p /\ r.ent = old.ent /\ r.pc = "ready"
               /\ old.op # "apply" => r.db = payroll[old.p]
  BY ViewGoesOn
<1>4. Carries(r)
  <2>1. old.p \in Payroll
    BY <1>1, <1>3 DEF WellFormed, Busy
  <2>2. Keyed(payroll[old.p])
    BY <2>1 DEF RaceInv
  <2> QED
    BY <1>1, <1>3, <2>2 DEF Carries, Saves, Busy, Tied
<1> QED
  BY <1>3, <1>4, LoadRaces

\* What save() merges is keyed: of slot and activo one is the same in the three rows, so
\* that the key follows the other.
LEMMA MergedKeyed ==
    ASSUME NEW row \in PayrollRow, NEW db \in PayrollRow, NEW ent \in PayrollRow, NEW op,
           Keyed(row), Keyed(db), Keyed(ent), Lives(row), Lives(db), Lives(ent),
           Tied(op, ent, row), db.slot = row.slot, op = "update" => db.activo
    PROVE  /\ Keyed(MergePayroll(row, db, ent)) /\ Lives(MergePayroll(row, db, ent))
           /\ op # "update" => MergePayroll(row, db, ent).slot = row.slot
<1> DEFINE m == MergePayroll(row, db, ent)
<1>1. /\ m.estado = Column(row.estado, db.estado, ent.estado)
      /\ m.activo = Column(row.activo, db.activo, ent.activo)
      /\ m.slot = Column(row.slot, db.slot, ent.slot)
      /\ m.slotKey = Column(row.slotKey, db.slotKey, ent.slotKey)
      /\ m.isActiveSlot = Column(row.isActiveSlot, db.isActiveSlot, ent.isActiveSlot)
  BY DEF MergePayroll
<1> HIDE DEF m
<1>2. \A x \in {row, db, ent} : x.activo \in BOOLEAN /\ x.isActiveSlot \in BOOLEAN
  BY DEF PayrollRow
<1>3. \A x \in {row, db, ent} : x.slotKey = KeyOf(x) /\ (x.activo <=> x.isActiveSlot)
  BY DEF Keyed
<1>4. Lives(m)
  BY <1>1 DEF Column, Lives
<1>5. m.activo <=> m.isActiveSlot
  BY <1>1, <1>2, <1>3 DEF Column
<1>6. CASE op = "update"
  <2>1. row.activo /\ db.activo /\ ent.activo
    BY <1>6 DEF Tied
  <2>2. row.slotKey = Key(row.slot) /\ db.slotKey = Key(row.slot) /\ ent.slotKey = Key(ent.slot)
    BY <1>3, <2>1 DEF KeyOf
  <2>3. m.activo
    BY <1>1, <2>1 DEF Column
  <2>4. m.slotKey = Key(m.slot)
    BY <1>1, <2>2 DEF Column, Key
  <2> QED
    BY <1>4, <1>5, <1>6, <2>3, <2>4 DEF Keyed, KeyOf, m
<1>7. CASE op # "update"
  <2>1. m.slot = row.slot /\ ent.slot = row.slot
    BY <1>1, <1>7 DEF Tied, Column
  <2> DEFINE Sealed(b) == [slot |-> row.slot, tagged |-> ~b]
  <2>2. /\ row.slotKey = Sealed(row.activo) /\ db.slotKey = Sealed(db.activo)
        /\ ent.slotKey = Sealed(ent.activo)
    BY <1>2, <1>3, <2>1 DEF KeyOf, Key
  <2>3. \A b, c \in BOOLEAN : Sealed(b) = Sealed(c) <=> b = c
    OBVIOUS
  <2>4. m.slotKey = Sealed(m.activo) /\ m.activo \in BOOLEAN
    <3> HIDE DEF Sealed
    <3> QED
      BY <1>1, <1>2, <2>2, <2>3 DEF Column
  <2>5. m.slotKey = KeyOf(m)
    BY <2>1, <2>4 DEF KeyOf, Key
  <2> QED
    BY <1>4, <1>5, <2>1, <2>5 DEF Keyed, m
<1> QED
  BY <1>6, <1>7

\* A commit that writes a keyed row which the index admits.
LEMMA RowRaces ==
    ASSUME IInv, RaceInv, NEW p \in Payroll, NEW row \in PayrollRow,
           payroll' = [payroll EXCEPT ![p] = row], IndexAllows(p, row),
           Keyed(row), Lives(row),
           \A s \in Session : Carries(request[s])' \/ (request'[s] = request[s] /\ Steady(request[s]))
    PROVE  RaceInv'
<1>1. \A q \in Payroll : payroll'[q] = IF q = p THEN row ELSE payroll[q]
  BY DEF IInv, TablesOK
<1>2. Indexed'
  BY <1>1 DEF RaceInv, Indexed, IndexAllows, Exists, SameKey
<1>3. \A q \in Payroll : Keyed(payroll'[q]) /\ (Lives(payroll[q]) => Lives(payroll'[q]))
  BY <1>1 DEF RaceInv
<1> QED
  BY <1>2, <1>3, RowsRace

\* Nobody else holds the payroll that was just inserted, and who holds one that is saved
\* finds it where it was, for only an update moves it.
LEMMA OthersSteady ==
    ASSUME IInv, RaceInv, NEW s \in Session, NEW t \in Session, NEW p \in Payroll,
           NEW row \in PayrollRow, payroll' = [payroll EXCEPT ![p] = row],
           \/ ~Exists(p)
           \/ /\ MovesApart /\ s # t /\ request[s].p = p /\ request[s].pc = "ready"
              /\ request[s].op # "update" => row.slot = payroll[p].slot
    PROVE  Steady(request[t])
<1> DEFINE x == request[t]
<1>1. WellFormed(x) /\ Carries(x)
  BY SessionIsProcess, InFlight DEF RaceInv
<1>2. Carrying(x) => x.p \in Payroll /\ Lives(payroll[x.p]) /\ x.pc \notin {"idle", "orphans", "link"}
  BY <1>1 DEF WellFormed, Saves, Carrying, Carries, Busy
<1>3. payroll'[x.p] = payroll[x.p] \/ x.p = p \/ ~Carrying(x)
  BY <1>2 DEF IInv, TablesOK
<1>4. payroll'[p] = row
  BY DEF IInv, TablesOK
<1>5. CASE ~Exists(p)
  BY <1>2, <1>3, <1>5 DEF Exists, Lives, Steady
<1>6. CASE /\ MovesApart /\ s # t /\ request[s].p = p /\ request[s].pc = "ready"
           /\ request[s].op # "update" => row.slot = payroll[p].slot
  <2>1. x.p = p /\ Carrying(x) => request[s].op # "update" /\ x.op # "update"
    BY <1>2, <1>6 DEF MovesApart
  <2> QED
    BY <1>3, <1>4, <1>6, <2>1 DEF Steady
<1> QED
  BY <1>5, <1>6

LEMMA PayrollCommitRaces ==
    ASSUME IInv, RaceInv, AppliesApart, MovesApart, NEW s \in Session, PayrollCommit(s)
    PROVE  RaceInv'
<1> DEFINE r == request[s]
<1>1. r \in RequestRow /\ WellFormed(r) /\ Carries(r)
  BY SessionIsProcess, InFlight DEF RaceInv
<1>2. ASSUME NEW op, NEW p,
             Step(s, Idle) \/ Step(s, [Idle EXCEPT !.op = op, !.pc = "orphans", !.p = p])
      PROVE  /\ Carries(request[s])'
             /\ \A t \in Session : t # s => request'[t] = request[t]
  <2>1. Unladen(Idle) /\ Unladen([Idle EXCEPT !.op = op, !.pc = "orphans", !.p = p])
    BY DEF Unladen, Carrying, Idle, Busy
  <2>2. PICK x : x = request'[s]
    OBVIOUS
  <2>3. Unladen(x) /\ \A t \in Session : t # s => request'[t] = request[t]
    BY <1>2, <2>1, <2>2, SessionMoves
  <2> QED
    BY <2>2, <2>3, UnladenCarries
<1>3. ASSUME NEW p \in Payroll, CommitCreate(s, p) PROVE RaceInv'
  <2>1. PICK ent : ent = r.ent
    OBVIOUS
  <2>2. ent \in PayrollRow /\ Lives(ent) /\ Keyed(ent)
    BY <1>1, <1>3, <2>1 DEF CommitCreate, At, WellFormed, Unapplied, Carries
  <2>3. payroll' = [payroll EXCEPT ![p] = ent] /\ IndexAllows(p, ent) /\ ~Exists(p)
    BY <1>3, <2>1 DEF CommitCreate
  <2>4. PICK x : x = [r EXCEPT !.pc = "loaded", !.p = p]
    OBVIOUS
  <2>5. x.op = "create" /\ x.pc = "loaded" /\ x.p = p /\ x.ent = ent
    BY <1>1, <1>3, <2>1, <2>4 DEF RequestRow, CommitCreate, At
  <2>6. request'[s] = x /\ \A t \in Session : t # s => request'[t] = request[t]
    BY <1>3, <2>4, SessionMoves DEF CommitCreate
  <2>7. payroll'[p] = ent
    BY <2>3 DEF IInv, TablesOK
  <2>8. Carries(x)'
    BY <2>2, <2>5, <2>7 DEF Carries, Tied, Lives, Keyed, KeyOf, Key
  <2>9. Carries(request[s])'
    BY <2>6, <2>8
  <2>10. ASSUME NEW t \in Session, t # s PROVE request'[t] = request[t] /\ Steady(request[t])
    BY <2>2, <2>3, <2>6, <2>10, OthersSteady
  <2> QED
    BY <2>2, <2>3, <2>9, <2>10, RowRaces
<1>4. ASSUME r.op \in Saves, r.pc = "ready", payroll' = [payroll EXCEPT ![r.p] = Merged(s)],
             IndexAllows(r.p, Merged(s)), Carries(request[s])',
             \A t \in Session : t # s => request'[t] = request[t]
      PROVE  RaceInv'
  <2>1. PICK row : row = Merged(s)
    OBVIOUS
  <2>2. r.p \in Payroll /\ row \in PayrollRow
    BY <1>4, <2>1, SessionIsProcess, MergedOK DEF Saves
  <2>3. r.ent \in PayrollRow /\ r.db \in PayrollRow /\ payroll[r.p] \in PayrollRow
    BY <1>1, <1>4, <2>2 DEF WellFormed, Saves, Unapplied, Busy, IInv, TablesOK
  <2>4. /\ Keyed(payroll[r.p]) /\ Keyed(r.db) /\ Keyed(r.ent)
        /\ Lives(payroll[r.p]) /\ Lives(r.db) /\ Lives(r.ent)
        /\ Tied(r.op, r.ent, payroll[r.p]) /\ r.db.slot = payroll[r.p].slot
        /\ r.op = "update" => r.db.activo
    BY <1>1, <1>4, <2>2 DEF RaceInv, Carries, Busy
  <2>5. /\ Keyed(row) /\ Lives(row)
        /\ r.op # "update" => row.slot = payroll[r.p].slot
    BY <2>1, <2>3, <2>4, MergedKeyed DEF Merged
  <2>6. PICK p \in Payroll : p = r.p
    BY <2>2
  <2>7. payroll' = [payroll EXCEPT ![p] = row] /\ IndexAllows(p, row)
    BY <1>4, <2>1, <2>6
  <2>8. ASSUME NEW t \in Session, t # s PROVE request'[t] = request[t] /\ Steady(request[t])
    BY <1>4, <2>2, <2>5, <2>6, <2>7, <2>8, OthersSteady
  <2> QED
    BY <1>4, <2>2, <2>5, <2>7, <2>8, RowRaces
<1>5. ASSUME CommitSave(s) PROVE RaceInv'
  <2>1. Carries(request[s])' /\ \A t \in Session : t # s => request'[t] = request[t]
    BY <1>2, <1>5 DEF CommitSave
  <2> QED
    BY <1>4, <1>5, <2>1 DEF CommitSave, Saves, PayrollOps, SavedByEntity
<1>6. ASSUME CommitProcess(s) PROVE RaceInv'
  <2>1. Carries(request[s])' /\ \A t \in Session : t # s => request'[t] = request[t]
    BY <1>2, <1>6 DEF CommitProcess
  <2> QED
    BY <1>4, <1>6, <2>1 DEF CommitProcess, At, Saves, PayrollOps
<1>7. ASSUME CommitInactivate(s) PROVE RaceInv'
  <2>1. Carries(request[s])' /\ \A t \in Session : t # s => request'[t] = request[t]
    BY <1>2, <1>7 DEF CommitInactivate
  <2> QED
    BY <1>4, <1>7, <2>1 DEF CommitInactivate, At, Saves, PayrollOps
<1>8. ASSUME CommitReactivate(s) PROVE RaceInv'
  <2>1. Carries(request[s])' /\ \A t \in Session : t # s => request'[t] = request[t]
    BY <1>2, <1>8 DEF CommitReactivate
  <2> QED
    BY <1>4, <1>8, <2>1 DEF CommitReactivate, At, Saves, PayrollOps
<1>9. ASSUME CommitApply(s) PROVE RaceInv'
  <2>1. PICK p \in Payroll : p = r.p
    BY <1>1, <1>9 DEF CommitApply, At, WellFormed, PayrollOps, Busy
  <2>2. PICK row : row = Applied(payroll[p])
    OBVIOUS
  <2>3. row \in PayrollRow /\ row.estado = "APLICADA"
    BY <2>2, AppliedRow DEF Applied, IInv, TablesOK, PayrollRow
  <2>4. \A q \in Payroll : payroll'[q] = IF q = p THEN row ELSE payroll[q]
    BY <1>9, <2>1, <2>2 DEF CommitApply, IInv, TablesOK
  <2>5. IndexAllows(p, row)
    BY <1>9, <2>1, <2>2 DEF CommitApply
  <2>6. Indexed'
    BY <2>4, <2>5 DEF RaceInv, Indexed, IndexAllows, Exists, SameKey
  <2>7. \A q \in Payroll : Keyed(payroll[q])'
    BY <2>3, <2>4 DEF RaceInv, Keyed, KeyOf, Key, Lives
  <2>8. ASSUME NEW t \in Session PROVE Carries(request[t])'
    <3>1. CASE t = s
      BY <1>2, <1>9, <3>1 DEF CommitApply
    <3>2. CASE t # s
      <4>1. PICK x : x = request'[t]
        OBVIOUS
      <4>2. x.op \notin Saves
        BY <1>9, <3>2, <4>1, SessionMoves DEF CommitApply, AppliesApart
      <4>3. Carries(x)'
        BY <4>2 DEF Carries, Saves, PayrollOps, SavedByEntity
      <4> QED
        BY <4>1, <4>3
    <3> QED
      BY <3>1, <3>2
  <2> QED
    BY <2>6, <2>7, <2>8 DEF RaceInv
<1> QED
  BY <1>3, <1>5, <1>6, <1>7, <1>8, <1>9 DEF PayrollCommit

\* Every other step leaves no request with a payroll in hand, and no row with other keys.
LEMMA ActionRaces ==
    ASSUME IInv, RaceInv, NEW s \in Session, ActionLoad(s) \/ ActionStep(s)
    PROVE  RaceInv'
<1> DEFINE old == request[s]
<1>1. old \in RequestRow
  BY SessionIsProcess, InFlight
<1>2. ASSUME NEW r, Step(s, r), Unladen(r)
      PROVE  \A t \in Session : request'[t] = request[t] \/ Unladen(request'[t])
  BY <1>2, SessionMoves
<1>3. ASSUME ActionLoad(s) PROVE RaceInv'
  <2>1. UNCHANGED payroll
    BY <1>3, OthersKeepPayroll
  <2>2. request' = request \/ \E op \in TargetOps \cup SavedActionOps : \E p, a, ent : Load(s, op, p, a, ent)
    BY <1>3 DEF ActionLoad, CreateDraft, LoadAdvance, LoadReject, LoadInvalidate, LoadRevive,
                LoadRegister, LoadBulk, LoadApprove, LoadEdit, LoadAssociate, TargetOps, SavedActionOps
  <2>3. ASSUME NEW op \in TargetOps \cup SavedActionOps, NEW p, NEW a, NEW ent, Load(s, op, p, a, ent)
        PROVE  \A t \in Session : request'[t] = request[t] \/ Unladen(request'[t])
    <3>1. PICK r : r = [Idle EXCEPT !.op = op, !.pc = "loaded", !.p = p, !.a = a, !.ent = ent]
      OBVIOUS
    <3>2. r.op = op /\ r.pc = "loaded" /\ Step(s, r)
      BY <2>3, <3>1 DEF Idle, Load
    <3>3. Unladen(r)
      BY <3>2 DEF Unladen, Carrying, TargetOps, SavedActionOps, Saves, PayrollOps, SavedByEntity
    <3> QED
      BY <1>2, <3>2, <3>3
  <2> QED
    BY <2>1, <2>2, <2>3, QuietRaces
<1>4. ASSUME ActionStep(s) PROVE RaceInv'
  <2>1. ASSUME NEW q \in Payroll
        PROVE  payroll'[q] \in {payroll[q], [payroll[q] EXCEPT !.requiresRecalculation = TRUE]}
    <3>1. CASE MarkRevalidation(s)
      BY <3>1 DEF MarkRevalidation, IInv, TablesOK
    <3>2. CASE FlagRecalculation(s)
      BY <3>2 DEF FlagRecalculation
    <3>3. UNCHANGED payroll \/ MarkRevalidation(s) \/ FlagRecalculation(s)
      BY <1>4 DEF ActionStep, ViewApprove, ViewAction, CommitRegister, CommitBulk, CommitApprove,
                  CommitAction, Insert, KeepPayrollTables, tables
    <3> QED
      BY <3>1, <3>2, <3>3
  <2>2. PICK r : r = request'[s]
    OBVIOUS
  <2>3. \E x : Step(s, x)
    BY <1>4 DEF ActionStep, ViewApprove, ViewAction, CommitRegister, CommitBulk, CommitApprove,
                CommitAction, MarkRevalidation, FlagRecalculation
  <2>4. Step(s, r)
    BY <2>2, <2>3, SessionMoves
  <2>5. Unladen(Idle)
    BY DEF Unladen, Carrying, Idle, Busy
  <2>6. ASSUME ViewApprove(s) PROVE Unladen(r)
    <3>1. r = [old EXCEPT !.pc = "ready"] /\ old.op = "approve"
      BY <2>2, <2>6, SessionMoves DEF ViewApprove, At
    <3> QED
      BY <1>1, <3>1 DEF RequestRow, Unladen, Carrying, Saves, PayrollOps, SavedByEntity
  <2>7. ASSUME ViewAction(s) PROVE Unladen(r)
    <3>1. r = [old EXCEPT !.pc = "ready", !.db = action[old.a]] /\ old.op \in SavedActionOps
      BY <2>2, <2>7, SessionMoves DEF ViewAction
    <3> QED
      BY <1>1, <3>1 DEF RequestRow, Unladen, Carrying, Saves, PayrollOps, SavedByEntity, SavedActionOps
  <2>8. ASSUME CommitRegister(s) \/ FlagRecalculation(s) PROVE Unladen(r)
    BY <2>2, <2>5, <2>8, SessionMoves DEF CommitRegister, FlagRecalculation
  <2>9. ASSUME NEW pc \in {"mark", "flag"}, Step(s, [old EXCEPT !.pc = pc]) PROVE Unladen(r)
    <3>1. r = [old EXCEPT !.pc = pc]
      BY <2>2, <2>9, SessionMoves
    <3> QED
      BY <1>1, <3>1 DEF RequestRow, Unladen, Carrying, Busy
  <2>10. ASSUME CommitAction(s) PROVE Unladen(r)
    <3>1. r = Idle \/ r = [Idle EXCEPT !.op = old.op, !.pc = "flag", !.a = old.a]
      BY <2>2, <2>10, SessionMoves DEF CommitAction
    <3> QED
      BY <2>5, <3>1 DEF Idle, Unladen, Carrying, Busy
  <2>11. Unladen(r)
    BY <1>4, <2>6, <2>7, <2>8, <2>9, <2>10
    DEF ActionStep, CommitBulk, CommitApprove, MarkRevalidation
  <2>12. \A t \in Session : request'[t] = request[t] \/ Unladen(request'[t])
    BY <1>2, <2>4, <2>11
  <2> QED
    BY <2>1, <2>12, QuietRaces
<1> QED
  BY <1>3, <1>4

LEMMA EndRaces ==
    ASSUME IInv, RaceInv, NEW s \in Processes, Reassign(s) \/ Reject(s) \/ Fail(s)
    PROVE  RaceInv'
<1> DEFINE old == request[s]
<1>1. old \in RequestRow
  BY InFlight
<1>2. UNCHANGED payroll
  BY OthersKeepPayroll
<1>3. PICK r : Step(s, r) /\ r.pc \in {"idle", "link"}
  <2>1. ASSUME ViewOrphans(s) PROVE \E r : Step(s, r) /\ r.pc \in {"idle", "link"}
    <3>1. PICK acts, items : Step(s, [old EXCEPT !.pc = "link", !.acts = acts, !.items = items])
      BY <2>1 DEF ViewOrphans
    <3>2. [old EXCEPT !.pc = "link", !.acts = acts, !.items = items].pc = "link"
      BY <1>1 DEF RequestRow
    <3> QED
      BY <3>1, <3>2
  <2>2. ASSUME Step(s, Idle) PROVE \E r : Step(s, r) /\ r.pc \in {"idle", "link"}
    BY <2>2 DEF Idle
  <2> QED
    BY <2>1, <2>2 DEF Reassign, CommitOrphans, SkipOrphans, Reject, Fail
<1>4. Unladen(r)
  BY <1>3 DEF Unladen, Carrying, Busy
<1>5. \A t \in Session : request'[t] = request[t] \/ Unladen(request'[t])
  BY <1>3, <1>4, SessionIsProcess DEF Step, IInv, RequestsOK
<1> QED
  BY <1>2, <1>5, QuietRaces

LEMMA CronRaces ==
    ASSUME IInv, RaceInv, CronTick \/ CronNext \/ Jobs \/ UNCHANGED vars
    PROVE  RaceInv'
<1>1. UNCHANGED payroll
  BY OthersKeepPayroll DEF vars
<1>2. \A t \in Session : request'[t] = request[t]
  <2>1. ASSUME CronNext, NEW t \in Session PROVE request'[t] = request[t]
    <3>1. PICK r : Step(Cron, r)
      BY <2>1 DEF CronNext
    <3> QED
      BY <3>1, SetsAssumption, SessionIsProcess DEF Step, IInv, RequestsOK
  <2> QED
    BY <2>1 DEF CronTick, Jobs, Hygiene, EmployeeContextUpdated, vars
<1> QED
  BY <1>1, <1>2, QuietRaces

LEMMA NextRaces ==
    ASSUME IInv, RaceInv, AppliesApart, MovesApart, [Next]_vars
    PROVE  RaceInv'
<1>1. ASSUME NEW s \in Session, Serve(s) PROVE RaceInv'
  <2>1. s \in Processes
    BY SessionIsProcess
  <2> QED
    BY <1>1, <2>1, PayrollLoadRaces, PayrollViewRaces, PayrollCommitRaces, ActionRaces, EndRaces
    DEF Serve
<1>2. ASSUME NEW s \in Processes, Reassign(s) \/ Fail(s) PROVE RaceInv'
  BY <1>2, EndRaces
<1> QED
  BY <1>1, <1>2, CronRaces DEF Next

LEMMA InitRaces ==
    ASSUME Init PROVE RaceInv
<1>1. \A p \in Payroll : payroll[p].estado = "NONE"
  BY DEF Init
<1>2. \A s \in Session : Carries(request[s])
  BY SessionIsProcess, UnladenCarries DEF Init, Unladen, Carrying, Idle, Busy
<1> QED
  BY <1>1, <1>2 DEF RaceInv, Keyed, Lives, Indexed, Exists

LEMMA RaceExclusive ==
    ASSUME IInv, RaceInv PROVE OneOperationalPerSlot
<1>1. ASSUME NEW p \in Payroll, Alive(p)
      PROVE  /\ payroll[p].slotKey = Key(payroll[p].slot) /\ ~payroll[p].slotKey.tagged
             /\ payroll[p].isActiveSlot = TRUE /\ Exists(p)
  <2>1. payroll[p] \in PayrollRow
    BY DEF IInv, TablesOK
  <2> QED
    <3>1. Keyed(payroll[p]) /\ Lives(payroll[p]) /\ payroll[p].activo
      BY <1>1 DEF Alive, RaceInv, Lives, Operational
    <3>2. payroll[p].slotKey = Key(payroll[p].slot) /\ payroll[p].isActiveSlot
      BY <3>1 DEF Keyed, KeyOf
    <3>3. payroll[p].isActiveSlot = TRUE
      BY <2>1, <3>2 DEF PayrollRow
    <3> QED
      BY <3>1, <3>2, <3>3 DEF Key, Lives, Exists
<1> QED
  BY <1>1 DEF OneOperationalPerSlot, RaceInv, Indexed, SameKey, Key
----------------------------------------------------------------------------
(* Who is served *)

\* The operation of a request is one that it started with.
LEMMA OpStays ==
    ASSUME IInv, [Next]_vars, NEW s \in Session
    PROVE  \/ request'[s].op \in {request[s].op, "none"}
           \/ request[s] = Idle /\ request'[s].op \in Requests
<1> DEFINE old == request[s]
           Kind == \/ request'[s].op \in {request[s].op, "none"}
                   \/ request[s] = Idle /\ request'[s].op \in Requests
<1>0. s \in Processes /\ old \in RequestRow
  BY SessionIsProcess, InFlight
<1>1. PICK r : r = request'[s]
  OBVIOUS
<1>2. ASSUME NEW op, NEW p, NEW a, NEW ent, Accepts(s, op), Load(s, op, p, a, ent) PROVE Kind
  <2>1. r = [Idle EXCEPT !.op = op, !.pc = "loaded", !.p = p, !.a = a, !.ent = ent]
    BY <1>1, <1>2, SessionMoves DEF Load
  <2> QED
    BY <1>1, <1>2, <2>1 DEF Idle, Accepts
<1>3. ASSUME PayrollLoad(s) PROVE Kind
  <2>1. ASSUME NEW op, NEW p, NEW emps, LoadSelection(s, p, op, emps) PROVE Kind
    <3>1. PICK ent : Step(s, [Idle EXCEPT !.op = op, !.pc = "loaded", !.p = p, !.emps = emps,
                                          !.ent = ent])
      BY <2>1 DEF LoadSelection
    <3>2. r = [Idle EXCEPT !.op = op, !.pc = "loaded", !.p = p, !.emps = emps, !.ent = ent]
      BY <1>1, <3>1, SessionMoves
    <3> QED
      BY <1>1, <2>1, <3>2 DEF Idle, Accepts, LoadSelection
  <2>2. \/ \E op, p, a, ent : Accepts(s, op) /\ Load(s, op, p, a, ent)
        \/ \E op, p, emps : LoadSelection(s, p, op, emps)
        \/ \E slot : LoadCreate(s, slot)
    BY <1>3 DEF PayrollLoad, LoadVerify, LoadReopen, LoadProcess, LoadApply,
                LoadInactivate, LoadReactivate, LoadUpdate
  <2>3. ASSUME NEW slot, LoadCreate(s, slot) PROVE Kind
    <3>1. PICK ent : Step(s, [Idle EXCEPT !.op = "create", !.pc = "new", !.ent = ent])
      BY <2>3 DEF LoadCreate
    <3>2. r = [Idle EXCEPT !.op = "create", !.pc = "new", !.ent = ent]
      BY <1>1, <3>1, SessionMoves
    <3> QED
      BY <1>1, <2>3, <3>2 DEF Idle, Accepts, LoadCreate
  <2> QED
    BY <1>2, <2>1, <2>2, <2>3
<1>4. ASSUME ActionLoad(s) PROVE Kind
  <2>1. request' = request \/ \E op, p, a, ent : Accepts(s, op) /\ Load(s, op, p, a, ent)
    BY <1>4 DEF ActionLoad, CreateDraft, LoadAdvance, LoadReject, LoadInvalidate, LoadRevive,
                LoadRegister, LoadBulk, LoadApprove, LoadEdit, LoadAssociate
  <2> QED
    BY <1>2, <2>1
<1>5. ASSUME NEW x, Step(s, x), x.op \in {old.op, "none"} PROVE Kind
  BY <1>5, SessionMoves
<1>6. Idle.op = "none"
  BY DEF Idle
<1>7. ASSUME PayrollView(s) PROVE Kind
  BY <1>5, <1>7, ViewGoesOn
<1>8. ASSUME PayrollCommit(s) PROVE Kind
  <2>1. \/ Step(s, Idle)
        \/ \E op, p : op = old.op /\ Step(s, [Idle EXCEPT !.op = op, !.pc = "orphans", !.p = p])
        \/ \E p : Step(s, [old EXCEPT !.pc = "loaded", !.p = p])
    BY <1>8 DEF PayrollCommit, CommitCreate, CommitSave, CommitProcess, CommitApply,
                CommitInactivate, CommitReactivate, At
  <2>2. ASSUME NEW op, NEW p PROVE [Idle EXCEPT !.op = op, !.pc = "orphans", !.p = p].op = op
    BY DEF Idle
  <2>3. ASSUME NEW p PROVE [old EXCEPT !.pc = "loaded", !.p = p].op = old.op
    BY <1>0 DEF RequestRow
  <2> QED
    BY <1>5, <1>6, <2>1, <2>2, <2>3
<1>9. ASSUME ActionStep(s) PROVE Kind
  <2>1. ASSUME NEW pc, Step(s, [old EXCEPT !.pc = pc]) PROVE Kind
    <3>1. r = [old EXCEPT !.pc = pc]
      BY <1>1, <2>1, SessionMoves
    <3> QED
      BY <1>0, <1>1, <3>1 DEF RequestRow
  <2>2. ASSUME ViewAction(s) PROVE Kind
    <3>1. r = [old EXCEPT !.pc = "ready", !.db = action[old.a]]
      BY <1>1, <2>2, SessionMoves DEF ViewAction
    <3> QED
      BY <1>0, <1>1, <3>1 DEF RequestRow
  <2>3. ASSUME CommitAction(s) PROVE Kind
    <3>1. r = Idle \/ r = [Idle EXCEPT !.op = old.op, !.pc = "flag", !.a = old.a]
      BY <1>1, <2>3, SessionMoves DEF CommitAction
    <3>2. PICK op, a : op = old.op /\ a = old.a
      OBVIOUS
    <3>3. [Idle EXCEPT !.op = op, !.pc = "flag", !.a = a].op = op
      BY DEF Idle
    <3>4. r.op \in {op, "none"}
      BY <1>6, <3>1, <3>2, <3>3
    <3> QED
      BY <1>1, <3>2, <3>4
  <2> QED
    BY <1>5, <1>6, <1>9, <2>1, <2>2, <2>3
    DEF ActionStep, ViewApprove, CommitRegister, CommitBulk, CommitApprove, MarkRevalidation,
        FlagRecalculation
<1>10. ASSUME NEW t \in Processes, Reassign(t) \/ Reject(t) \/ Fail(t) PROVE Kind
  <2>1. CASE t # s
    <3>1. \E x : Step(t, x)
      BY <1>10 DEF Reassign, ViewOrphans, CommitOrphans, SkipOrphans, Reject, Fail
    <3> QED
      BY <1>0, <2>1, <3>1 DEF Step, IInv, RequestsOK
  <2>2. CASE t = s
    <3>1. ASSUME NEW acts, NEW items, NEW x,
                 x = [old EXCEPT !.pc = "link", !.acts = acts, !.items = items]
          PROVE  x.op = old.op
      BY <1>0, <3>1 DEF RequestRow
    <3>2. \/ Step(s, Idle)
          \/ \E x, acts, items :
                Step(s, x) /\ x = [old EXCEPT !.pc = "link", !.acts = acts, !.items = items]
      BY <1>10, <2>2 DEF Reassign, ViewOrphans, CommitOrphans, SkipOrphans, Reject, Fail
    <3> QED
      BY <1>5, <1>6, <3>1, <3>2
  <2> QED
    BY <2>1, <2>2
<1>11. ASSUME CronTick \/ CronNext \/ Jobs \/ UNCHANGED vars PROVE Kind
  <2>1. ASSUME CronNext PROVE request'[s] = request[s]
    <3>1. PICK x : Step(Cron, x)
      BY <2>1 DEF CronNext
    <3> QED
      BY <1>0, <3>1, SetsAssumption DEF Step, IInv, RequestsOK
  <2> QED
    BY <1>11, <2>1 DEF CronTick, Jobs, Hygiene, EmployeeContextUpdated, vars
<1>12. ASSUME NEW t \in Session, t # s, Serve(t) PROVE Kind
  <2>1. request' = request \/ \E x : Step(t, x)
    BY <1>12 DEF Serve, PayrollLoad, LoadCreate, LoadVerify, LoadReopen, LoadProcess, LoadApply,
           LoadInactivate, LoadReactivate, LoadUpdate, LoadSelection, ActionLoad, CreateDraft,
           LoadAdvance, LoadReject, LoadInvalidate, LoadRevive, LoadRegister, LoadBulk, LoadApprove,
           LoadEdit, LoadAssociate, Load, PayrollView, ViewCreate, ViewUpdate, ViewVerify, ViewReopen,
           ViewSelection, ViewProcess, ViewApply, ViewInactivate, ViewReactivate, ReadyToSave,
           PayrollCommit, CommitCreate, CommitSave, CommitProcess, CommitApply, CommitInactivate,
           CommitReactivate, ActionStep, ViewApprove, ViewAction, CommitRegister, CommitBulk,
           CommitApprove, CommitAction, MarkRevalidation, FlagRecalculation, Reject
  <2> QED
    BY <1>12, <2>1, SessionMoves
<1>13. ASSUME Serve(s) PROVE Kind
  BY <1>0, <1>3, <1>4, <1>7, <1>8, <1>9, <1>10, <1>13 DEF Serve
<1> QED
  BY <1>10, <1>11, <1>12, <1>13 DEF Next
----------------------------------------------------------------------------
(* The slots in the races *)

\* Create with its two saves, process, verify, reopen, inactivate and reactivate may run
\* side by side, with the cron, the jobs and half-done requests: while nothing is applied,
\* and no update moves a payroll that somebody else is about to save, a slot has at most one
\* payroll at work, for what their SELECTs miss the unique index refuses.
THEOREM RacingSlots ==
    "apply" \notin Requests => (Spec /\ []MovesApart => []OneOperationalPerSlot)
<1> SUFFICES ASSUME "apply" \notin Requests
             PROVE  Spec /\ []MovesApart => []OneOperationalPerSlot
  OBVIOUS
<1> DEFINE NoApply == \A s \in Session : request[s].op # "apply"
<1>1. Init => RaceInv /\ NoApply
  BY InitRaces, SessionIsProcess DEF Init, Idle
<1>2. IInv /\ NoApply /\ [Next]_vars => NoApply'
  BY OpStays
<1>3. NoApply => AppliesApart
  BY DEF AppliesApart, CommitApply, At
<1>4. IInv /\ RaceInv /\ NoApply /\ MovesApart /\ [Next]_vars => RaceInv'
  BY <1>3, NextRaces
<1>5. IInv /\ RaceInv => OneOperationalPerSlot
  BY RaceExclusive
<1> HIDE DEF NoApply
<1> QED
  BY <1>1, <1>2, <1>4, <1>5, Inductive, PTL DEF Spec

\* One request at a time, however many sessions there are.
Undisturbed == \A s, t \in Session : request[s] # Idle /\ request[t] # Idle => s = t

PlanInv ==
    /\ plan \in {SlotRace, ApplyRace, BothPeriods}
    /\ plan = SlotRace => MovesApart /\ \A s \in Session : request[s].op # "apply"
    /\ plan = BothPeriods => Undisturbed

LEMMA AtMostOne ==
    ASSUME NEW S, IsFiniteSet(S), Cardinality(S) <= 1, NEW x \in S, NEW y \in S
    PROVE  x = y
<1>1. Cardinality(S) \in Nat /\ (Cardinality(S) = 0 => S = {})
  BY FS_CardinalityType, FS_EmptySet
<1>2. Cardinality(S) = 1
  BY <1>1
<1>3. \E z : S = {z}
  BY <1>2, FS_Singleton
<1> QED
  BY <1>3

LEMMA PlansDiffer == SlotRace # BothPeriods /\ SlotRace # ApplyRace /\ BothPeriods # ApplyRace
<1>1. SlotRace.sessions = 2 /\ BothPeriods.sessions = 1 /\ ApplyRace.sessions = 2
  BY DEF SlotRace, BothPeriods, ApplyRace
<1>2. SlotRace.payrolls = 2 /\ ApplyRace.payrolls = 1
  BY DEF SlotRace, ApplyRace
<1> QED
  BY <1>1, <1>2

LEMMA PlanKept ==
    ASSUME IsFiniteSet(Session), IInv, PlanInv, [RacesNext]_<<vars, plan>>
    PROVE  PlanInv'
<1>1. CASE UNCHANGED <<vars, plan>>
  BY <1>1 DEF PlanInv, Undisturbed, MovesApart, vars
<1>2. CASE RacesNext
  <2>1. Next /\ plan' = plan
    BY <1>2 DEF RacesNext
  <2>2. ASSUME plan = SlotRace, NEW s \in Session PROVE request'[s].op # "apply"
    <3>1. SlotRace.ops = SlotRaces /\ "apply" \notin SlotRaces
      BY DEF SlotRace, SlotRaces
    <3>2. Starts(s) => WithinPlan(request'[s])
      BY <1>2 DEF RacesNext
    <3>3. WithinPlan(request'[s]) => request'[s].op \in SlotRaces
      BY <2>2, <3>1 DEF WithinPlan
    <3>4. \/ request'[s].op \in {request[s].op, "none"}
          \/ request[s] = Idle
      BY <2>1, OpStays
    <3>5. request[s].op # "apply" /\ Idle.op # "apply"
      BY <2>2 DEF PlanInv, Idle
    <3> QED
      BY <3>1, <3>2, <3>3, <3>4, <3>5 DEF Starts
  <2>3. ASSUME plan = BothPeriods PROVE Undisturbed'
    <3>1. BothPeriods.sessions = 1
      BY DEF BothPeriods
    <3>2. Cardinality(Working') <= 1
      BY <1>2, <2>3, <3>1 DEF RacesNext
    <3>3. PICK S : S = Working'
      OBVIOUS
    <3>4. S = {s \in Session : request'[s] # Idle}
      BY <3>3 DEF Working, Idle
    <3>5. IsFiniteSet(S)
      BY <3>4, FS_Subset
    <3>6. \A s, t \in S : s = t
      BY <3>2, <3>3, <3>5, AtMostOne
    <3> QED
      BY <3>4, <3>6 DEF Undisturbed, Idle
  <2>4. plan = SlotRace => MovesApart'
    BY <1>2 DEF RacesNext
  <2> QED
    BY <2>1, <2>2, <2>3, <2>4 DEF PlanInv
<1> QED
  BY <1>1, <1>2

LEMMA PlansApart ==
    ASSUME PlanInv, plan # ApplyRace PROVE AppliesApart /\ MovesApart
<1>1. ASSUME NEW s \in Session, CommitApply(s) PROVE request[s].op = "apply" /\ request[s] # Idle
  BY <1>1 DEF CommitApply, At, Idle
<1>2. Idle.op \notin Saves
  BY DEF Idle, Saves, PayrollOps, SavedByEntity
<1>3. CASE plan = SlotRace
  BY <1>1, <1>3, PlansDiffer DEF PlanInv, AppliesApart
<1>4. CASE plan = BothPeriods
  <2>1. ASSUME NEW s \in Session, NEW t \in Session, CommitApply(s), s # t
        PROVE  request[t].op \notin Saves
    BY <1>1, <1>2, <1>4, <2>1 DEF PlanInv, Undisturbed
  <2>2. AppliesApart
    BY <2>1 DEF AppliesApart
  <2>3. Idle.op # "update" /\ Idle.pc = "idle"
    BY DEF Idle
  <2>4. MovesApart
    BY <1>4, <2>3 DEF PlanInv, Undisturbed, MovesApart
  <2> QED
    BY <2>2, <2>4
<1> QED
  BY <1>3, <1>4 DEF PlanInv

LEMMA RacesAreNomina ==
    /\ RacesInit => Init /\ PlanInv
    /\ [RacesNext]_<<vars, plan>> => [Next]_vars /\ plan' = plan
<1>1. ASSUME RacesInit PROVE Init /\ PlanInv
  <2>1. \A s \in Session : request[s] = Idle
    BY <1>1, SessionIsProcess DEF RacesInit, Init
  <2>2. Idle.op = "none"
    BY DEF Idle
  <2> QED
    BY <1>1, <2>1, <2>2 DEF RacesInit, PlanInv, Undisturbed, MovesApart
<1>2. ASSUME [RacesNext]_<<vars, plan>> PROVE [Next]_vars /\ plan' = plan
  BY <1>2 DEF RacesNext
<1> QED
  BY <1>1, <1>2

\* The same when payrolls are applied too, as long as one request is served at a time: in
\* all the races but that with apply a slot has one payroll at work, for any number of
\* sessions, payrolls and slots.
THEOREM RacesKeepSlots == IsFiniteSet(Session) => (RacesSpec => []OneOperationalInRaces)
<1> SUFFICES ASSUME IsFiniteSet(Session) PROVE RacesSpec => []OneOperationalInRaces
  OBVIOUS
<1> DEFINE Raced == plan # ApplyRace => RaceInv
<1>1. RacesInit => Init /\ PlanInv /\ Raced
  BY RacesAreNomina, InitRaces
<1>2. [RacesNext]_<<vars, plan>> => [Next]_vars
  BY RacesAreNomina
<1>3. IInv /\ PlanInv /\ [RacesNext]_<<vars, plan>> => PlanInv'
  BY PlanKept
<1>4. IInv /\ PlanInv /\ Raced /\ [RacesNext]_<<vars, plan>> => Raced'
  BY RacesAreNomina, PlansApart, NextRaces
<1>5. IInv /\ Raced => OneOperationalInRaces
  BY RaceExclusive DEF OneOperationalInRaces
<1> HIDE DEF Raced
<1>6. RacesSpec => Spec
  BY <1>1, <1>2, PTL DEF RacesSpec, Spec
<1> QED
  BY <1>1, <1>3, <1>4, <1>5, <1>6, Inductive, PTL DEF RacesSpec
=============================================================================
