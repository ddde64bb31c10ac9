---------------------------- MODULE SerialProofs ----------------------------
(***************************************************************************)
(* What Nomina promises when its requests are served one at a time, for    *)
(* any number of payrolls, slots, actions and employees.  In the first     *)
(* part the cron, the nightly job and the events still run between the     *)
(* steps of a request; in the second, on what becomes of the actions,      *)
(* they are off, for they do write what a request has read.                *)
(***************************************************************************)
EXTENDS NominaProofs

\* Requests never overlap.
Alone == \A s, t \in Session : s = t

InProcess == {"ABIERTA", "EN_PROCESO"}

\* A payroll at work is active and holds its slot in the unique index.
Fits(row) ==
    row.estado \in Operational => row.activo /\ row.slotKey = Key(row.slot) /\ row.isActiveSlot

\* The state a handler asks of the row it loads, and the one its entity has.
Moves(op, from, to) ==
    \/ op = "create" /\ from = "ABIERTA" /\ to = "ABIERTA"
    \/ op = "update" /\ from = "ABIERTA" /\ to = "ABIERTA"
    \/ op = "verify" /\ from = "EN_PROCESO" /\ to = "VERIFICADA"
    \/ op = "reopen" /\ from = "VERIFICADA" /\ to = "ABIERTA"
    \/ op \in {"include", "exclude"} /\ from \notin {"NONE", "APLICADA"} /\ to = from
    \/ op = "process" /\ from \in InProcess /\ to = "EN_PROCESO"
    \/ op = "inactivate" /\ from \in Operational /\ to = "INACTIVA"
    \/ op = "reactivate" /\ from = "INACTIVA" /\ to = "ABIERTA"

\* The entity is the row with what the handler changes.
Edits(op, row, ent) ==
    /\ Moves(op, row.estado, ent.estado)
    /\ op # "update" => ent.slot = row.slot
    /\ op # "process" => (row.requiresRecalculation => ent.requiresRecalculation)
    /\ op \in {"include", "exclude"} =>
          ent.requiresRecalculation /\ ent.slotKey = row.slotKey /\ ent.isActiveSlot = row.isActiveSlot
    /\ op = "create" => ent = row
    /\ Fits(ent)

Consumes(a) == action[a].estado = "CONSUMED"

\* What the request under way holds is what the tables have.
Holds(r) ==
    /\ r.op = "create" /\ r.pc = "new" => r.ent.estado = "ABIERTA" /\ Fits(r.ent)
    /\ r.op \in Saves /\ r.pc \in Busy => Edits(r.op, payroll[r.p], r.ent)
    /\ r.op \in Saves /\ r.pc = "ready" => r.db = payroll[r.p]
    /\ r.op = "process" /\ r.pc = "ready" =>
          r.emps = Included(r.p) /\ \A a \in r.fresh : ~Consumes(a)
    /\ r.op = "apply" /\ r.pc = "ready" =>
          r.emps = results[r.p] /\ \A e \in results[r.p] : selection[r.p][e] # "reval"
    /\ r.op = "reactivate" /\ r.pc = "ready" => \A a \in r.acts : ~Consumes(a)
    /\ r.op = "approve" /\ r.pc \in Busy => ~Consumes(r.a)
    /\ r.op = "approve" /\ r.pc = "ready" => payroll[r.p].estado \in InProcess
    /\ r.pc = "mark" => payroll[r.p].estado \in InProcess
    /\ r.op \in SavedActionOps /\ r.pc \in Busy => ~Consumes(r.a) /\ r.ent.estado # "CONSUMED"

SerialInv ==
    /\ \A p \in Payroll : Fits(payroll[p])
    /\ Indexed
    /\ ConsumedByAppliedPayroll
    /\ AguinaldoMatchesResults
    /\ \A s \in Session : Holds(request[s])
----------------------------------------------------------------------------
(* What a step must keep *)

\* No step consumes an action, or changes one that is consumed.
NoneConsumed == \A a \in Action : Consumes(a)' => action'[a] = action[a]

SamePapers(p) ==
    inputs'[p] = inputs[p] /\ results'[p] = results[p] /\ selection'[p] = selection[p]

StaysApplied ==
    \A p \in Payroll : payroll[p].estado = "APLICADA" => payroll'[p] = payroll[p] /\ SamePapers(p)

Maps == [Lifecycle!Next]_(Lifecycle!vars)

Kept == SerialInv' /\ StaysApplied /\ Maps

LEMMA Someone ==
    ASSUME NEW s \in Session PROVE s \in Processes /\ s # Cron
  BY SetsAssumption DEF Processes

\* Requests at rest, and those that only have to tell others, hold nothing.
LEMMA NothingHeld ==
    ASSUME NEW r, r.pc \in {"idle", "orphans", "link", "flag"} PROVE Holds(r) /\ Holds(r)'
  BY DEF Holds, Busy

LEMMA RestHolds == Holds(Idle) /\ Holds(Idle)'
<1>1. Idle.pc = "idle"
  BY DEF Idle
<1> QED
  BY <1>1, NothingHeld

\* Alone, a request that moves is the only one that could hold anything.
LEMMA MoverHolds ==
    ASSUME Alone, IInv, NEW s \in Session, NEW r, Step(s, r), Holds(r)'
    PROVE  \A t \in Session : Holds(request[t])'
<1>1. s \in DOMAIN request
  BY Someone DEF IInv, RequestsOK
<1>2. request'[s] = r
  BY <1>1 DEF Step
<1>3. Holds(request[s])'
  BY <1>2
<1>4. \A t \in Session : t = s
  BY DEF Alone
<1> QED
  BY <1>3, <1>4

\* What is held stays true while others work on unconsumed actions only.
LEMMA HoldsStays ==
    ASSUME NEW r \in RequestRow, WellFormed(r), Holds(r),
           UNCHANGED <<payroll, selection, results>>, NoneConsumed
    PROVE  Holds(r)'
<1>1. \A a \in Action : ~Consumes(a) => ~Consumes(a)'
  BY DEF NoneConsumed, Consumes
<1>2. r.acts \subseteq Action /\ r.fresh \subseteq Action
  BY DEF RequestRow
<1>3. r.op \in {"approve"} \cup SavedActionOps /\ r.pc \in Busy => r.a \in Action
  BY DEF WellFormed, TargetOps
<1>4. Included(r.p)' = Included(r.p)
  BY DEF Included
<1> QED
  BY <1>1, <1>2, <1>3, <1>4 DEF Holds

LEMMA OthersHold ==
    ASSUME IInv, SerialInv, UNCHANGED <<payroll, selection, results>>, NoneConsumed,
           \A t \in Session : request'[t] = request[t]
    PROVE  \A t \in Session : Holds(request[t])'
<1>1. ASSUME NEW t \in Session PROVE Holds(request[t])'
  <2>1. request[t] \in RequestRow /\ WellFormed(request[t])
    BY Someone, InFlight
  <2>2. Holds(request[t])
    BY DEF SerialInv
  <2>3. request'[t] = request[t]
    OBVIOUS
  <2> QED
    BY <2>1, <2>2, <2>3, HoldsStays
<1> QED
  BY <1>1

\* Consumption and provisions are settled while nobody applies.
LEMMA SettledKept ==
    ASSUME IInv, SerialInv, NoneConsumed, UNCHANGED aguinaldo, StaysApplied,
           \A p \in Payroll : payroll'[p].estado = "APLICADA" => payroll[p].estado = "APLICADA"
    PROVE  ConsumedByAppliedPayroll' /\ AguinaldoMatchesResults'
<1>1. \A p \in Payroll : /\ payroll'[p].estado = "APLICADA" <=> payroll[p].estado = "APLICADA"
                         /\ payroll[p].estado = "APLICADA" => results'[p] = results[p]
  BY DEF StaysApplied, SamePapers
<1>2. ConsumedByAppliedPayroll'
  BY <1>1 DEF SerialInv, ConsumedByAppliedPayroll, NoneConsumed, Consumes
<1>3. AguinaldoMatchesResults'
  BY <1>1 DEF SerialInv, AguinaldoMatchesResults
<1> QED
  BY <1>2, <1>3

LEMMA SameStates ==
    ASSUME \A p \in Payroll : payroll'[p].estado = payroll[p].estado
                               /\ payroll'[p].slot = payroll[p].slot
    PROVE  Maps
  BY DEF Maps, Lifecycle!vars

\* A step that leaves the tables of payrolls alone.
LEMMA QuietKeeps ==
    ASSUME IInv, SerialInv, UNCHANGED <<payroll, selection, inputs, results, aguinaldo>>,
           NoneConsumed, \A t \in Session : Holds(request[t])'
    PROVE  Kept
<1>1. StaysApplied
  BY DEF StaysApplied, SamePapers
<1>2. Maps
  BY SameStates
<1>3. ConsumedByAppliedPayroll' /\ AguinaldoMatchesResults'
  BY <1>1, SettledKept
<1>4. Indexed' /\ \A p \in Payroll : Fits(payroll[p])'
  BY DEF SerialInv, Indexed, Exists, SameKey, Fits
<1> QED
  BY <1>1, <1>2, <1>3, <1>4 DEF Kept, SerialInv

\* A row that the index lets in.
LEMMA RowEnters ==
    ASSUME IInv, SerialInv, NEW p \in Payroll, NEW row \in PayrollRow, Fits(row),
           payroll' = [payroll EXCEPT ![p] = row], IndexAllows(p, row)
    PROVE  Indexed' /\ \A q \in Payroll : Fits(payroll[q])'
<1>1. \A q \in Payroll : payroll'[q] = IF q = p THEN row ELSE payroll[q]
  BY DEF IInv, TablesOK
<1>2. Indexed'
  BY <1>1 DEF SerialInv, Indexed, IndexAllows, Exists, SameKey
<1>3. \A q \in Payroll : Fits(payroll[q])'
  BY <1>1 DEF SerialInv, Fits
<1> QED
  BY <1>2, <1>3

\* A payroll at work in a slot keeps rows that would work there out of the index.
LEMMA FreeSlot ==
    ASSUME IInv, SerialInv, NEW p \in Payroll, NEW row \in PayrollRow, Fits(row),
           row.estado \in Operational, IndexAllows(p, row)
    PROVE  Lifecycle!Free(row.slot, p)
<1>1. /\ row.slotKey = Key(row.slot) /\ row.isActiveSlot = TRUE
      /\ ~Key(row.slot).tagged
  BY DEF Fits, PayrollRow, Key
<1>2. ASSUME NEW q \in Payroll, payroll[q].estado \in Operational
      PROVE  payroll[q].slotKey = Key(payroll[q].slot) /\ payroll[q].isActiveSlot = TRUE /\ Exists(q)
  <2>1. payroll[q] \in PayrollRow /\ Fits(payroll[q])
    BY DEF IInv, TablesOK, SerialInv
  <2> QED
    BY <1>2, <2>1 DEF Fits, PayrollRow, Operational, Exists
<1> QED
  BY <1>1, <1>2 DEF IndexAllows, SameKey, Lifecycle!Free, Lifecycle!Working, Operational

\* How the abstract variables move with a row.
LEMMA RowMoves ==
    ASSUME IInv, NEW p \in Payroll, NEW row \in PayrollRow, payroll' = [payroll EXCEPT ![p] = row]
    PROVE  /\ [q \in Payroll |-> payroll'[q].estado] =
                 [[q \in Payroll |-> payroll[q].estado] EXCEPT ![p] = row.estado]
           /\ [q \in Payroll |-> payroll'[q].slot] =
                 [[q \in Payroll |-> payroll[q].slot] EXCEPT ![p] = row.slot]
           /\ row.slot = payroll[p].slot =>
                 [q \in Payroll |-> payroll'[q].slot] = [q \in Payroll |-> payroll[q].slot]
           /\ row.estado = payroll[p].estado =>
                 [q \in Payroll |-> payroll'[q].estado] = [q \in Payroll |-> payroll[q].estado]
<1>1. \A q \in Payroll : payroll'[q] = IF q = p THEN row ELSE payroll[q]
  BY DEF IInv, TablesOK
<1>2. [q \in Payroll |-> payroll'[q].estado] =
         [[q \in Payroll |-> payroll[q].estado] EXCEPT ![p] = row.estado]
  <2> DEFINE g == [q \in Payroll |-> IF q = p THEN row.estado ELSE payroll[q].estado]
  <2>1. [q \in Payroll |-> payroll'[q].estado] = g
    BY <1>1
  <2>2. [[q \in Payroll |-> payroll[q].estado] EXCEPT ![p] = row.estado] = g
    OBVIOUS
  <2> QED
    BY <2>1, <2>2
<1>4. [q \in Payroll |-> payroll'[q].slot] =
         [[q \in Payroll |-> payroll[q].slot] EXCEPT ![p] = row.slot]
  <2> DEFINE g == [q \in Payroll |-> IF q = p THEN row.slot ELSE payroll[q].slot]
  <2>1. [q \in Payroll |-> payroll'[q].slot] = g
    BY <1>1
  <2>2. [[q \in Payroll |-> payroll[q].slot] EXCEPT ![p] = row.slot] = g
    OBVIOUS
  <2> QED
    BY <2>1, <2>2
<1>5. ASSUME row.slot = payroll[p].slot
      PROVE  [q \in Payroll |-> payroll'[q].slot] = [q \in Payroll |-> payroll[q].slot]
  BY <1>1, <1>5
<1>6. ASSUME row.estado = payroll[p].estado
      PROVE  [q \in Payroll |-> payroll'[q].estado] = [q \in Payroll |-> payroll[q].estado]
  BY <1>1, <1>6
<1> QED
  BY <1>2, <1>4, <1>5, <1>6
----------------------------------------------------------------------------
(* Loads and views *)

LEMMA SameHolds ==
    ASSUME UNCHANGED tables, NEW r, Holds(r) PROVE Holds(r)'
  BY DEF tables, Holds, Edits, Consumes, Included

\* A step of a request that writes nothing.
LEMMA ReadKeeps ==
    ASSUME Alone, IInv, SerialInv, NEW s \in Session, NEW r, Step(s, r), UNCHANGED tables, Holds(r)
    PROVE  Kept
<1>1. \A t \in Session : Holds(request[t])'
  BY SameHolds, MoverHolds
<1>2. NoneConsumed /\ UNCHANGED <<payroll, selection, inputs, results, aguinaldo>>
  BY DEF NoneConsumed, tables
<1> QED
  BY <1>1, <1>2, QuietKeeps

LEMMA LoadKeeps ==
    ASSUME Alone, IInv, SerialInv, NEW s \in Session, NEW op \in Saves, NEW p \in Payroll, NEW ent,
           Load(s, op, p, NoAction, ent), Edits(op, payroll[p], ent)
    PROVE  Kept
<1> DEFINE r == [Idle EXCEPT !.op = op, !.pc = "loaded", !.p = p, !.a = NoAction, !.ent = ent]
<1>1. Step(s, r) /\ UNCHANGED tables
  BY DEF Load
<1>2. r.op = op /\ r.pc = "loaded" /\ r.p = p /\ r.ent = ent
  BY DEF Idle
<1> HIDE DEF r
<1>3. Holds(r)
  BY <1>2 DEF Holds, Saves, PayrollOps, SavedByEntity, SavedActionOps, Busy
<1> QED
  BY <1>1, <1>3, ReadKeeps

LEMMA PayrollLoadKeeps ==
    ASSUME Alone, IInv, SerialInv, NEW s \in Session, PayrollLoad(s)
    PROVE  Kept
<1>1. ASSUME NEW slot \in Slot, LoadCreate(s, slot) PROVE Kept
  <2> DEFINE ent == [estado |-> "ABIERTA", versionLock |-> 0, requiresRecalculation |-> FALSE,
                     activo |-> TRUE, slot |-> slot, slotKey |-> Key(slot), isActiveSlot |-> TRUE]
             r == [Idle EXCEPT !.op = "create", !.pc = "new", !.ent = ent]
  <2>1. Step(s, r) /\ UNCHANGED tables
    BY <1>1 DEF LoadCreate
  <2>2. r.op = "create" /\ r.pc = "new" /\ r.ent.estado = "ABIERTA" /\ Fits(r.ent)
    BY DEF Idle, Fits
  <2> HIDE DEF r
  <2>3. Holds(r)
    BY <2>2 DEF Holds, Saves, PayrollOps, SavedByEntity, SavedActionOps, Busy
  <2> QED
    BY <2>1, <2>3, ReadKeeps
<1>2. ASSUME NEW p \in Payroll PROVE payroll[p] \in PayrollRow /\ Fits(payroll[p])
  BY DEF IInv, TablesOK, SerialInv
<1>3. ASSUME NEW p \in Payroll, LoadVerify(s, p) PROVE Kept
  <2> DEFINE ent == [payroll[p] EXCEPT !.estado = "VERIFICADA", !.versionLock = Bump(p, 1)]
  <2>1. Edits("verify", payroll[p], ent)
    BY <1>2, <1>3 DEF LoadVerify, Edits, Moves, Fits, Operational, PayrollRow
  <2>2. Load(s, "verify", p, NoAction, ent)
    BY <1>3 DEF LoadVerify
  <2> HIDE DEF ent
  <2> QED
    BY <2>1, <2>2, LoadKeeps DEF Saves, PayrollOps, SavedByEntity
<1>4. ASSUME NEW p \in Payroll, LoadReopen(s, p) PROVE Kept
  <2> DEFINE ent == [payroll[p] EXCEPT !.estado = "ABIERTA", !.versionLock = Bump(p, 1)]
  <2>1. Edits("reopen", payroll[p], ent)
    BY <1>2, <1>4 DEF LoadReopen, Edits, Moves, Fits, Operational, PayrollRow
  <2>2. Load(s, "reopen", p, NoAction, ent)
    BY <1>4 DEF LoadReopen
  <2> HIDE DEF ent
  <2> QED
    BY <2>1, <2>2, LoadKeeps DEF Saves, PayrollOps, SavedByEntity
<1>5. ASSUME NEW p \in Payroll, LoadProcess(s, p) PROVE Kept
  <2> DEFINE ent == [payroll[p] EXCEPT !.estado = "EN_PROCESO", !.requiresRecalculation = FALSE,
                                       !.versionLock = Bump(p, 2)]
  <2>1. Edits("process", payroll[p], ent)
    BY <1>2, <1>5 DEF LoadProcess, Edits, Moves, InProcess, Fits, Operational, PayrollRow
  <2>2. Load(s, "process", p, NoAction, ent)
    BY <1>5 DEF LoadProcess
  <2> HIDE DEF ent
  <2> QED
    BY <2>1, <2>2, LoadKeeps DEF Saves, PayrollOps, SavedByEntity
<1>6. ASSUME NEW p \in Payroll, LoadApply(s, p) PROVE Kept
  <2> DEFINE r == [Idle EXCEPT !.op = "apply", !.pc = "loaded", !.p = p, !.a = NoAction,
                               !.ent = payroll[p]]
  <2>1. Step(s, r) /\ UNCHANGED tables
    BY <1>6 DEF LoadApply, Load
  <2>2. r.op = "apply" /\ r.pc = "loaded"
    BY DEF Idle
  <2> HIDE DEF r
  <2>3. Holds(r)
    BY <2>2 DEF Holds, Saves, SavedActionOps
  <2> QED
    BY <2>1, <2>3, ReadKeeps
<1>7. ASSUME NEW p \in Payroll, LoadInactivate(s, p) PROVE Kept
  <2> DEFINE ent == [payroll[p] EXCEPT !.estado = "INACTIVA", !.activo = FALSE,
                                       !.slotKey = [@ EXCEPT !.tagged = TRUE],
                                       !.isActiveSlot = FALSE, !.versionLock = Bump(p, 1)]
  <2>1. Edits("inactivate", payroll[p], ent)
    BY <1>2, <1>7 DEF LoadInactivate, Edits, Moves, Fits, Operational, PayrollRow
  <2>2. Load(s, "inactivate", p, NoAction, ent)
    BY <1>7 DEF LoadInactivate
  <2> HIDE DEF ent
  <2> QED
    BY <2>1, <2>2, LoadKeeps DEF Saves, PayrollOps, SavedByEntity
<1>8. ASSUME NEW p \in Payroll, LoadReactivate(s, p) PROVE Kept
  <2> DEFINE ent == [payroll[p] EXCEPT !.estado = "ABIERTA", !.activo = TRUE,
                                       !.slotKey = Key(payroll[p].slot),
                                       !.isActiveSlot = TRUE, !.versionLock = Bump(p, 1)]
  <2>1. Edits("reactivate", payroll[p], ent)
    BY <1>2, <1>8 DEF LoadReactivate, Edits, Moves, Fits, Operational, PayrollRow
  <2>2. Load(s, "reactivate", p, NoAction, ent)
    BY <1>8 DEF LoadReactivate
  <2> HIDE DEF ent
  <2> QED
    BY <2>1, <2>2, LoadKeeps DEF Saves, PayrollOps, SavedByEntity
<1>9. ASSUME NEW p \in Payroll, NEW slot \in Slot, LoadUpdate(s, p, slot) PROVE Kept
  <2> DEFINE ent == [payroll[p] EXCEPT !.slot = slot, !.slotKey = Key(slot),
                                       !.versionLock = Bump(p, 1)]
  <2>1. Edits("update", payroll[p], ent)
    BY <1>2, <1>9 DEF LoadUpdate, Edits, Moves, Fits, Operational, PayrollRow
  <2>2. Load(s, "update", p, NoAction, ent)
    BY <1>9 DEF LoadUpdate
  <2> HIDE DEF ent
  <2> QED
    BY <2>1, <2>2, LoadKeeps DEF Saves, PayrollOps, SavedByEntity
<1>10. ASSUME NEW p \in Payroll, NEW op \in {"include", "exclude"},
              NEW emps \in (SUBSET Employee) \ {{}}, LoadSelection(s, p, op, emps)
       PROVE  Kept
  <2> DEFINE ent == [payroll[p] EXCEPT !.requiresRecalculation = TRUE, !.versionLock = Bump(p, 1)]
             r == [Idle EXCEPT !.op = op, !.pc = "loaded", !.p = p, !.emps = emps, !.ent = ent]
  <2>1. Step(s, r) /\ UNCHANGED tables
    BY <1>10 DEF LoadSelection
  <2>2. Edits(op, payroll[p], ent)
    BY <1>2, <1>10 DEF LoadSelection, Exists, Edits, Moves, Fits, Operational, PayrollRow
  <2> HIDE DEF ent
  <2>3. r.op = op /\ r.pc = "loaded" /\ r.p = p /\ r.ent = ent
    BY DEF Idle
  <2> HIDE DEF r
  <2>4. Holds(r)
    BY <2>2, <2>3 DEF Holds, Saves, PayrollOps, SavedByEntity, SavedActionOps, Busy
  <2> QED
    BY <2>1, <2>4, ReadKeeps
<1> QED
  BY <1>1, <1>3, <1>4, <1>5, <1>6, <1>7, <1>8, <1>9, <1>10 DEF PayrollLoad

LEMMA ViewHolds ==
    ASSUME NEW old, Holds(old), old.op \in Saves \ {"process", "reactivate"}, old.pc = "loaded",
           NEW r, r.op = old.op, r.pc = "ready", r.p = old.p, r.ent = old.ent,
           r.db = payroll[old.p]
    PROVE  Holds(r)
  BY DEF Holds, Saves, PayrollOps, SavedByEntity, SavedActionOps, Busy

LEMMA PayrollViewKeeps ==
    ASSUME Alone, IInv, SerialInv, NEW s \in Session, PayrollView(s)
    PROVE  Kept
<1> DEFINE old == request[s]
<1>1. old \in RequestRow /\ WellFormed(old) /\ Holds(old)
  BY Someone, InFlight DEF SerialInv
<1>2. ASSUME ViewCreate(s) \/ ViewUpdate(s) \/ ViewVerify(s) \/ ViewReopen(s) PROVE Kept
  <2> DEFINE r == [old EXCEPT !.pc = "ready", !.db = payroll[old.p]]
  <2>1. Step(s, r) /\ UNCHANGED tables /\ old.op \in {"create", "update", "verify", "reopen"}
        /\ old.pc = "loaded"
    BY <1>2 DEF ViewCreate, ViewUpdate, ViewVerify, ViewReopen, At, ReadyToSave
  <2>2. r.op = old.op /\ r.pc = "ready" /\ r.p = old.p /\ r.ent = old.ent /\ r.db = payroll[old.p]
    BY <1>1 DEF RequestRow
  <2> HIDE DEF r
  <2>3. Holds(r)
    BY <1>1, <2>1, <2>2, ViewHolds DEF Saves, PayrollOps, SavedByEntity
  <2> QED
    BY <2>1, <2>3, ReadKeeps
<1>3. ASSUME ViewInactivate(s) PROVE Kept
  <2> DEFINE r == [old EXCEPT !.pc = "ready", !.db = payroll[old.p], !.acts = Attached(old.p)]
  <2>1. Step(s, r) /\ UNCHANGED tables /\ old.op = "inactivate" /\ old.pc = "loaded"
    BY <1>3 DEF ViewInactivate, At
  <2>2. r.op = old.op /\ r.pc = "ready" /\ r.p = old.p /\ r.ent = old.ent /\ r.db = payroll[old.p]
    BY <1>1 DEF RequestRow
  <2> HIDE DEF r
  <2>3. Holds(r)
    BY <1>1, <2>1, <2>2, ViewHolds DEF Saves, PayrollOps, SavedByEntity
  <2> QED
    BY <2>1, <2>3, ReadKeeps
<1>4. ASSUME ViewProcess(s) PROVE Kept
  <2> DEFINE acts == Collected(old.p, old.ent.slot)
             fresh == {a \in acts : action[a].idCalendarioNomina = NoPayroll}
             r == [old EXCEPT !.pc = "ready", !.db = payroll[old.p], !.acts = acts,
                              !.fresh = fresh, !.emps = Included(old.p)]
  <2>1. Step(s, r) /\ UNCHANGED tables /\ old.op = "process" /\ old.pc = "loaded"
    BY <1>4 DEF ViewProcess, At
  <2>2. \A a \in fresh : ~Consumes(a)
    BY DEF Collected, Consumes
  <2> HIDE DEF fresh, acts
  <2>3. /\ r.op = old.op /\ r.pc = "ready" /\ r.p = old.p /\ r.ent = old.ent
        /\ r.db = payroll[old.p] /\ r.fresh = fresh /\ r.emps = Included(old.p)
    BY <1>1 DEF RequestRow
  <2> HIDE DEF r
  <2>4. Holds(r)
    BY <1>1, <2>1, <2>2, <2>3 DEF Holds, Saves, PayrollOps, SavedByEntity, SavedActionOps, Busy
  <2> QED
    BY <2>1, <2>4, ReadKeeps
<1>5. ASSUME ViewApply(s) PROVE Kept
  <2> DEFINE r == [old EXCEPT !.pc = "ready", !.emps = results[old.p]]
  <2>1. Step(s, r) /\ UNCHANGED tables /\ old.op = "apply" /\ old.pc = "loaded"
        /\ \A e \in results[old.p] : selection[old.p][e] # "reval"
    BY <1>5 DEF ViewApply, At
  <2>2. r.op = old.op /\ r.pc = "ready" /\ r.p = old.p /\ r.emps = results[old.p]
    BY <1>1 DEF RequestRow
  <2> HIDE DEF r
  <2>3. Holds(r)
    BY <2>1, <2>2 DEF Holds, Saves, PayrollOps, SavedByEntity, SavedActionOps, Busy
  <2> QED
    BY <2>1, <2>3, ReadKeeps
<1>6. ASSUME ViewReactivate(s) PROVE Kept
  <2> DEFINE mine == {i \in orphans : i[1] = old.p}
             acts == {i[2] : i \in {j \in mine : Reassignable(j[1], j[2], old.p, old.ent)}}
             r == [old EXCEPT !.pc = "ready", !.db = payroll[old.p], !.items = mine,
                              !.acts = acts]
  <2>1. Step(s, r) /\ UNCHANGED tables /\ old.op = "reactivate" /\ old.pc = "loaded"
    BY <1>6 DEF ViewReactivate, At
  <2>2. \A a \in acts : ~Consumes(a)
    BY DEF Reassignable, IsFinal, FinalStates, Consumes
  <2> HIDE DEF acts, mine
  <2>3. /\ r.op = old.op /\ r.pc = "ready" /\ r.p = old.p /\ r.ent = old.ent
        /\ r.db = payroll[old.p] /\ r.acts = acts
    BY <1>1 DEF RequestRow
  <2> HIDE DEF r
  <2>4. Holds(r)
    BY <1>1, <2>1, <2>2, <2>3 DEF Holds, Saves, PayrollOps, SavedByEntity, SavedActionOps, Busy
  <2> QED
    BY <2>1, <2>4, ReadKeeps
<1>7. ASSUME ViewSelection(s) PROVE Kept
  <2> DEFINE r == [old EXCEPT !.pc = "ready", !.db = payroll[old.p]]
  <2>1. /\ Step(s, r) /\ old.op \in {"include", "exclude"} /\ old.pc = "loaded"
        /\ UNCHANGED <<payroll, action, inputs, results, aguinaldo>>
        /\ \A p \in Payroll : p # old.p => selection'[p] = selection[p]
    BY <1>7 DEF ViewSelection, At, ReadyToSave, IInv, TablesOK
  <2>2. PICK x : /\ Step(s, x) /\ x.op = old.op /\ x.pc = "ready" /\ x.p = old.p
                 /\ x.ent = old.ent /\ x.db = payroll[old.p]
    <3>1. r.op = old.op /\ r.pc = "ready" /\ r.p = old.p /\ r.ent = old.ent /\ r.db = payroll[old.p]
      BY <1>1 DEF RequestRow
    <3> HIDE DEF r
    <3> QED
      BY <2>1, <3>1
  <2> HIDE DEF r
  <2>3. Edits(old.op, payroll[old.p], old.ent)
    BY <1>1, <2>1 DEF Holds, Saves, PayrollOps, SavedByEntity, Busy
  <2>4. Holds(x)'
    BY <2>1, <2>2, <2>3 DEF Holds, Edits, Saves, PayrollOps, SavedByEntity, SavedActionOps, Busy
  <2>5. \A t \in Session : Holds(request[t])'
    BY <2>2, <2>4, MoverHolds
  <2>6. StaysApplied
    BY <2>1, <2>3 DEF StaysApplied, SamePapers, Edits, Moves
  <2>7. Maps
    BY <2>1, SameStates
  <2>8. ConsumedByAppliedPayroll' /\ AguinaldoMatchesResults'
    BY <2>1, <2>6, SettledKept DEF NoneConsumed
  <2>9. Indexed' /\ \A p \in Payroll : Fits(payroll[p])'
    BY <2>1 DEF SerialInv, Indexed, Exists, SameKey, Fits
  <2> QED
    BY <2>5, <2>6, <2>7, <2>8, <2>9 DEF Kept, SerialInv
<1> QED
  BY <1>2, <1>3, <1>4, <1>5, <1>6, <1>7 DEF PayrollView
----------------------------------------------------------------------------
(* Commits of the payroll service *)

\* The row is still the one that save() compared with: it writes the entity.
LEMMA SavesItsEntity ==
    ASSUME IInv, SerialInv, NEW s \in Session, request[s].op \in Saves, request[s].pc = "ready"
    PROVE  /\ request[s].p \in Payroll /\ request[s].ent \in PayrollRow
           /\ Merged(s) = request[s].ent
           /\ Edits(request[s].op, payroll[request[s].p], request[s].ent)
<1> DEFINE r == request[s]
<1>1. r \in RequestRow /\ WellFormed(r) /\ Holds(r)
  BY Someone, InFlight DEF SerialInv
<1>2. r.p \in Payroll /\ r.ent \in PayrollRow
  BY <1>1 DEF WellFormed, Saves, Busy
<1>3. r.db = payroll[r.p] /\ Edits(r.op, payroll[r.p], r.ent)
  BY <1>1 DEF Holds, Busy
<1>4. payroll[r.p] \in PayrollRow
  BY <1>2 DEF IInv, TablesOK
<1>5. \A row, ent \in PayrollRow : MergePayroll(row, row, ent) = ent
  BY DEF MergePayroll, Column, PayrollRow
<1> QED
  BY <1>2, <1>3, <1>4, <1>5 DEF Merged

\* A commit that writes one row which is not applied, before and after.
LEMMA CommitKeeps ==
    ASSUME IInv, SerialInv, NEW p \in Payroll, NEW row \in PayrollRow,
           Fits(row), payroll[p].estado # "APLICADA", row.estado # "APLICADA",
           payroll' = [payroll EXCEPT ![p] = row], IndexAllows(p, row),
           UNCHANGED <<selection, aguinaldo>>, \A q \in Payroll \ {p} : SamePapers(q),
           NoneConsumed, Maps, \A t \in Session : Holds(request[t])'
    PROVE  Kept
<1>1. \A q \in Payroll : payroll'[q] = IF q = p THEN row ELSE payroll[q]
  BY DEF IInv, TablesOK
<1>2. StaysApplied
  BY <1>1 DEF StaysApplied
<1>3. \A q \in Payroll : payroll'[q].estado = "APLICADA" => payroll[q].estado = "APLICADA"
  BY <1>1
<1>4. ConsumedByAppliedPayroll' /\ AguinaldoMatchesResults'
  BY <1>2, <1>3, SettledKept
<1>5. Indexed' /\ \A q \in Payroll : Fits(payroll[q])'
  BY RowEnters
<1> QED
  BY <1>2, <1>4, <1>5 DEF Kept, SerialInv

\* A request that ends, or goes on to the orphans, holds nothing.
LEMMA EndHolds ==
    ASSUME Alone, IInv, NEW s \in Session, NEW op, NEW p,
           Step(s, Idle) \/ Step(s, [Idle EXCEPT !.op = op, !.pc = "orphans", !.p = p])
    PROVE  \A t \in Session : Holds(request[t])'
<1> DEFINE r == [Idle EXCEPT !.op = op, !.pc = "orphans", !.p = p]
<1>1. r.pc = "orphans"
  BY DEF Idle
<1> HIDE DEF r
<1>2. Holds(r)'
  BY <1>1, NothingHeld
<1>3. CASE Step(s, Idle)
  BY <1>3, RestHolds, MoverHolds
<1>4. CASE Step(s, r)
  BY <1>2, <1>4, MoverHolds
<1> QED
  BY <1>3, <1>4 DEF r

LEMMA CreateKeeps ==
    ASSUME Alone, IInv, SerialInv, NEW s \in Session, NEW p \in Payroll, CommitCreate(s, p),
           NEW row, row = request[s].ent
    PROVE  Kept
<1> DEFINE r == request[s]
<1>1. r \in RequestRow /\ WellFormed(r) /\ Holds(r)
  BY Someone, InFlight DEF SerialInv
<1>2. row \in PayrollRow /\ row.estado = "ABIERTA" /\ Fits(row)
  BY <1>1 DEF CommitCreate, At, WellFormed, Unapplied, Holds
<1>3. payroll[p].estado = "NONE" /\ IndexAllows(p, row)
  BY DEF CommitCreate, Exists
<1>4. payroll' = [payroll EXCEPT ![p] = row]
  BY DEF CommitCreate
<1>5. Maps
  <2>0. [q \in Payroll |-> payroll'[q].estado] =
           [[q \in Payroll |-> payroll[q].estado] EXCEPT ![p] = "ABIERTA"]
    <3>1. [q \in Payroll |-> payroll'[q].estado] =
             [[q \in Payroll |-> payroll[q].estado] EXCEPT ![p] = row.estado]
      BY <1>2, <1>4, RowMoves
    <3> QED
      BY <1>2, <3>1
  <2>1. Lifecycle!Go(p, {"NONE"}, "ABIERTA")
    BY <1>3, <2>0 DEF Lifecycle!Go
  <2>2. Lifecycle!Free(row.slot, p)
    BY <1>2, <1>3, FreeSlot DEF Operational
  <2>3. PICK k \in Slot : k = row.slot
    BY <1>2 DEF PayrollRow
  <2>4. Lifecycle!Create(p, k)
    BY <1>2, <1>3, <1>4, <2>1, <2>2, <2>3, RowMoves DEF Lifecycle!Create
  <2> QED
    BY <2>4 DEF Maps, Lifecycle!Next
<1>6. \A t \in Session : Holds(request[t])'
  <2>0. PICK x : x = [r EXCEPT !.pc = "loaded", !.p = p]
    OBVIOUS
  <2>1. Step(s, x) /\ r.op = "create"
    BY <2>0 DEF CommitCreate, At
  <2>2. x.op = "create" /\ x.pc = "loaded" /\ x.p = p /\ x.ent = row
    BY <1>1, <2>0, <2>1 DEF RequestRow
  <2>3. payroll'[p] = row
    BY <1>4 DEF IInv, TablesOK
  <2>4. Edits("create", row, row)
    BY <1>2 DEF Edits, Moves
  <2>5. Edits(x.op, payroll[x.p], x.ent)'
    BY <2>2, <2>3, <2>4 DEF Edits, Fits, Key
  <2>6. Holds(x)'
    BY <2>2, <2>5 DEF Holds, Saves, PayrollOps, SavedByEntity, SavedActionOps, Busy
  <2> QED
    BY <2>1, <2>6, MoverHolds
<1>7. NoneConsumed /\ UNCHANGED <<selection, aguinaldo>> /\ \A q \in Payroll : SamePapers(q)
  BY DEF CommitCreate, NoneConsumed, SamePapers
<1> QED
  BY <1>2, <1>3, <1>4, <1>5, <1>6, <1>7, CommitKeeps

LEMMA SaveKeeps ==
    ASSUME Alone, IInv, SerialInv, NEW s \in Session, CommitSave(s),
           NEW p, p = request[s].p, NEW row, row = request[s].ent
    PROVE  Kept
<1> DEFINE r == request[s]
<1>1. /\ p \in Payroll /\ row \in PayrollRow /\ Merged(s) = row
      /\ Edits(r.op, payroll[p], row)
  BY SavesItsEntity DEF CommitSave, Saves, PayrollOps, SavedByEntity
<1>2. payroll' = [payroll EXCEPT ![p] = row] /\ IndexAllows(p, row)
  BY <1>1 DEF CommitSave
<1>3. r.op \in SavedByEntity
  BY DEF CommitSave
<1>4. Fits(row) /\ payroll[p].estado # "APLICADA" /\ row.estado # "APLICADA"
  BY <1>1, <1>3 DEF Edits, Moves, SavedByEntity, InProcess
<1>5. ASSUME r.op = "update" PROVE Maps
  <2>1. payroll[p].estado = "ABIERTA" /\ row.estado = "ABIERTA"
    BY <1>1, <1>5 DEF Edits, Moves
  <2>2. PICK k \in Slot : k = row.slot
    BY <1>1 DEF PayrollRow
  <2>3. Lifecycle!Free(k, p)
    BY <1>1, <1>2, <1>4, <2>1, <2>2, FreeSlot DEF Operational
  <2>4. [q \in Payroll |-> payroll'[q].estado] = [q \in Payroll |-> payroll[q].estado]
    BY <1>1, <1>2, <2>1, RowMoves
  <2>5. [q \in Payroll |-> payroll'[q].slot] = [[q \in Payroll |-> payroll[q].slot] EXCEPT ![p] = k]
    BY <1>1, <1>2, <2>2, RowMoves
  <2>6. Lifecycle!Move(p, k)
    BY <1>1, <2>1, <2>3, <2>4, <2>5 DEF Lifecycle!Move
  <2> QED
    BY <1>1, <2>6 DEF Maps, Lifecycle!Next
<1>6. ASSUME r.op \in {"create", "include", "exclude"} PROVE Maps
  <2>1. payroll[p].estado = row.estado /\ payroll[p].slot = row.slot
    BY <1>1, <1>6 DEF Edits, Moves
  <2> QED
    BY <1>1, <1>2, <2>1, SameStates DEF IInv, TablesOK
<1>7. ASSUME r.op = "verify" PROVE Maps
  <2>1. payroll[p].estado \in {"EN_PROCESO"} /\ row.estado = "VERIFICADA"
        /\ row.slot = payroll[p].slot
    BY <1>1, <1>7 DEF Edits, Moves
  <2>2. Lifecycle!Verify(p)
    BY <1>1, <1>2, <2>1, RowMoves DEF Lifecycle!Verify, Lifecycle!Go
  <2> QED
    BY <1>1, <2>2 DEF Maps, Lifecycle!Next
<1>8. ASSUME r.op = "reopen" PROVE Maps
  <2>1. payroll[p].estado \in {"VERIFICADA"} /\ row.estado = "ABIERTA"
        /\ row.slot = payroll[p].slot
    BY <1>1, <1>8 DEF Edits, Moves
  <2>2. Lifecycle!Reopen(p)
    BY <1>1, <1>2, <2>1, RowMoves DEF Lifecycle!Reopen, Lifecycle!Go
  <2> QED
    BY <1>1, <2>2 DEF Maps, Lifecycle!Next
<1>9. Maps
  BY <1>3, <1>5, <1>6, <1>7, <1>8 DEF SavedByEntity
<1>10. \A t \in Session : Holds(request[t])'
  BY EndHolds DEF CommitSave
<1>11. NoneConsumed /\ UNCHANGED <<selection, aguinaldo>> /\ \A q \in Payroll : SamePapers(q)
  BY DEF CommitSave, NoneConsumed, SamePapers
<1> QED
  BY <1>1, <1>2, <1>4, <1>9, <1>10, <1>11, CommitKeeps

LEMMA ProcessKeeps ==
    ASSUME Alone, IInv, SerialInv, NEW s \in Session, CommitProcess(s),
           NEW p, p = request[s].p, NEW row, row = request[s].ent
    PROVE  Kept
<1> DEFINE r == request[s]
<1>0. r.op = "process" /\ r.pc = "ready"
  BY DEF CommitProcess, At
<1>1. /\ p \in Payroll /\ row \in PayrollRow /\ Merged(s) = row
      /\ Edits("process", payroll[p], row)
  BY <1>0, SavesItsEntity DEF Saves, PayrollOps
<1>2. payroll' = [payroll EXCEPT ![p] = row] /\ IndexAllows(p, row)
  BY <1>1 DEF CommitProcess
<1>3. /\ Fits(row) /\ payroll[p].estado \in {"ABIERTA", "EN_PROCESO"}
      /\ row.estado = "EN_PROCESO" /\ row.slot = payroll[p].slot
  BY <1>1 DEF Edits, Moves, InProcess
<1>4. Lifecycle!Process(p)
  <2>1. /\ [q \in Payroll |-> payroll'[q].estado] =
              [[q \in Payroll |-> payroll[q].estado] EXCEPT ![p] = row.estado]
        /\ [q \in Payroll |-> payroll'[q].slot] = [q \in Payroll |-> payroll[q].slot]
    BY <1>1, <1>2, <1>3, RowMoves
  <2> QED
    BY <1>1, <1>3, <2>1 DEF Lifecycle!Process, Lifecycle!Go
<1>5. Maps
  BY <1>1, <1>4 DEF Maps, Lifecycle!Next
<1>6. \A a \in r.fresh : ~Consumes(a)
  BY <1>0 DEF SerialInv, Holds
<1>7. NoneConsumed
  <2>1. ASSUME NEW a \in Action, Consumes(a)' PROVE action'[a] = action[a]
    <3>0. action[a] \in ActionRow
      BY DEF IInv, TablesOK
    <3>1. CASE a \in r.fresh
      <4>1. action'[a] = [action[a] EXCEPT !.idCalendarioNomina = p]
        BY <3>1 DEF CommitProcess
      <4> QED
        BY <1>6, <2>1, <3>0, <3>1, <4>1 DEF Consumes, ActionRow
    <3>2. CASE a \notin r.fresh /\ Invalidable(a)
      <4>1. action'[a] = [action[a] EXCEPT !.estado = "INVALIDATED"]
        BY <3>2 DEF CommitProcess
      <4> QED
        BY <2>1, <3>0, <4>1 DEF Consumes, ActionRow
    <3> QED
      BY <3>1, <3>2 DEF CommitProcess
  <2> QED
    BY <2>1 DEF NoneConsumed
<1>8. UNCHANGED <<selection, aguinaldo>> /\ \A q \in Payroll \ {p} : SamePapers(q)
  BY DEF CommitProcess, SamePapers, IInv, TablesOK
<1>9. \A t \in Session : Holds(request[t])'
  BY EndHolds DEF CommitProcess
<1> QED
  BY <1>1, <1>2, <1>3, <1>5, <1>7, <1>8, <1>9, CommitKeeps

LEMMA InactivateKeeps ==
    ASSUME Alone, IInv, SerialInv, NEW s \in Session, CommitInactivate(s),
           NEW p, p = request[s].p, NEW row, row = request[s].ent
    PROVE  Kept
<1> DEFINE r == request[s]
<1>0. r.op = "inactivate" /\ r.pc = "ready"
  BY DEF CommitInactivate, At
<1>1. /\ p \in Payroll /\ row \in PayrollRow /\ Merged(s) = row
      /\ Edits("inactivate", payroll[p], row)
  BY <1>0, SavesItsEntity DEF Saves, PayrollOps
<1>2. payroll' = [payroll EXCEPT ![p] = row] /\ IndexAllows(p, row)
  BY <1>1 DEF CommitInactivate
<1>3. /\ Fits(row) /\ payroll[p].estado \in {"ABIERTA", "EN_PROCESO", "VERIFICADA"}
      /\ row.estado = "INACTIVA" /\ row.slot = payroll[p].slot
  BY <1>1 DEF Edits, Moves, Operational
<1>4. Lifecycle!Inactivate(p)
  <2>1. /\ [q \in Payroll |-> payroll'[q].estado] =
              [[q \in Payroll |-> payroll[q].estado] EXCEPT ![p] = row.estado]
        /\ [q \in Payroll |-> payroll'[q].slot] = [q \in Payroll |-> payroll[q].slot]
    BY <1>1, <1>2, <1>3, RowMoves
  <2> QED
    BY <1>1, <1>3, <2>1 DEF Lifecycle!Inactivate, Lifecycle!Go
<1>5. Maps
  BY <1>1, <1>4 DEF Maps, Lifecycle!Next
<1>6. NoneConsumed
  <2>1. \A a \in Action : action'[a] # action[a] => action'[a].estado = "PENDING_RRHH"
    BY DEF CommitInactivate
  <2> QED
    BY <2>1 DEF NoneConsumed, Consumes
<1>7. UNCHANGED <<selection, aguinaldo>> /\ \A q \in Payroll : SamePapers(q)
  BY DEF CommitInactivate, SamePapers
<1>8. \A t \in Session : Holds(request[t])'
  BY EndHolds DEF CommitInactivate
<1> QED
  BY <1>1, <1>2, <1>3, <1>5, <1>6, <1>7, <1>8, CommitKeeps

LEMMA RelinkedIsPending ==
    ASSUME IInv, NEW a \in Action, NEW p
    PROVE  Relinked(a, p).estado = "PENDING_RRHH"
  BY DEF Relinked, IInv, TablesOK, ActionRow

LEMMA ReactivateKeeps ==
    ASSUME Alone, IInv, SerialInv, NEW s \in Session, CommitReactivate(s),
           NEW p, p = request[s].p, NEW row, row = request[s].ent
    PROVE  Kept
<1> DEFINE r == request[s]
<1>0. r.op = "reactivate" /\ r.pc = "ready"
  BY DEF CommitReactivate, At
<1>1. /\ p \in Payroll /\ row \in PayrollRow /\ Merged(s) = row
      /\ Edits("reactivate", payroll[p], row)
  BY <1>0, SavesItsEntity DEF Saves, PayrollOps
<1>2. payroll' = [payroll EXCEPT ![p] = row] /\ IndexAllows(p, row)
  BY <1>1 DEF CommitReactivate
<1>3. /\ Fits(row) /\ payroll[p].estado \in {"INACTIVA"}
      /\ row.estado = "ABIERTA" /\ row.slot = payroll[p].slot
  BY <1>1 DEF Edits, Moves
<1>4. Lifecycle!Free(payroll[p].slot, p)
  BY <1>1, <1>2, <1>3, FreeSlot DEF Operational
<1>5. Lifecycle!Reactivate(p)
  BY <1>1, <1>2, <1>3, <1>4, RowMoves DEF Lifecycle!Reactivate, Lifecycle!Go
<1>6. Maps
  BY <1>1, <1>5 DEF Maps, Lifecycle!Next
<1>7. NoneConsumed
  <2>1. \A a \in Action : action'[a] = action[a] \/ action'[a] = Relinked(a, p)
    BY DEF CommitReactivate
  <2> QED
    BY <2>1, RelinkedIsPending DEF NoneConsumed, Consumes
<1>8. UNCHANGED <<selection, aguinaldo>> /\ \A q \in Payroll : SamePapers(q)
  BY DEF CommitReactivate, SamePapers
<1>9. \A t \in Session : Holds(request[t])'
  BY EndHolds DEF CommitReactivate
<1> QED
  BY <1>1, <1>2, <1>3, <1>6, <1>7, <1>8, <1>9, CommitKeeps

\* apply: who is paid has a result, and everybody who has one gets a provision.
LEMMA ApplyKeeps ==
    ASSUME Alone, IInv, SerialInv, NEW s \in Session, CommitApply(s),
           NEW p, p = request[s].p
    PROVE  Kept
<1> DEFINE r == request[s]
           row == Applied(payroll[p])
<1>1. r.op = "apply" /\ r.pc = "ready"
  BY DEF CommitApply, At
<1>2. p \in Payroll /\ r.emps = results[p]
  BY <1>1, Someone, InFlight DEF WellFormed, PayrollOps, Busy, SerialInv, Holds
<1>3. payroll[p] \in PayrollRow /\ payroll[p].estado \in {"VERIFICADA"}
  BY <1>2 DEF CommitApply, StillAsLoaded, IInv, TablesOK
<1>4. row \in PayrollRow
  BY <1>3, AppliedRow
<1>5. row.estado = "APLICADA" /\ row.slot = payroll[p].slot
  BY <1>3 DEF Applied, PayrollRow
<1>6. payroll' = [payroll EXCEPT ![p] = row] /\ IndexAllows(p, row)
  BY DEF CommitApply
<1> HIDE DEF row
<1>7. \A q \in Payroll : payroll'[q] = IF q = p THEN row ELSE payroll[q]
  BY <1>6 DEF IInv, TablesOK
<1>8. UNCHANGED <<selection, inputs, results>> /\ aguinaldo' = aguinaldo \cup Provisions(p)
  BY DEF CommitApply
<1>9. StaysApplied
  BY <1>3, <1>7, <1>8 DEF StaysApplied, SamePapers
<1>10. Maps
  <2>0. /\ [q \in Payroll |-> payroll'[q].estado] =
              [[q \in Payroll |-> payroll[q].estado] EXCEPT ![p] = row.estado]
        /\ row.slot = payroll[p].slot =>
              [q \in Payroll |-> payroll'[q].slot] = [q \in Payroll |-> payroll[q].slot]
    BY <1>2, <1>4, <1>6, RowMoves
  <2>1. Lifecycle!Apply(p)
    BY <1>2, <1>3, <1>5, <2>0 DEF Lifecycle!Apply, Lifecycle!Go
  <2> QED
    BY <1>2, <2>1 DEF Maps, Lifecycle!Next
<1>11. Indexed' /\ \A q \in Payroll : Fits(payroll[q])'
  BY <1>2, <1>4, <1>5, <1>6, RowEnters DEF Fits, Operational
<1>12. ConsumedByAppliedPayroll'
  <2>1. ASSUME NEW a \in Action, action'[a].estado = "CONSUMED"
        PROVE  LET q == action'[a].idCalendarioNomina IN
               q \in Payroll /\ payroll'[q].estado = "APLICADA" /\ Owner[a] \in results'[q]
    <3>0. action[a] \in ActionRow
      BY DEF IInv, TablesOK
    <3>1. CASE Consumed(s, a)
      <4>1. action'[a] = [action[a] EXCEPT !.estado = "CONSUMED"]
        BY <3>1 DEF CommitApply
      <4>2. action'[a].idCalendarioNomina = p /\ Owner[a] \in results[p]
        BY <1>2, <3>0, <3>1, <4>1 DEF Consumed, ActionRow
      <4> QED
        BY <1>2, <1>5, <1>7, <1>8, <4>2
    <3>2. CASE ~Consumed(s, a)
      <4>1. action'[a] = action[a]
        BY <3>2 DEF CommitApply
      <4> QED
        BY <1>3, <1>7, <1>8, <2>1, <4>1 DEF SerialInv, ConsumedByAppliedPayroll
    <3> QED
      BY <3>1, <3>2
  <2> QED
    BY <2>1 DEF ConsumedByAppliedPayroll
<1>13. AguinaldoMatchesResults'
  <2>1. ASSUME NEW pe \in Payroll \X Employee
        PROVE  pe \in aguinaldo' <=> payroll'[pe[1]].estado = "APLICADA" /\ pe[2] \in results'[pe[1]]
    <3>1. pe \in Provisions(p) <=> pe[1] = p /\ pe[2] \in results[p]
      BY <2>1 DEF Provisions
    <3>2. pe \in aguinaldo <=> payroll[pe[1]].estado = "APLICADA" /\ pe[2] \in results[pe[1]]
      BY DEF SerialInv, AguinaldoMatchesResults
    <3> QED
      BY <1>3, <1>5, <1>7, <1>8, <3>1, <3>2
  <2>2. aguinaldo' \subseteq Payroll \X Employee
    BY <1>2, <1>8 DEF Provisions, IInv, TablesOK
  <2> QED
    BY <2>1, <2>2 DEF AguinaldoMatchesResults
<1>14. \A t \in Session : Holds(request[t])'
  BY RestHolds, MoverHolds DEF CommitApply
<1> QED
  BY <1>9, <1>10, <1>11, <1>12, <1>13, <1>14 DEF Kept, SerialInv
----------------------------------------------------------------------------
(* Actions, orphans and jobs *)

\* A step of a request that may change actions, but consumes none.
LEMMA ActionKeeps ==
    ASSUME Alone, IInv, SerialInv, NEW s \in Session, NEW r, Step(s, r), Holds(r)',
           UNCHANGED <<payroll, selection, inputs, results, aguinaldo>>, NoneConsumed
    PROVE  Kept
  BY MoverHolds, QuietKeeps

LEMMA ActionLoadHolds ==
    ASSUME NEW a, NEW p, NEW op, NEW ent,
           \/ op \in {"register", "bulk"}
           \/ op = "approve" /\ ~Consumes(a)
           \/ op \in SavedActionOps /\ ~Consumes(a) /\ ent.estado # "CONSUMED"
    PROVE  Holds([Idle EXCEPT !.op = op, !.pc = "loaded", !.p = p, !.a = a, !.ent = ent])
<1> DEFINE r == [Idle EXCEPT !.op = op, !.pc = "loaded", !.p = p, !.a = a, !.ent = ent]
<1>1. r.op = op /\ r.pc = "loaded" /\ r.a = a /\ r.ent = ent
  BY DEF Idle
<1> HIDE DEF r
<1>2. Holds(r)
  BY <1>1 DEF Holds, Saves, PayrollOps, SavedByEntity, SavedActionOps, Busy
<1> QED
  BY <1>2 DEF r

LEMMA ActionLoadKeeps ==
    ASSUME Alone, IInv, SerialInv, NEW s \in Session, ActionLoad(s)
    PROVE  Kept
<1>1. ASSUME NEW a \in Action, CreateDraft(s, a) PROVE Kept
  <2>1. /\ UNCHANGED <<payroll, selection, inputs, results, aguinaldo, request>>
        /\ action' = [action EXCEPT ![a] = [estado |-> "DRAFT", idCalendarioNomina |-> NoPayroll]]
    BY <1>1 DEF CreateDraft, Insert, KeepPayrollTables
  <2>2. NoneConsumed
    BY <2>1 DEF NoneConsumed, Consumes, IInv, TablesOK
  <2> QED
    BY <2>1, <2>2, OthersHold, QuietKeeps
<1>2. ASSUME NEW a \in Action, NEW p, NEW op, NEW ent, Load(s, op, p, a, ent),
             \/ op \in {"register", "bulk"}
             \/ op = "approve" /\ ~Consumes(a)
             \/ op \in SavedActionOps /\ ~Consumes(a) /\ ent.estado # "CONSUMED"
      PROVE  Kept
  <2> DEFINE r == [Idle EXCEPT !.op = op, !.pc = "loaded", !.p = p, !.a = a, !.ent = ent]
  <2>1. Step(s, r) /\ UNCHANGED tables
    BY <1>2 DEF Load
  <2>2. Holds(r)
    BY <1>2, ActionLoadHolds
  <2> HIDE DEF r
  <2> QED
    BY <2>1, <2>2, ReadKeeps
<1>3. ASSUME NEW a \in Action, NEW p, LoadRegister(s, a, p) \/ LoadBulk(s, a, p) PROVE Kept
  BY <1>2, <1>3 DEF LoadRegister, LoadBulk
<1>4. ASSUME NEW a \in Action, NEW p, LoadApprove(s, a, p) PROVE Kept
  <2>1. ~Consumes(a)
    BY <1>4 DEF LoadApprove, PendingStates, Consumes
  <2> QED
    BY <1>2, <1>4, <2>1 DEF LoadApprove
<1>5. ASSUME NEW a \in Action PROVE action[a] \in ActionRow
  BY DEF IInv, TablesOK
<1>6. ASSUME NEW a \in Action, LoadAdvance(s, a) PROVE Kept
  <2> DEFINE ent == [action[a] EXCEPT !.estado = NextState[action[a].estado]]
  <2>1. ~Consumes(a) /\ ent.estado # "CONSUMED"
    BY <1>5, <1>6 DEF LoadAdvance, PendingStates, NextState, Consumes, ActionRow
  <2>2. Load(s, "advance", NoPayroll, a, ent)
    BY <1>6 DEF LoadAdvance
  <2> HIDE DEF ent
  <2> QED
    BY <1>2, <2>1, <2>2 DEF SavedActionOps
<1>7. ASSUME NEW a \in Action, LoadReject(s, a) PROVE Kept
  <2> DEFINE ent == [action[a] EXCEPT !.estado = "REJECTED"]
  <2>1. ~Consumes(a) /\ ent.estado # "CONSUMED"
    BY <1>5, <1>7 DEF LoadReject, PendingStates, Consumes, ActionRow
  <2>2. Load(s, "reject", NoPayroll, a, ent)
    BY <1>7 DEF LoadReject
  <2> HIDE DEF ent
  <2> QED
    BY <1>2, <2>1, <2>2 DEF SavedActionOps
<1>8. ASSUME NEW a \in Action, LoadInvalidate(s, a) PROVE Kept
  <2> DEFINE ent == [action[a] EXCEPT !.estado = "INVALIDATED"]
  <2>1. ~Consumes(a) /\ ent.estado # "CONSUMED"
    BY <1>5, <1>8 DEF LoadInvalidate, PendingStates, Consumes, ActionRow
  <2>2. Load(s, "invalidate", NoPayroll, a, ent)
    BY <1>8 DEF LoadInvalidate
  <2> HIDE DEF ent
  <2> QED
    BY <1>2, <2>1, <2>2 DEF SavedActionOps
<1>9. ASSUME NEW a \in Action, LoadRevive(s, a) PROVE Kept
  <2> DEFINE ent == [action[a] EXCEPT !.estado = "PENDING_SUPERVISOR"]
  <2>1. ~Consumes(a) /\ ent.estado # "CONSUMED"
    BY <1>5, <1>9 DEF LoadRevive, Consumes, ActionRow
  <2>2. Load(s, "revive", NoPayroll, a, ent)
    BY <1>9 DEF LoadRevive
  <2> HIDE DEF ent
  <2> QED
    BY <1>2, <2>1, <2>2 DEF SavedActionOps
<1>10. ASSUME NEW a \in Action, NEW p, LoadEdit(s, a, p) \/ LoadAssociate(s, a, p) PROVE Kept
  <2> DEFINE ent == [action[a] EXCEPT !.idCalendarioNomina = p]
  <2>1. ~Consumes(a) /\ ent.estado # "CONSUMED"
    BY <1>5, <1>10 DEF LoadEdit, LoadAssociate, PendingStates, ApprovedStates, Consumes, ActionRow
  <2>2. \E op \in {"edit", "associate"} : Load(s, op, p, a, ent)
    BY <1>10 DEF LoadEdit, LoadAssociate
  <2> HIDE DEF ent
  <2> QED
    BY <1>2, <2>1, <2>2 DEF SavedActionOps
<1> QED
  BY <1>1, <1>3, <1>4, <1>6, <1>7, <1>8, <1>9, <1>10 DEF ActionLoad

\* The flags that an approval raises change neither state nor key of a payroll.
LEMMA FlagsKeep ==
    ASSUME Alone, IInv, SerialInv, NEW s \in Session, NEW r, r.pc \in {"idle", "flag"}, Step(s, r),
           UNCHANGED <<action, inputs, results, aguinaldo>>,
           \A q \in Payroll :
              \/ payroll'[q] = payroll[q] /\ selection'[q] = selection[q]
              \/ /\ payroll[q].estado \in InProcess
                 /\ payroll'[q] \in {payroll[q], [payroll[q] EXCEPT !.requiresRecalculation = TRUE]}
    PROVE  Kept
<1>1. ASSUME NEW q \in Payroll
      PROVE  /\ payroll'[q].estado = payroll[q].estado /\ payroll'[q].slot = payroll[q].slot
             /\ payroll'[q].activo = payroll[q].activo /\ payroll'[q].slotKey = payroll[q].slotKey
             /\ payroll'[q].isActiveSlot = payroll[q].isActiveSlot
  <2>1. payroll[q] \in PayrollRow
    BY DEF IInv, TablesOK
  <2>2. payroll'[q] \in {payroll[q], [payroll[q] EXCEPT !.requiresRecalculation = TRUE]}
    OBVIOUS
  <2> QED
    BY <2>1, <2>2 DEF PayrollRow
<1>2. StaysApplied
  BY DEF StaysApplied, SamePapers, InProcess
<1>3. Maps
  BY <1>1, SameStates
<1>4. ConsumedByAppliedPayroll' /\ AguinaldoMatchesResults'
  BY <1>1, <1>2, SettledKept DEF NoneConsumed
<1>5. Indexed' /\ \A q \in Payroll : Fits(payroll[q])'
  BY <1>1 DEF SerialInv, Indexed, Exists, SameKey, Fits, Key
<1>6. \A t \in Session : Holds(request[t])'
  BY NothingHeld, MoverHolds
<1> QED
  BY <1>2, <1>3, <1>4, <1>5, <1>6 DEF Kept, SerialInv

LEMMA ActionStepKeeps ==
    ASSUME Alone, IInv, SerialInv, NEW s \in Session, ActionStep(s)
    PROVE  Kept
<1> DEFINE old == request[s]
<1>1. old \in RequestRow /\ WellFormed(old) /\ Holds(old)
  BY Someone, InFlight DEF SerialInv
<1>2. ASSUME ViewApprove(s) PROVE Kept
  <2> DEFINE r == [old EXCEPT !.pc = "ready"]
  <2>1. /\ Step(s, r) /\ UNCHANGED tables /\ old.op = "approve" /\ old.pc = "loaded"
        /\ payroll[old.p].estado \in InProcess
    BY <1>2 DEF ViewApprove, At, Eligible, InProcess
  <2>2. r.op = old.op /\ r.pc = "ready" /\ r.p = old.p /\ r.a = old.a
    BY <1>1 DEF RequestRow
  <2> HIDE DEF r
  <2>3. Holds(r)
    BY <1>1, <2>1, <2>2 DEF Holds, Saves, PayrollOps, SavedByEntity, SavedActionOps, Busy
  <2> QED
    BY <2>1, <2>3, ReadKeeps
<1>3. ASSUME ViewAction(s) PROVE Kept
  <2> DEFINE r == [old EXCEPT !.pc = "ready", !.db = action[old.a]]
  <2>1. Step(s, r) /\ UNCHANGED tables /\ old.op \in SavedActionOps /\ old.pc = "loaded"
    BY <1>3 DEF ViewAction
  <2>2. r.op = old.op /\ r.pc = "ready" /\ r.a = old.a /\ r.ent = old.ent
    BY <1>1 DEF RequestRow
  <2> HIDE DEF r
  <2>3. Holds(r)
    BY <1>1, <2>1, <2>2 DEF Holds, Saves, PayrollOps, SavedByEntity, SavedActionOps, Busy
  <2> QED
    BY <2>1, <2>3, ReadKeeps
<1>4. \A pc : [old EXCEPT !.pc = pc].pc = pc /\ [old EXCEPT !.pc = pc].p = old.p
               /\ [old EXCEPT !.pc = pc].op = old.op
  BY <1>1 DEF RequestRow
<1>5. ASSUME CommitRegister(s) \/ CommitBulk(s) PROVE Kept
  <2>1. PICK estado \in {"PENDING_SUPERVISOR", "APPROVED"} : Insert(old.a, estado, old.p)
    BY <1>5 DEF CommitRegister, CommitBulk
  <2>2. UNCHANGED <<payroll, selection, inputs, results, aguinaldo>>
    BY <2>1 DEF Insert, KeepPayrollTables
  <2>3. NoneConsumed
    BY <2>1 DEF Insert, NoneConsumed, Consumes, IInv, TablesOK
  <2>4. PICK r : r.pc \in {"idle", "flag"} /\ Step(s, r)
    <3>1. Idle.pc = "idle"
      BY DEF Idle
    <3>2. Step(s, Idle) \/ Step(s, [old EXCEPT !.pc = "flag"])
      BY <1>5 DEF CommitRegister, CommitBulk
    <3> DEFINE flagging == [old EXCEPT !.pc = "flag"]
    <3>3. flagging.pc = "flag" /\ (Step(s, Idle) \/ Step(s, flagging))
      BY <1>4, <3>2
    <3> HIDE DEF flagging
    <3> QED
      BY <3>1, <3>3
  <2> QED
    BY <2>2, <2>3, <2>4, NothingHeld, ActionKeeps
<1>6. ASSUME CommitApprove(s) PROVE Kept
  <2>1. /\ UNCHANGED <<payroll, selection, inputs, results, aguinaldo>>
        /\ action' = [action EXCEPT ![old.a] = [estado |-> "APPROVED", idCalendarioNomina |-> old.p]]
        /\ old.op = "approve" /\ old.pc = "ready"
    BY <1>6 DEF CommitApprove, KeepPayrollTables, At
  <2>2. NoneConsumed
    BY <2>1 DEF NoneConsumed, Consumes, IInv, TablesOK
  <2>3. PICK r : r.op = "approve" /\ r.pc = "mark" /\ r.p = old.p /\ Step(s, r)
    BY <1>4, <1>6, <2>1 DEF CommitApprove
  <2>4. payroll[old.p].estado \in InProcess
    BY <1>1, <2>1 DEF Holds
  <2>5. Holds(r)'
    BY <2>1, <2>3, <2>4 DEF Holds, Busy
  <2> QED
    BY <2>1, <2>2, <2>3, <2>5, ActionKeeps
<1>7. ASSUME CommitAction(s) PROVE Kept
  <2>1. /\ UNCHANGED <<payroll, selection, inputs, results, aguinaldo>>
        /\ action' = [action EXCEPT ![old.a] = MergeAction(action[old.a], old.db, old.ent)]
        /\ old.op \in SavedActionOps /\ old.pc = "ready"
    BY <1>7 DEF CommitAction, KeepPayrollTables
  <2>2. ~Consumes(old.a) /\ old.ent.estado # "CONSUMED"
    BY <1>1, <2>1 DEF Holds, Busy
  <2>3. MergeAction(action[old.a], old.db, old.ent).estado # "CONSUMED"
    BY <2>2 DEF MergeAction, Column, Consumes
  <2>4. NoneConsumed
    BY <2>1, <2>3 DEF NoneConsumed, Consumes, IInv, TablesOK
  <2>5. PICK r : r.pc \in {"idle", "flag"} /\ Step(s, r)
    <3> DEFINE flagging == [Idle EXCEPT !.op = old.op, !.pc = "flag", !.a = old.a]
    <3>1. Idle.pc = "idle" /\ flagging.pc = "flag"
      BY DEF Idle
    <3>2. Step(s, IF FlagsAfter(old) THEN flagging ELSE Idle)
      BY <1>7 DEF CommitAction
    <3> HIDE DEF flagging
    <3> QED
      BY <3>1, <3>2
  <2> QED
    BY <2>1, <2>4, <2>5, NothingHeld, ActionKeeps
<1>8. ASSUME MarkRevalidation(s) PROVE Kept
  <2>1. old.pc = "mark" /\ old.p \in Payroll /\ payroll[old.p].estado \in InProcess
    BY <1>1, <1>8 DEF MarkRevalidation, WellFormed, Holds
  <2>2. \A q \in Payroll :
           \/ payroll'[q] = payroll[q] /\ selection'[q] = selection[q]
           \/ /\ payroll[q].estado \in InProcess
              /\ payroll'[q] \in {payroll[q], [payroll[q] EXCEPT !.requiresRecalculation = TRUE]}
    <3>1. CASE selection[old.p][Owner[old.a]] = "out"
      BY <1>8, <3>1 DEF MarkRevalidation
    <3>2. CASE selection[old.p][Owner[old.a]] # "out"
      <4>1. /\ payroll' = [payroll EXCEPT ![old.p] =
                              [payroll[old.p] EXCEPT !.requiresRecalculation = TRUE]]
            /\ selection' = [selection EXCEPT ![old.p] =
                                [selection[old.p] EXCEPT ![Owner[old.a]] = "reval"]]
        BY <1>8, <3>2 DEF MarkRevalidation
      <4> QED
        BY <2>1, <4>1 DEF IInv, TablesOK
    <3> QED
      BY <3>1, <3>2
  <2>3. PICK r : r.pc = "flag" /\ Step(s, r)
    BY <1>4, <1>8 DEF MarkRevalidation
  <2>4. UNCHANGED <<action, inputs, results, aguinaldo>>
    BY <1>8 DEF MarkRevalidation
  <2> QED
    BY <2>2, <2>3, <2>4, FlagsKeep
<1>9. ASSUME FlagRecalculation(s) PROVE Kept
  <2>1. UNCHANGED <<action, selection, inputs, results, aguinaldo>> /\ Step(s, Idle)
    BY <1>9 DEF FlagRecalculation
  <2>2. \A q \in Payroll :
           \/ payroll'[q] = payroll[q] /\ selection'[q] = selection[q]
           \/ /\ payroll[q].estado \in InProcess
              /\ payroll'[q] \in {payroll[q], [payroll[q] EXCEPT !.requiresRecalculation = TRUE]}
    BY <1>9, <2>1 DEF FlagRecalculation, Flagged, InProcess
  <2>3. Idle.pc = "idle"
    BY DEF Idle
  <2> QED
    BY <2>1, <2>2, <2>3, FlagsKeep
<1> QED
  BY <1>2, <1>3, <1>5, <1>6, <1>7, <1>8, <1>9 DEF ActionStep

\* Who is neither applying nor saving an entity holds nothing afterwards.
LEMMA AfterOrphans ==
    ASSUME Alone, IInv, SerialInv, NEW s \in Processes, NEW r, Step(s, r),
           r.pc \in {"idle", "orphans", "link"},
           UNCHANGED <<payroll, selection, results>>, NoneConsumed
    PROVE  \A t \in Session : Holds(request[t])'
<1>1. CASE s \in Session
  BY <1>1, NothingHeld, MoverHolds
<1>2. CASE s \notin Session
  <2>1. \A t \in Session : request'[t] = request[t]
    BY <1>2, Someone DEF Step, IInv, RequestsOK
  <2> QED
    BY <2>1, OthersHold
<1> QED
  BY <1>1, <1>2

LEMMA ReassignKeeps ==
    ASSUME Alone, IInv, SerialInv, NEW s \in Processes, Reassign(s)
    PROVE  Kept
<1> DEFINE old == request[s]
<1>0. old \in RequestRow
  BY InFlight
<1>1. UNCHANGED <<payroll, selection, inputs, results, aguinaldo>>
  BY DEF Reassign, ViewOrphans, CommitOrphans, SkipOrphans, tables
<1>2. NoneConsumed
  <2>1. \A a \in Action : action'[a] = action[a] \/ action'[a] = Relinked(a, old.p)
    BY DEF Reassign, ViewOrphans, CommitOrphans, SkipOrphans, tables
  <2> QED
    BY <2>1, RelinkedIsPending DEF NoneConsumed, Consumes
<1>3. PICK r : r.pc \in {"idle", "link"} /\ Step(s, r)
  <2>1. Idle.pc = "idle"
    BY DEF Idle
  <2>2. \A acts, items : [old EXCEPT !.pc = "link", !.acts = acts, !.items = items].pc = "link"
    BY <1>0 DEF RequestRow
  <2>3. CASE Step(s, Idle)
    BY <2>1, <2>3
  <2>4. ASSUME NEW acts, NEW items,
               Step(s, [old EXCEPT !.pc = "link", !.acts = acts, !.items = items])
        PROVE  \E r : r.pc \in {"idle", "link"} /\ Step(s, r)
    <3> DEFINE linking == [old EXCEPT !.pc = "link", !.acts = acts, !.items = items]
    <3>1. linking.pc = "link" /\ Step(s, linking)
      BY <2>2, <2>4
    <3> HIDE DEF linking
    <3> QED
      BY <3>1
  <2> QED
    BY <2>3, <2>4 DEF Reassign, ViewOrphans, CommitOrphans, SkipOrphans
<1> QED
  BY <1>1, <1>2, <1>3, AfterOrphans, QuietKeeps

LEMMA EndKeeps ==
    ASSUME Alone, IInv, SerialInv, NEW s \in Processes, Reject(s) \/ Fail(s)
    PROVE  Kept
<1>1. Step(s, Idle) /\ UNCHANGED tables
  BY DEF Reject, Fail
<1>2. UNCHANGED <<payroll, selection, inputs, results, aguinaldo>> /\ NoneConsumed
  BY <1>1 DEF tables, NoneConsumed
<1>3. Idle.pc = "idle"
  BY DEF Idle
<1> QED
  BY <1>1, <1>2, <1>3, AfterOrphans, QuietKeeps

LEMMA CronKeeps ==
    ASSUME Alone, IInv, SerialInv, CronTick \/ CronNext
    PROVE  Kept
<1>1. UNCHANGED <<payroll, selection, inputs, results, aguinaldo>> /\ NoneConsumed
  BY DEF CronTick, CronNext, tables, NoneConsumed
<1>2. CASE CronTick
  BY <1>1, <1>2, OthersHold, QuietKeeps DEF CronTick
<1>3. CASE CronNext
  <2>1. PICK p : Step(Cron, [Idle EXCEPT !.op = "cron", !.pc = "orphans", !.p = p])
    BY <1>3 DEF CronNext
  <2>2. [Idle EXCEPT !.op = "cron", !.pc = "orphans", !.p = p].pc = "orphans"
    BY DEF Idle
  <2>3. Cron \in Processes
    BY DEF Processes
  <2> QED
    BY <1>1, <2>1, <2>2, <2>3, AfterOrphans, QuietKeeps
<1> QED
  BY <1>2, <1>3

LEMMA JobsKeep ==
    ASSUME Alone, IInv, SerialInv, Jobs
    PROVE  Kept
<1>1. UNCHANGED <<payroll, selection, inputs, results, aguinaldo, request>>
  BY DEF Jobs, Hygiene, EmployeeContextUpdated, KeepPayrollTables
<1>2. NoneConsumed
  <2>1. \A a \in Action : \/ action'[a] = action[a]
                         \/ action'[a] = [action[a] EXCEPT !.estado = "EXPIRED"]
                         \/ action'[a] = [action[a] EXCEPT !.estado = "INVALIDATED"]
    BY DEF Jobs, Hygiene, EmployeeContextUpdated
  <2> QED
    BY <2>1 DEF NoneConsumed, Consumes, IInv, TablesOK, ActionRow
<1> QED
  BY <1>1, <1>2, OthersHold, QuietKeeps
----------------------------------------------------------------------------
(* The theorems *)

LEMMA InitSerial ==
    ASSUME Init
    PROVE  SerialInv /\ Lifecycle!Init
<1>1. \A p \in Payroll : payroll[p].estado = "NONE" /\ payroll[p].slot \in Slot
  BY SetsAssumption DEF Init
<1>2. \A a \in Action : action[a].estado = "NONE"
  BY DEF Init
<1>3. \A p \in Payroll : Fits(payroll[p])
  BY <1>1 DEF Fits, Operational
<1>4. Indexed
  BY <1>1 DEF Indexed, Exists
<1>5. ConsumedByAppliedPayroll
  BY <1>2 DEF ConsumedByAppliedPayroll
<1>6. AguinaldoMatchesResults
  BY <1>1 DEF AguinaldoMatchesResults, Init
<1>7. \A s \in Session : Holds(request[s])
  <2>1. \A s \in Session : request[s] = Idle
    BY Someone DEF Init
  <2> QED
    BY <2>1, RestHolds
<1>8. Lifecycle!Init
  BY <1>1 DEF Lifecycle!Init
<1> QED
  BY <1>3, <1>4, <1>5, <1>6, <1>7, <1>8 DEF SerialInv

LEMMA NextSerial ==
    ASSUME Alone, IInv, SerialInv, [Next]_vars
    PROVE  Kept
<1>1. ASSUME NEW s \in Session, Serve(s) PROVE Kept
  <2>1. ASSUME PayrollCommit(s) PROVE Kept
    <3>1. ASSUME NEW p \in Payroll, CommitCreate(s, p) PROVE Kept
      BY <3>1, CreateKeeps
    <3> QED
      BY <2>1, <3>1, SaveKeeps, ProcessKeeps, ApplyKeeps, InactivateKeeps, ReactivateKeeps
      DEF PayrollCommit
  <2>2. s \in Processes
    BY Someone
  <2> QED
    BY <1>1, <2>1, <2>2, PayrollLoadKeeps, PayrollViewKeeps, ActionLoadKeeps, ActionStepKeeps, EndKeeps
    DEF Serve
<1>2. ASSUME NEW s \in Processes, Reassign(s) \/ Fail(s) PROVE Kept
  BY <1>2, ReassignKeeps, EndKeeps
<1>3. ASSUME UNCHANGED vars PROVE Kept
  <2>1. UNCHANGED <<payroll, action, selection, inputs, results, aguinaldo, request>>
    BY <1>3 DEF vars
  <2>2. NoneConsumed
    BY <2>1 DEF NoneConsumed
  <2> QED
    BY <2>1, <2>2, OthersHold, QuietKeeps
<1> QED
  BY <1>1, <1>2, <1>3, CronKeeps, JobsKeep DEF Next

LEMMA SerialInductive == Alone => (Spec => []SerialInv)
<1> SUFFICES ASSUME Alone PROVE Spec => []SerialInv
  OBVIOUS
<1>1. Init => SerialInv
  BY InitSerial
<1>2. IInv /\ SerialInv /\ [Next]_vars => SerialInv'
  BY NextSerial DEF Kept
<1> QED
  BY <1>1, <1>2, Inductive, PTL DEF Spec

\* While requests do not overlap the tables go through the life cycle: every save of a
\* whole entity is a step of the state diagram, and create, update and reactivate enter a
\* slot only when nobody works in it (the unique index, isActiveSlot and the slot key).
THEOREM RefinesLifecycle == Alone => (Spec => ImplementsLifecycle)
<1> SUFFICES ASSUME Alone PROVE Spec => ImplementsLifecycle
  OBVIOUS
<1>1. Init => Lifecycle!Init
  BY InitSerial
<1>2. IInv /\ SerialInv /\ [Next]_vars => [Lifecycle!Next]_(Lifecycle!vars)
  BY NextSerial DEF Kept, Maps
<1> QED
  BY <1>1, <1>2, Inductive, SerialInductive, PTL DEF Spec, ImplementsLifecycle, Lifecycle!Spec

\* A slot (company, period, type and currency) has at most one payroll at work, however
\* payrolls are moved, inactivated, reopened and reactivated one after the other.
THEOREM SlotExclusive == Alone => (Spec => []OneOperationalPerSlot)
<1> SUFFICES ASSUME Alone PROVE Spec => []OneOperationalPerSlot
  OBVIOUS
<1>1. IInv /\ SerialInv => OneOperationalPerSlot
  <2> SUFFICES ASSUME IInv, SerialInv PROVE OneOperationalPerSlot
    OBVIOUS
  <2>1. ASSUME NEW q \in Payroll, Alive(q)
        PROVE  /\ payroll[q].slotKey = Key(payroll[q].slot) /\ ~payroll[q].slotKey.tagged
               /\ payroll[q].isActiveSlot = TRUE /\ Exists(q)
    <3>1. payroll[q] \in PayrollRow /\ Fits(payroll[q])
      BY DEF IInv, TablesOK, SerialInv
    <3> QED
      BY <2>1, <3>1 DEF Alive, Fits, Key, PayrollRow, Operational, Exists
  <2> QED
    BY <2>1 DEF OneOperationalPerSlot, SerialInv, Indexed, SameKey
<1> QED
  BY <1>1, Inductive, SerialInductive, PTL

\* An applied payroll is a closed record: no handler, cron or job touches its row, its
\* snapshots, its results or its marks again.
THEOREM AppliedStays == Alone => (Spec => AppliedIsFinal)
<1> SUFFICES ASSUME Alone PROVE Spec => AppliedIsFinal
  OBVIOUS
<1>1. IInv /\ SerialInv /\ [Next]_vars
      => [\A p \in Payroll : payroll[p].estado = "APLICADA" =>
             /\ payroll'[p] = payroll[p]
             /\ inputs'[p] = inputs[p] /\ results'[p] = results[p]
             /\ selection'[p] = selection[p]]_vars
  BY NextSerial DEF Kept, StaysApplied, SamePapers
<1> QED
  BY <1>1, Inductive, SerialInductive, PTL DEF Spec, AppliedIsFinal

\* Whatever the cron and the nightly job do between the steps of a request, a consumed
\* action is linked to an applied payroll that pays its owner.
THEOREM ConsumedStaysPaid == Alone => (Spec => []ConsumedByAppliedPayroll)
<1> SUFFICES ASSUME Alone PROVE Spec => []ConsumedByAppliedPayroll
  OBVIOUS
<1>1. SerialInv => ConsumedByAppliedPayroll
  BY DEF SerialInv
<1> QED
  BY <1>1, SerialInductive, PTL

\* The aguinaldo provisions are those of the results of the applied payrolls, none more
\* and none less.
THEOREM AguinaldoSettled == Alone => (Spec => []AguinaldoMatchesResults)
<1> SUFFICES ASSUME Alone PROVE Spec => []AguinaldoMatchesResults
  OBVIOUS
<1>1. SerialInv => AguinaldoMatchesResults
  BY DEF SerialInv
<1> QED
  BY <1>1, SerialInductive, PTL
----------------------------------------------------------------------------
(* Whoever is paid was selected *)

IsRemarking(r, p) == r.op \in {"include", "exclude"} /\ r.pc = "ready" /\ r.p = p

\* The marks of p are changed, and its recalculation flag is about to be raised.
Remarking(p) == \E s \in Session : IsRemarking(request[s], p)

Settled(row) == row.estado \in {"EN_PROCESO", "VERIFICADA"} /\ ~row.requiresRecalculation

\* Results that need no recalculation are those of included employees.
Computed(p) == Settled(payroll[p]) /\ ~Remarking(p) => results[p] \subseteq Included(p)

AllComputed == \A p \in Payroll : Computed(p)

OnlyMoves(s) == \A t \in Session : t # s => request'[t] = request[t]

\* A step of somebody who is not changing marks keeps what is computed, payroll by
\* payroll: its tables stay, or its results are to be, or were just, computed again.
LEMMA StaysComputed ==
    ASSUME AllComputed, NEW s \in Processes, OnlyMoves(s),
           \A p \in Payroll : ~IsRemarking(request[s], p),
           \A p \in Payroll :
              \/ Settled(payroll'[p]) => Settled(payroll[p])
                 /\ results'[p] = results[p] /\ selection'[p] = selection[p]
              \/ results'[p] \subseteq {e \in Employee : selection'[p][e] # "out"}
    PROVE  AllComputed'
<1>1. ASSUME NEW p \in Payroll PROVE Computed(p)'
  <2>1. Remarking(p) => Remarking(p)'
    BY DEF Remarking, OnlyMoves
  <2>2. Included(p)' = {e \in Employee : selection'[p][e] # "out"}
    BY DEF Included
  <2>3. selection'[p] = selection[p] => Included(p)' = Included(p)
    BY DEF Included
  <2>4. Settled(payroll[p])' = Settled(payroll'[p])
    BY DEF Settled
  <2> QED
    BY <2>1, <2>2, <2>3, <2>4 DEF AllComputed, Computed
<1> QED
  BY <1>1 DEF AllComputed

LEMMA QuietComputed ==
    ASSUME AllComputed, NEW s \in Processes, OnlyMoves(s),
           \A p \in Payroll : ~IsRemarking(request[s], p),
           UNCHANGED <<payroll, selection, results>>
    PROVE  AllComputed'
  BY StaysComputed

LEMMA LoadComputed ==
    ASSUME IInv, AllComputed, NEW s \in Session, PayrollLoad(s) \/ ActionLoad(s)
    PROVE  AllComputed'
<1>1. s \in Processes
  BY Someone
<1>2. request[s].pc = "idle"
  <2>1. request[s] = Idle
    BY DEF PayrollLoad, LoadCreate, LoadVerify, LoadReopen, LoadProcess, LoadApply, LoadInactivate,
           LoadReactivate, LoadUpdate, LoadSelection, ActionLoad, CreateDraft, LoadAdvance,
           LoadReject, LoadInvalidate, LoadRevive, LoadRegister, LoadBulk, LoadApprove, LoadEdit,
           LoadAssociate, Accepts
  <2> QED
    BY <2>1 DEF Idle
<1>3. OnlyMoves(s)
  <2>1. request' = request \/ \E r : Step(s, r)
    BY DEF PayrollLoad, LoadCreate, LoadVerify, LoadReopen, LoadProcess, LoadApply, LoadInactivate,
           LoadReactivate, LoadUpdate, LoadSelection, ActionLoad, CreateDraft, LoadAdvance,
           LoadReject, LoadInvalidate, LoadRevive, LoadRegister, LoadBulk, LoadApprove, LoadEdit,
           LoadAssociate, Load
  <2> QED
    BY <2>1, Someone DEF OnlyMoves, Step, IInv, RequestsOK
<1>4. UNCHANGED <<payroll, selection, results>>
  BY DEF PayrollLoad, LoadCreate, LoadVerify, LoadReopen, LoadProcess, LoadApply, LoadInactivate,
         LoadReactivate, LoadUpdate, LoadSelection, ActionLoad, CreateDraft, LoadAdvance,
         LoadReject, LoadInvalidate, LoadRevive, LoadRegister, LoadBulk, LoadApprove, LoadEdit,
         LoadAssociate, Load, Insert, KeepPayrollTables, tables
<1> QED
  BY <1>1, <1>2, <1>3, <1>4, QuietComputed DEF IsRemarking

LEMMA ViewComputed ==
    ASSUME Alone, IInv, SerialInv, AllComputed, NEW s \in Session, PayrollView(s)
    PROVE  AllComputed'
<1> DEFINE old == request[s]
<1>0. s \in Processes /\ s \in DOMAIN request /\ old \in RequestRow
  BY Someone, InFlight DEF IInv, RequestsOK
<1>1. old.pc = "loaded"
  BY DEF PayrollView, ViewCreate, ViewUpdate, ViewVerify, ViewReopen, ViewSelection, ViewProcess, ViewApply,
         ViewInactivate, ViewReactivate, At
<1>2. OnlyMoves(s)
  <2>1. \E r : Step(s, r)
    BY DEF PayrollView, ViewCreate, ViewUpdate, ViewVerify, ViewReopen, ViewSelection, ViewProcess, ViewApply,
           ViewInactivate, ViewReactivate, ReadyToSave
  <2> QED
    BY <2>1, Someone DEF OnlyMoves, Step, IInv, RequestsOK
<1>3. ASSUME ViewSelection(s) PROVE AllComputed'
  <2>1. /\ UNCHANGED <<payroll, results>>
        /\ \A p \in Payroll : p # old.p => selection'[p] = selection[p]
    BY <1>3 DEF ViewSelection, IInv, TablesOK
  <2>2. ASSUME NEW p, p = old.p PROVE IsRemarking(request[s], p)'
    <3> DEFINE r == [old EXCEPT !.pc = "ready", !.db = payroll[old.p]]
    <3>1. request'[s] = r
      BY <1>0, <1>3 DEF ViewSelection, ReadyToSave, Step
    <3>2. r.op = old.op /\ r.pc = "ready" /\ r.p = old.p
      BY <1>0 DEF RequestRow
    <3> HIDE DEF r
    <3>3. old.op \in {"include", "exclude"}
      BY <1>3 DEF ViewSelection, At
    <3> QED
      BY <2>2, <3>1, <3>2, <3>3 DEF IsRemarking
  <2>3. ASSUME NEW p \in Payroll PROVE Computed(p)'
    <3>1. CASE p = old.p
      BY <2>2, <3>1 DEF Computed, Remarking
    <3>2. CASE p # old.p
      <4>1. Included(p)' = Included(p)
        BY <2>1, <3>2 DEF Included
      <4>2. ~Remarking(p)
        BY <1>1 DEF Alone, Remarking, IsRemarking
      <4> QED
        BY <2>1, <4>1, <4>2 DEF Computed, AllComputed, Settled
    <3> QED
      BY <3>1, <3>2
  <2> QED
    BY <2>3 DEF AllComputed
<1>4. ASSUME ~ViewSelection(s) PROVE AllComputed'
  <2>1. UNCHANGED <<payroll, selection, results>>
    BY <1>4 DEF PayrollView, ViewCreate, ViewUpdate, ViewVerify, ViewReopen, ViewProcess, ViewApply,
                ViewInactivate, ViewReactivate, tables
  <2> QED
    BY <1>0, <1>1, <1>2, <2>1, QuietComputed DEF IsRemarking
<1> QED
  BY <1>3, <1>4

LEMMA CommitComputed ==
    ASSUME Alone, IInv, SerialInv, AllComputed, NEW s \in Session, PayrollCommit(s)
    PROVE  AllComputed'
<1> DEFINE r == request[s]
<1>0. s \in Processes /\ r \in RequestRow /\ WellFormed(r) /\ Holds(r)
  BY Someone, InFlight DEF SerialInv
<1>1. OnlyMoves(s)
  <2>1. \E x : Step(s, x)
    BY DEF PayrollCommit, CommitCreate, CommitSave, CommitProcess, CommitApply, CommitInactivate,
           CommitReactivate
  <2> QED
    BY <2>1, Someone DEF OnlyMoves, Step, IInv, RequestsOK
<1>2. ASSUME NEW p \in Payroll, NEW row, payroll' = [payroll EXCEPT ![p] = row], ~Settled(row),
             \A q \in Payroll : ~IsRemarking(r, q), UNCHANGED <<selection, results>>
      PROVE  AllComputed'
  <2>1. \A q \in Payroll : payroll'[q] = IF q = p THEN row ELSE payroll[q]
    BY <1>2 DEF IInv, TablesOK
  <2> QED
    BY <1>0, <1>1, <1>2, <2>1, StaysComputed
<1>3. ASSUME NEW p \in Payroll, CommitCreate(s, p) PROVE AllComputed'
  <2>1. r.op = "create" /\ r.pc = "new" /\ payroll' = [payroll EXCEPT ![p] = r.ent]
        /\ UNCHANGED <<selection, results>>
    BY <1>3 DEF CommitCreate, At
  <2>2. ~Settled(r.ent)
    BY <1>0, <2>1 DEF Holds, Settled
  <2> QED
    BY <1>2, <2>1, <2>2 DEF IsRemarking
<1>4. ASSUME r.op \in Saves, r.pc = "ready"
      PROVE  /\ r.p \in Payroll /\ r.ent \in PayrollRow /\ Merged(s) = r.ent
             /\ Edits(r.op, payroll[r.p], r.ent)
  BY <1>4, SavesItsEntity
<1>5. ASSUME CommitSave(s) PROVE AllComputed'
  <2>0. r.op \in SavedByEntity /\ r.pc = "ready"
    BY <1>5 DEF CommitSave
  <2>1. /\ r.p \in Payroll /\ r.ent \in PayrollRow /\ Merged(s) = r.ent
        /\ Edits(r.op, payroll[r.p], r.ent)
    BY <1>4, <2>0 DEF Saves, PayrollOps, SavedByEntity
  <2>2. payroll' = [payroll EXCEPT ![r.p] = r.ent] /\ UNCHANGED <<selection, results>>
    BY <1>5, <2>1 DEF CommitSave
  <2>3. \A q \in Payroll : payroll'[q] = IF q = r.p THEN r.ent ELSE payroll[q]
    BY <2>2 DEF IInv, TablesOK
  <2>4. CASE r.op \in {"create", "update", "reopen"}
    <3>1. ~Settled(r.ent)
      BY <2>1, <2>4 DEF Edits, Moves, Settled
    <3> QED
      BY <1>2, <2>1, <2>2, <2>4, <3>1 DEF IsRemarking
  <2>5. CASE r.op = "verify"
    <3>1. Settled(r.ent) => Settled(payroll[r.p])
      BY <2>1, <2>5 DEF Edits, Moves, Settled
    <3> QED
      BY <1>0, <1>1, <2>2, <2>3, <2>5, <3>1, StaysComputed DEF IsRemarking
  <2>6. CASE r.op \in {"include", "exclude"}
    <3>1. ~Settled(r.ent)
      BY <2>1, <2>6 DEF Edits, Settled
    <3>2. ASSUME NEW p \in Payroll PROVE Computed(p)'
      <4>1. CASE p = r.p
        <5>1. ~Settled(payroll'[p])
          BY <2>3, <3>1, <4>1
        <5> QED
          BY <5>1 DEF Computed, Settled
      <4>2. CASE p # r.p
        <5>1. ~Remarking(p)
          BY <4>2 DEF Alone, Remarking, IsRemarking
        <5>2. payroll'[p] = payroll[p] /\ Included(p)' = Included(p) /\ results'[p] = results[p]
          BY <2>2, <2>3, <4>2 DEF Included
        <5> QED
          BY <5>1, <5>2 DEF AllComputed, Computed, Settled
      <4> QED
        BY <4>1, <4>2
    <3> QED
      BY <3>2 DEF AllComputed
  <2> QED
    BY <2>0, <2>4, <2>5, <2>6 DEF SavedByEntity
<1>6. ASSUME CommitProcess(s) PROVE AllComputed'
  <2>0. r.op = "process" /\ r.pc = "ready"
    BY <1>6 DEF CommitProcess, At
  <2>1. r.p \in Payroll /\ Merged(s) = r.ent /\ r.emps = Included(r.p)
    BY <1>0, <1>4, <2>0 DEF Saves, PayrollOps, Holds
  <2>2. /\ payroll' = [payroll EXCEPT ![r.p] = r.ent] /\ UNCHANGED selection
        /\ results' = [results EXCEPT ![r.p] = r.emps]
    BY <1>6, <2>1 DEF CommitProcess
  <2>3. \A q \in Payroll : q # r.p => payroll'[q] = payroll[q] /\ results'[q] = results[q]
    BY <2>2 DEF IInv, TablesOK
  <2>4. results'[r.p] \subseteq {e \in Employee : selection'[r.p][e] # "out"}
    BY <2>1, <2>2 DEF Included, IInv, TablesOK
  <2> QED
    BY <1>0, <1>1, <2>0, <2>2, <2>3, <2>4, StaysComputed DEF IsRemarking
<1>7. ASSUME CommitInactivate(s) \/ CommitReactivate(s) PROVE AllComputed'
  <2>0. r.op \in {"inactivate", "reactivate"} /\ r.pc = "ready"
    BY <1>7 DEF CommitInactivate, CommitReactivate, At
  <2>1. r.p \in Payroll /\ Merged(s) = r.ent /\ Edits(r.op, payroll[r.p], r.ent)
    BY <1>4, <2>0 DEF Saves, PayrollOps, SavedByEntity
  <2>2. payroll' = [payroll EXCEPT ![r.p] = r.ent] /\ UNCHANGED <<selection, results>>
    BY <1>7, <2>1 DEF CommitInactivate, CommitReactivate
  <2>3. ~Settled(r.ent)
    BY <2>0, <2>1 DEF Edits, Moves, Settled
  <2> QED
    BY <1>2, <2>0, <2>1, <2>2, <2>3 DEF IsRemarking
<1>8. ASSUME CommitApply(s) PROVE AllComputed'
  <2>0. r.op = "apply" /\ r.pc = "ready"
    BY <1>8 DEF CommitApply, At
  <2>1. r.p \in Payroll
    BY <1>0, <2>0 DEF WellFormed, PayrollOps, Busy
  <2>2. payroll' = [payroll EXCEPT ![r.p] = Applied(payroll[r.p])] /\ UNCHANGED <<selection, results>>
    BY <1>8 DEF CommitApply
  <2>3. ~Settled(Applied(payroll[r.p]))
    BY <2>1 DEF Applied, Settled, IInv, TablesOK, PayrollRow
  <2> QED
    BY <1>2, <2>0, <2>1, <2>2, <2>3 DEF IsRemarking
<1> QED
  BY <1>3, <1>5, <1>6, <1>7, <1>8 DEF PayrollCommit

LEMMA ActionStepComputed ==
    ASSUME IInv, SerialInv, AllComputed, NEW s \in Session, ActionStep(s)
    PROVE  AllComputed'
<1> DEFINE old == request[s]
<1>0. s \in Processes /\ WellFormed(old)
  BY Someone, InFlight
<1>1. \A p \in Payroll : ~IsRemarking(old, p)
  BY DEF ActionStep, ViewApprove, ViewAction, CommitRegister, CommitBulk, CommitApprove, CommitAction,
         MarkRevalidation, FlagRecalculation, At, SavedActionOps, IsRemarking
<1>2. OnlyMoves(s)
  <2>1. \E r : Step(s, r)
    BY DEF ActionStep, ViewApprove, ViewAction, CommitRegister, CommitBulk, CommitApprove,
           CommitAction, MarkRevalidation, FlagRecalculation
  <2> QED
    BY <2>1, Someone DEF OnlyMoves, Step, IInv, RequestsOK
<1>3. ASSUME MarkRevalidation(s) PROVE AllComputed'
  <2>1. old.p \in Payroll /\ results' = results
    BY <1>0, <1>3 DEF MarkRevalidation, WellFormed
  <2>2. CASE selection[old.p][Owner[old.a]] = "out"
    BY <1>0, <1>1, <1>2, <1>3, <2>2, QuietComputed DEF MarkRevalidation
  <2>3. CASE selection[old.p][Owner[old.a]] # "out"
    <3>1. /\ payroll' = [payroll EXCEPT ![old.p] =
                            [payroll[old.p] EXCEPT !.requiresRecalculation = TRUE]]
          /\ selection' = [selection EXCEPT ![old.p] =
                              [selection[old.p] EXCEPT ![Owner[old.a]] = "reval"]]
      BY <1>3, <2>3 DEF MarkRevalidation
    <3>2. \A q \in Payroll : q # old.p => payroll'[q] = payroll[q] /\ selection'[q] = selection[q]
      BY <3>1 DEF IInv, TablesOK
    <3>3. [payroll[old.p] EXCEPT !.requiresRecalculation = TRUE].requiresRecalculation = TRUE
      BY <2>1 DEF IInv, TablesOK, PayrollRow
    <3>4. ~Settled(payroll'[old.p])
      BY <2>1, <3>1, <3>3 DEF Settled, IInv, TablesOK
    <3>5. ASSUME NEW p \in Payroll PROVE Computed(p)'
      <4>1. CASE p = old.p
        BY <3>4, <4>1 DEF Computed, Settled
      <4>2. CASE p # old.p
        <5>1. Remarking(p) => Remarking(p)'
          BY <1>1, <1>2 DEF Remarking, OnlyMoves
        <5>2. payroll'[p] = payroll[p] /\ Included(p)' = Included(p) /\ results'[p] = results[p]
          BY <2>1, <3>2, <4>2 DEF Included
        <5> QED
          BY <5>1, <5>2 DEF AllComputed, Computed, Settled
      <4> QED
        BY <4>1, <4>2
    <3> QED
      BY <3>5 DEF AllComputed
  <2> QED
    BY <2>2, <2>3
<1>4. ASSUME FlagRecalculation(s) PROVE AllComputed'
  <2>1. \A q \in Payroll : payroll'[q] = payroll[q]
                          \/ payroll'[q] = [payroll[q] EXCEPT !.requiresRecalculation = TRUE]
    BY <1>4 DEF FlagRecalculation
  <2>2. \A q \in Payroll : Settled(payroll'[q]) => Settled(payroll[q])
    BY <2>1 DEF Settled, IInv, TablesOK, PayrollRow
  <2>3. UNCHANGED <<selection, results>>
    BY <1>4 DEF FlagRecalculation
  <2> QED
    BY <1>0, <1>1, <1>2, <2>2, <2>3, StaysComputed
<1>5. ASSUME ~MarkRevalidation(s), ~FlagRecalculation(s) PROVE AllComputed'
  <2>1. UNCHANGED <<payroll, selection, results>>
    BY <1>5 DEF ActionStep, ViewApprove, ViewAction, CommitRegister, CommitBulk, CommitApprove,
                CommitAction, Insert, KeepPayrollTables, tables
  <2> QED
    BY <1>0, <1>1, <1>2, <2>1, QuietComputed
<1> QED
  BY <1>3, <1>4, <1>5
\* Others work on actions and orphans; the sessions stay where they are.
LEMMA SessionsStayComputed ==
    ASSUME AllComputed, \A t \in Session : request'[t] = request[t],
           UNCHANGED <<payroll, selection, results>>
    PROVE  AllComputed'
<1>1. ASSUME NEW p \in Payroll PROVE Computed(p)'
  <2>1. Remarking(p) => Remarking(p)'
    BY DEF Remarking
  <2>2. Included(p)' = Included(p)
    BY DEF Included
  <2> QED
    BY <2>1, <2>2 DEF AllComputed, Computed, Settled
<1> QED
  BY <1>1 DEF AllComputed

\* A session that is not changing marks, or the cron, reassigns orphans or ends.
LEMMA EndComputed ==
    ASSUME IInv, AllComputed, NEW s \in Processes, \E r : Step(s, r),
           s \in Session => \A p \in Payroll : ~IsRemarking(request[s], p),
           UNCHANGED <<payroll, selection, results>>
    PROVE  AllComputed'
<1>1. OnlyMoves(s)
  BY Someone DEF OnlyMoves, Step, IInv, RequestsOK
<1>2. CASE s \in Session
  BY <1>1, <1>2, QuietComputed
<1>3. CASE s \notin Session
  <2>1. \A t \in Session : request'[t] = request[t]
    BY <1>1, <1>3 DEF OnlyMoves
  <2> QED
    BY <2>1, SessionsStayComputed
<1> QED
  BY <1>2, <1>3

\* The save that follows the marks keeps slot, key and active slot: the index lets it in.
LEMMA MarksAreSaved ==
    ASSUME IInv, SerialInv, NEW s \in Session, NEW p \in Payroll, IsRemarking(request[s], p)
    PROVE  IndexAllows(request[s].p, Merged(s))
<1> DEFINE ent == request[s].ent
<1>1. /\ request[s].p = p /\ ent \in PayrollRow /\ Merged(s) = ent
      /\ Edits(request[s].op, payroll[p], ent) /\ request[s].op \in {"include", "exclude"}
  BY SavesItsEntity DEF IsRemarking, Saves, PayrollOps, SavedByEntity
<1>2. /\ payroll[p].estado # "NONE" /\ ent.slot = payroll[p].slot
      /\ ent.slotKey = payroll[p].slotKey /\ ent.isActiveSlot = payroll[p].isActiveSlot
  BY <1>1 DEF Edits, Moves
<1> HIDE DEF ent
<1> QED
  BY <1>1, <1>2 DEF SerialInv, Indexed, IndexAllows, SameKey, Exists

LEMMA FailComputed ==
    ASSUME MaxFaults = 0, IInv, SerialInv, AllComputed, NEW s \in Processes, Fail(s)
    PROVE  AllComputed'
<1>1. ~(faults < MaxFaults)
  BY DEF IInv, JobsOK
<1>2. ~IndexAllows(request[s].p, Merged(s))
  BY <1>1 DEF Fail
<1>3. s \in Session => \A p \in Payroll : ~IsRemarking(request[s], p)
  BY <1>2, MarksAreSaved
<1>4. (\E r : Step(s, r)) /\ UNCHANGED <<payroll, selection, results>>
  BY DEF Fail, tables
<1> QED
  BY <1>3, <1>4, EndComputed

LEMMA NextComputed ==
    ASSUME Alone, MaxFaults = 0, IInv, SerialInv, AllComputed, [Next]_vars
    PROVE  AllComputed'
<1>1. ASSUME NEW s \in Session, Serve(s) PROVE AllComputed'
  <2>1. ASSUME Reject(s) PROVE AllComputed'
    <3>1. \A p \in Payroll : ~IsRemarking(request[s], p)
      BY <2>1 DEF Reject, HalfDone, IsRemarking
    <3>2. (\E r : Step(s, r)) /\ UNCHANGED <<payroll, selection, results>>
      BY <2>1 DEF Reject, tables
    <3> QED
      BY <3>1, <3>2, Someone, EndComputed
  <2> QED
    BY <1>1, <2>1, LoadComputed, ViewComputed, CommitComputed, ActionStepComputed DEF Serve
<1>2. ASSUME NEW s \in Processes, Reassign(s) PROVE AllComputed'
  <2>1. \A p \in Payroll : ~IsRemarking(request[s], p)
    BY <1>2 DEF Reassign, ViewOrphans, CommitOrphans, SkipOrphans, IsRemarking
  <2>2. (\E r : Step(s, r)) /\ UNCHANGED <<payroll, selection, results>>
    BY <1>2 DEF Reassign, ViewOrphans, CommitOrphans, SkipOrphans, tables
  <2> QED
    BY <2>1, <2>2, EndComputed
<1>3. ASSUME CronNext PROVE AllComputed'
  <2>1. Cron \in Processes /\ Cron \notin Session
    BY Someone DEF Processes
  <2>2. (\E r : Step(Cron, r)) /\ UNCHANGED <<payroll, selection, results>>
    BY <1>3 DEF CronNext, tables
  <2> QED
    BY <2>1, <2>2, EndComputed
<1>4. ASSUME CronTick \/ Jobs \/ UNCHANGED vars PROVE AllComputed'
  <2>1. UNCHANGED <<payroll, selection, results, request>>
    BY <1>4 DEF CronTick, Jobs, Hygiene, EmployeeContextUpdated, KeepPayrollTables, tables, vars
  <2> QED
    BY <2>1, SessionsStayComputed
<1> QED
  BY <1>1, <1>2, <1>3, <1>4, FailComputed DEF Next

\* A step that applies a payroll is the commit of apply of that payroll.
LEMMA AppliesByCommit ==
    ASSUME IInv, [Next]_vars, NEW p \in Payroll, BecomesApplied(p)
    PROVE  \E s \in Session : CommitApply(s) /\ request[s].p = p
<1>1. payroll' # payroll
  BY DEF BecomesApplied
<1>2. PICK s \in Session : Serve(s)
  BY <1>1, OthersKeepPayroll DEF Next, vars
<1>3. s \in Processes
  BY Someone
<1>4. PayrollCommit(s)
  BY <1>1, <1>2, <1>3, OthersKeepPayroll, ActionStepAppliesNothing DEF Serve
<1> DEFINE r == request[s]
<1>5. r \in RequestRow /\ WellFormed(r)
  BY <1>3, InFlight
<1>6. ASSUME NEW q \in Payroll PROVE ~CommitCreate(s, q)
  <2> SUFFICES ASSUME CommitCreate(s, q) PROVE FALSE
    OBVIOUS
  <2>1. r.ent.estado # "APLICADA"
    BY <1>5 DEF CommitCreate, At, WellFormed, Unapplied
  <2>2. payroll'[p] = IF p = q THEN r.ent ELSE payroll[p]
    BY DEF CommitCreate, IInv, TablesOK
  <2> QED
    BY <2>1, <2>2 DEF BecomesApplied
<1>7. ~CommitSave(s)
  BY <1>3, SaveAppliesNothing DEF CommitSave, PayrollOps, SavedByEntity
<1>8. ~CommitProcess(s) /\ ~CommitInactivate(s) /\ ~CommitReactivate(s)
  BY <1>3, SaveAppliesNothing DEF CommitProcess, CommitInactivate, CommitReactivate, At, PayrollOps
<1>9. CommitApply(s)
  BY <1>4, <1>6, <1>7, <1>8 DEF PayrollCommit
<1>10. payroll' = [payroll EXCEPT ![r.p] = Applied(payroll[r.p])]
  BY <1>9 DEF CommitApply
<1>11. r.p = p
  BY <1>10 DEF BecomesApplied, IInv, TablesOK
<1> QED
  BY <1>9, <1>11

\* It finds the results and the marks that it read.
LEMMA ApplyRespects ==
    ASSUME Alone, IInv, SerialInv, AllComputed, [Next]_vars, NEW p \in Payroll,
           payroll[p].estado # "APLICADA", payroll'[p].estado = "APLICADA"
    PROVE  \A e \in results[p] : selection[p][e] = "in"
<1>1. PICK s \in Session : CommitApply(s) /\ request[s].p = p
  BY AppliesByCommit DEF BecomesApplied
<1>2. payroll[p].estado = "VERIFICADA" /\ ~payroll[p].requiresRecalculation
  BY <1>1 DEF CommitApply, StillAsLoaded
<1>3. request[s].op = "apply" /\ request[s].pc = "ready"
  BY <1>1 DEF CommitApply, At
<1>4. ~Remarking(p)
  BY <1>3 DEF Alone, Remarking, IsRemarking
<1>5. results[p] \subseteq Included(p)
  BY <1>2, <1>4 DEF AllComputed, Computed, Settled
<1>6. \A e \in results[p] : selection[p][e] # "reval"
  BY <1>1, <1>3 DEF SerialInv, Holds
<1>7. \A e \in Employee : selection[p][e] \in {"out", "in", "reval"}
  BY DEF IInv, TablesOK, Mark
<1> QED
  BY <1>5, <1>6, <1>7 DEF Included

\* While requests do not overlap and none dies half done, whoever is paid when apply
\* commits was included by HR and has nothing pending revalidation: include and exclude
\* ask for a recalculation, process computes the included, and apply looks at both.
THEOREM SelectionKept == Alone /\ MaxFaults = 0 => (Spec => SelectionRespected)
<1> SUFFICES ASSUME Alone, MaxFaults = 0 PROVE Spec => SelectionRespected
  OBVIOUS
<1>1. Init => AllComputed
  BY DEF Init, AllComputed, Computed, Settled
<1>2. IInv /\ SerialInv /\ AllComputed /\ [Next]_vars => AllComputed'
  BY NextComputed
<1>3. IInv /\ SerialInv /\ AllComputed /\ [Next]_vars
      => [\A p \in Payroll : payroll[p].estado # "APLICADA" /\ payroll'[p].estado = "APLICADA" =>
             \A e \in results[p] : selection[p][e] = "in"]_vars
  BY ApplyRespects
<1> QED
  BY <1>1, <1>2, <1>3, Inductive, SerialInductive, PTL DEF Spec, SelectionRespected
----------------------------------------------------------------------------
(* What becomes of the actions *)

\* The cron, the nightly job and the events of the employees are off.
NoJobs == {"cron", "hygiene"} \cap Requests = {}

Link(a) == action[a].idCalendarioNomina

Lasting == {"CONSUMED", "REJECTED", "EXPIRED"}

\* Why the item of an orphan may close without a link.
Closable(i) == Link(i[2]) # NoPayroll \/ IsFinal(i[2]) \/ Period[i[2]] # payroll[i[1]].slot

\* What a save of payrolls has read is what the tables hold ...
ReadsPayroll(r) ==
    /\ r.op = "create" /\ r.pc = "new" => r.ent.estado = "ABIERTA"
    /\ r.op \in Saves /\ r.pc \in Busy => Moves(r.op, payroll[r.p].estado, r.ent.estado)
    /\ r.op \in Saves /\ r.pc = "ready" => r.db = payroll[r.p]
    /\ r.op = "process" /\ r.pc = "ready" =>
          /\ r.fresh \subseteq r.acts
          /\ \A a \in r.acts : /\ action[a].estado = "APPROVED"
                               /\ Link(a) = IF a \in r.fresh THEN NoPayroll ELSE r.p
    /\ r.op = "inactivate" /\ r.pc = "ready" => r.acts = Attached(r.p)

\* ... and so are the orphans it looked at ...
ReadsOrphans(r) ==
    /\ r.op = "reactivate" /\ r.pc \in Busy => r.ent.slot = payroll[r.p].slot
    /\ r.op = "reactivate" /\ r.pc = "ready" =>
          \A i \in r.items : i[2] \in r.acts \/ Closable(i)
    /\ r.pc = "link" => payroll[r.p].estado \in Operational /\ \A i \in r.items : Closable(i)
    /\ r.pc = "link" \/ (r.op = "reactivate" /\ r.pc = "ready") =>
          \A a \in r.acts : ~IsFinal(a) /\ Link(a) \in {NoPayroll, r.p}

\* ... and the action that a request of the personal actions carries.
ReadsAction(r) ==
    /\ r.op \in {"register", "bulk"} /\ r.pc \in Busy => payroll[r.p].estado \in InProcess
    /\ r.op = "approve" /\ r.pc \in Busy => action[r.a].estado \in PendingStates
    /\ r.op = "approve" /\ r.pc = "ready" => payroll[r.p].estado \in InProcess
    /\ r.op \in SavedActionOps /\ r.pc \in Busy =>
          /\ \/ action[r.a].estado \in PendingStates
             \/ r.op = "associate" /\ action[r.a].estado = "APPROVED"
             \/ r.op = "revive" /\ action[r.a].estado = "INVALIDATED"
          /\ r.ent.estado # "NONE"
          /\ \/ r.ent.idCalendarioNomina = Link(r.a)
             \/ r.op = "associate" /\ r.ent.idCalendarioNomina \in Payroll
             \/ /\ r.op = "edit" /\ r.ent.idCalendarioNomina \in Payroll
                /\ payroll[r.ent.idCalendarioNomina].estado \in InProcess
    /\ r.op \in SavedActionOps /\ r.pc = "ready" => r.db = action[r.a]

Read(r) ==
    /\ r.op \in Requests \cup {"none"}
    /\ ReadsPayroll(r) /\ ReadsOrphans(r) /\ ReadsAction(r)

Unborn == \A a \in Action : action[a].estado = "NONE" => Link(a) = NoPayroll

Computing == {"EN_PROCESO", "VERIFICADA", "APLICADA"}

\* The actions in the snapshots of a computed payroll are linked to it.
InputsLinked ==
    \A p \in Payroll : payroll[p].estado \in Computing =>
        \A a \in inputs[p] : Link(a) = p /\ action[a].estado \in {"APPROVED", "CONSUMED"}

NoAssociate == "associate" \notin Requests
NoRevive == {"associate", "revive"} \cap Requests = {}

LinkedInv ==
    /\ Unborn
    /\ NoAssociate => InputsLinked
    /\ NoRevive => InactiveHoldsNothing

OpenInv ==
    /\ LinkedInv
    /\ \A s \in Session : Read(request[s])
    /\ request[Cron] = Idle /\ cronTodo = {}

LastingStay == \A a \in Action : action[a].estado \in Lasting => action'[a] = action[a]

LosesNothing ==
    /\ \A a \in Action :
          Link(a) # NoPayroll /\ action'[a].idCalendarioNomina = NoPayroll => <<Link(a), a>> \in orphans'
    /\ \A i \in orphans \ orphans' :
          \/ action'[i[2]].idCalendarioNomina # NoPayroll
          \/ action'[i[2]].estado \in FinalStates
          \/ Period[i[2]] # payroll[i[1]].slot

OpenKept == OpenInv' /\ LastingStay /\ LosesNothing

\* Nobody else has a request under way.
Solo(s) == \A t \in Session : t # s => request[t] = Idle

LEMMA NothingRead ==
    ASSUME NEW r, r.pc \notin Busy \cup {"new", "link"}, r.op \in Requests \cup {"none"} PROVE Read(r)'
  BY DEF Read, ReadsPayroll, ReadsOrphans, ReadsAction, Busy

LEMMA SoloReads ==
    ASSUME IInv, OpenInv, NEW s \in Session, Solo(s), NEW r, Step(s, r), Read(r)'
    PROVE  /\ \A t \in Session : Read(request[t])'
           /\ request'[Cron] = Idle
<1>1. Read(Idle)'
  BY NothingRead DEF Idle, Busy
<1>2. \A t \in Session : request'[t] = IF t = s THEN r ELSE Idle
  BY SessionMoves DEF Solo
<1>3. request'[Cron] = Idle
  BY SetsAssumption DEF OpenInv, Step
<1>4. ASSUME NEW t \in Session PROVE Read(request[t])'
  <2>1. PICK x \in {r, Idle} : request'[t] = x
    BY <1>2
  <2>2. Read(x)'
    BY <1>1, <2>1
  <2> QED
    BY <2>1, <2>2
<1> QED
  BY <1>3, <1>4

\* A step that only reads.
LEMMA ReadsOnly ==
    ASSUME IInv, OpenInv, NEW s \in Session, Solo(s), NEW r, Step(s, r), Read(r),
           UNCHANGED <<payroll, action, inputs, orphans, cronTodo>>
    PROVE  OpenKept
<1>1. Read(r)'
  BY DEF Read, ReadsPayroll, ReadsOrphans, ReadsAction, Attached, Closable, IsFinal, Link
<1>2. LinkedInv'
  BY DEF OpenInv, LinkedInv, Unborn, InputsLinked, InactiveHoldsNothing, IsFinal, Link
<1>3. LastingStay /\ LosesNothing
  BY DEF LastingStay, LosesNothing, Link
<1>4. OpenInv'
  BY <1>1, <1>2, SoloReads DEF OpenInv
<1> QED
  BY <1>3, <1>4 DEF OpenKept

\* A step that writes, and after which the request holds nothing of what it read.
LEMMA WritesOpen ==
    ASSUME IInv, OpenInv, NEW s \in Session, Solo(s), NEW r, Step(s, r),
           r.pc \notin Busy \cup {"new", "link"}, r.op \in Requests \cup {"none"},
           LinkedInv', LastingStay, LosesNothing, UNCHANGED cronTodo
    PROVE  OpenKept
<1>1. Read(r)'
  BY NothingRead
<1>2. OpenInv'
  BY <1>1, SoloReads DEF OpenInv
<1> QED
  BY <1>2 DEF OpenKept

LEMMA MovesRead ==
    ASSUME OpenInv, NEW s \in Session PROVE Read(request[s])
  BY DEF OpenInv
----------------------------------------------------------------------------
(* Loads *)

LEMMA LoadReads ==
    ASSUME IInv, OpenInv, NEW s \in Session, Solo(s), NEW op, NEW p, NEW a, NEW ent,
           Accepts(s, op), Load(s, op, p, a, ent),
           op \in Saves => Moves(op, payroll[p].estado, ent.estado),
           op = "reactivate" => ent.slot = payroll[p].slot,
           op \in {"register", "bulk"} => payroll[p].estado \in InProcess,
           op = "approve" => action[a].estado \in PendingStates,
           op \in SavedActionOps =>
              /\ \/ action[a].estado \in PendingStates
                 \/ op = "associate" /\ action[a].estado = "APPROVED"
                 \/ op = "revive" /\ action[a].estado = "INVALIDATED"
              /\ ent.estado # "NONE"
              /\ \/ ent.idCalendarioNomina = Link(a)
                 \/ op = "associate" /\ ent.idCalendarioNomina \in Payroll
                 \/ /\ op = "edit" /\ ent.idCalendarioNomina \in Payroll
                    /\ payroll[ent.idCalendarioNomina].estado \in InProcess
    PROVE  OpenKept
<1>1. PICK r : r = [Idle EXCEPT !.op = op, !.pc = "loaded", !.p = p, !.a = a, !.ent = ent]
  OBVIOUS
<1>2. r.op = op /\ r.pc = "loaded" /\ r.p = p /\ r.a = a /\ r.ent = ent
  BY <1>1 DEF Idle
<1>3. Read(r)
  BY <1>2 DEF Read, ReadsPayroll, ReadsOrphans, ReadsAction, Busy, Accepts
<1>4. Step(s, r) /\ UNCHANGED <<payroll, action, inputs, orphans, cronTodo>>
  BY <1>1 DEF Load, tables
<1> QED
  BY <1>3, <1>4, ReadsOnly

LEMMA PayrollLoadOpen ==
    ASSUME IInv, OpenInv, NEW s \in Session, Solo(s), PayrollLoad(s)
    PROVE  OpenKept
<1>1. \A p \in Payroll : payroll[p] \in PayrollRow
  BY DEF IInv, TablesOK
<1>2. ASSUME NEW slot \in Slot, LoadCreate(s, slot) PROVE OpenKept
  <2>1. PICK ent : ent = [estado |-> "ABIERTA", versionLock |-> 0, requiresRecalculation |-> FALSE,
                          activo |-> TRUE, slot |-> slot, slotKey |-> Key(slot),
                          isActiveSlot |-> TRUE]
    OBVIOUS
  <2>2. PICK r : r = [Idle EXCEPT !.op = "create", !.pc = "new", !.ent = ent]
    OBVIOUS
  <2>3. r.op = "create" /\ r.pc = "new" /\ r.ent.estado = "ABIERTA"
    BY <2>1, <2>2 DEF Idle
  <2>4. /\ Step(s, r) /\ "create" \in Requests
        /\ UNCHANGED <<payroll, action, inputs, orphans, cronTodo>>
    BY <1>2, <2>1, <2>2 DEF LoadCreate, tables, Accepts
  <2>5. Read(r)
    BY <2>3, <2>4 DEF Read, ReadsPayroll, ReadsOrphans, ReadsAction, Busy, SavedActionOps
  <2> QED
    BY <2>4, <2>5, ReadsOnly
<1>3. ASSUME NEW p \in Payroll, NEW op \in Saves, NEW ent, Accepts(s, op),
             Load(s, op, p, NoAction, ent), Moves(op, payroll[p].estado, ent.estado),
             ent.slot = payroll[p].slot \/ op = "update"
      PROVE  OpenKept
  BY <1>3, LoadReads DEF Saves, PayrollOps, SavedByEntity, SavedActionOps
<1>4. ASSUME NEW p \in Payroll, LoadVerify(s, p) PROVE OpenKept
  <2>1. PICK ent : ent = [payroll[p] EXCEPT !.estado = "VERIFICADA", !.versionLock = Bump(p, 1)]
    OBVIOUS
  <2>2. ent.estado = "VERIFICADA" /\ ent.slot = payroll[p].slot
    BY <1>1, <2>1 DEF PayrollRow
  <2>3. /\ Accepts(s, "verify") /\ Load(s, "verify", p, NoAction, ent)
        /\ payroll[p].estado = "EN_PROCESO"
    BY <1>4, <2>1 DEF LoadVerify
  <2> QED
    BY <1>3, <2>2, <2>3 DEF Moves, Saves, PayrollOps, SavedByEntity
<1>5. ASSUME NEW p \in Payroll, LoadReopen(s, p) PROVE OpenKept
  <2>1. PICK ent : ent = [payroll[p] EXCEPT !.estado = "ABIERTA", !.versionLock = Bump(p, 1)]
    OBVIOUS
  <2>2. ent.estado = "ABIERTA" /\ ent.slot = payroll[p].slot
    BY <1>1, <2>1 DEF PayrollRow
  <2>3. /\ Accepts(s, "reopen") /\ Load(s, "reopen", p, NoAction, ent)
        /\ payroll[p].estado = "VERIFICADA"
    BY <1>5, <2>1 DEF LoadReopen
  <2> QED
    BY <1>3, <2>2, <2>3 DEF Moves, Saves, PayrollOps, SavedByEntity
<1>6. ASSUME NEW p \in Payroll, LoadProcess(s, p) PROVE OpenKept
  <2>1. PICK ent : ent = [payroll[p] EXCEPT !.estado = "EN_PROCESO",
                                            !.requiresRecalculation = FALSE,
                                            !.versionLock = Bump(p, 2)]
    OBVIOUS
  <2>2. ent.estado = "EN_PROCESO" /\ ent.slot = payroll[p].slot
    BY <1>1, <2>1 DEF PayrollRow
  <2>3. /\ Accepts(s, "process") /\ Load(s, "process", p, NoAction, ent)
        /\ payroll[p].estado \in InProcess
    BY <1>6, <2>1 DEF LoadProcess, InProcess
  <2> QED
    BY <1>3, <2>2, <2>3 DEF Moves, Saves, PayrollOps, SavedByEntity
<1>7. ASSUME NEW p \in Payroll, LoadApply(s, p) PROVE OpenKept
  <2>1. PICK ent : ent = payroll[p]
    OBVIOUS
  <2>2. Accepts(s, "apply") /\ Load(s, "apply", p, NoAction, ent)
    BY <1>7, <2>1 DEF LoadApply
  <2> QED
    BY <2>2, LoadReads DEF Saves, SavedActionOps
<1>8. ASSUME NEW p \in Payroll, LoadInactivate(s, p) PROVE OpenKept
  <2>1. PICK ent : ent = [payroll[p] EXCEPT !.estado = "INACTIVA", !.activo = FALSE,
                                            !.slotKey = [@ EXCEPT !.tagged = TRUE],
                                            !.isActiveSlot = FALSE,
                                            !.versionLock = Bump(p, 1)]
    OBVIOUS
  <2>2. ent.estado = "INACTIVA" /\ ent.slot = payroll[p].slot
    BY <1>1, <2>1 DEF PayrollRow
  <2>3. /\ Accepts(s, "inactivate") /\ Load(s, "inactivate", p, NoAction, ent)
        /\ payroll[p].estado \in Operational
    BY <1>8, <2>1 DEF LoadInactivate
  <2> QED
    BY <1>3, <2>2, <2>3 DEF Moves, Saves, PayrollOps, SavedByEntity
<1>9. ASSUME NEW p \in Payroll, LoadReactivate(s, p) PROVE OpenKept
  <2>1. PICK ent : ent = [payroll[p] EXCEPT !.estado = "ABIERTA", !.activo = TRUE,
                                            !.slotKey = Key(payroll[p].slot),
                                            !.isActiveSlot = TRUE,
                                            !.versionLock = Bump(p, 1)]
    OBVIOUS
  <2>2. ent.estado = "ABIERTA" /\ ent.slot = payroll[p].slot
    BY <1>1, <2>1 DEF PayrollRow
  <2>3. /\ Accepts(s, "reactivate") /\ Load(s, "reactivate", p, NoAction, ent)
        /\ payroll[p].estado = "INACTIVA"
    BY <1>9, <2>1 DEF LoadReactivate
  <2> QED
    BY <1>3, <2>2, <2>3 DEF Moves, Saves, PayrollOps, SavedByEntity
<1>10. ASSUME NEW p \in Payroll, NEW slot \in Slot, LoadUpdate(s, p, slot) PROVE OpenKept
  <2>1. PICK ent : ent = [payroll[p] EXCEPT !.slot = slot, !.slotKey = Key(slot),
                                            !.versionLock = Bump(p, 1)]
    OBVIOUS
  <2>2. /\ Accepts(s, "update") /\ Load(s, "update", p, NoAction, ent)
        /\ payroll[p].estado = "ABIERTA"
    BY <1>10, <2>1 DEF LoadUpdate
  <2>3. ent.estado = "ABIERTA"
    BY <1>1, <2>1, <2>2 DEF PayrollRow
  <2> QED
    BY <1>3, <2>2, <2>3 DEF Moves, Saves, PayrollOps, SavedByEntity
<1>11. ASSUME NEW p \in Payroll, NEW op \in {"include", "exclude"}, NEW emps,
              LoadSelection(s, p, op, emps)
       PROVE  OpenKept
  <2>1. PICK ent : ent = [payroll[p] EXCEPT !.requiresRecalculation = TRUE,
                                            !.versionLock = Bump(p, 1)]
    OBVIOUS
  <2>2. PICK r : r = [Idle EXCEPT !.op = op, !.pc = "loaded", !.p = p, !.emps = emps, !.ent = ent]
    OBVIOUS
  <2>3. r.op = op /\ r.pc = "loaded" /\ r.p = p /\ r.ent = ent
    BY <2>2 DEF Idle
  <2>4. ent.estado = payroll[p].estado
    BY <1>1, <2>1 DEF PayrollRow
  <2>5. /\ Step(s, r) /\ UNCHANGED <<payroll, action, inputs, orphans, cronTodo>>
        /\ op \in Requests /\ payroll[p].estado \notin {"NONE", "APLICADA"}
    BY <1>11, <2>1, <2>2 DEF LoadSelection, tables, Accepts, Exists
  <2>6. Read(r)
    BY <2>3, <2>4, <2>5
    DEF Read, ReadsPayroll, ReadsOrphans, ReadsAction, Moves, Busy, SavedActionOps
  <2> QED
    BY <2>5, <2>6, ReadsOnly
<1> QED
  BY <1>2, <1>4, <1>5, <1>6, <1>7, <1>8, <1>9, <1>10, <1>11 DEF PayrollLoad

----------------------------------------------------------------------------
(* Views *)

LEMMA PayrollViewOpen ==
    ASSUME IInv, OpenInv, NEW s \in Session, Solo(s), PayrollView(s)
    PROVE  OpenKept
<1> DEFINE old == request[s]
<1>1. old \in RequestRow /\ WellFormed(old) /\ Read(old)
  BY SessionIsProcess, InFlight, MovesRead
<1>2. PICK r : /\ Step(s, r) /\ UNCHANGED payroll /\ r = request'[s]
               /\ old.pc = "loaded" /\ old.op \in PayrollOps
               /\ r.op = old.op /\ r.p = old.p /\ r.ent = old.ent
               /\ old.op # "apply" => r.db = payroll[old.p]
  BY ViewGoesOn
<1>3. UNCHANGED <<payroll, action, inputs, orphans, cronTodo>>
  BY DEF PayrollView, ViewCreate, ViewUpdate, ViewVerify, ViewReopen, ViewSelection, ViewProcess, ViewApply,
         ViewInactivate, ViewReactivate, ReadyToSave, KeepCronAndFaults, tables
<1>4. r.op \in Requests \cup {"none"} /\ r.op \notin SavedActionOps \cup TargetOps
  BY <1>1, <1>2 DEF Read, PayrollOps, SavedByEntity, SavedActionOps, TargetOps
<1>5. r.pc = "ready"
  <2>1. ASSUME ReadyToSave(s) PROVE r.pc = "ready"
    <3>1. r = [old EXCEPT !.pc = "ready", !.db = payroll[old.p]]
      BY <1>2, <2>1, SessionMoves DEF ReadyToSave
    <3> QED
      BY <1>1, <3>1 DEF RequestRow
  <2>2. ASSUME ViewProcess(s) PROVE r.pc = "ready"
    <3>1. PICK acts, fresh, emps :
             Step(s, [old EXCEPT !.pc = "ready", !.db = payroll[old.p], !.acts = acts,
                                 !.fresh = fresh, !.emps = emps])
      BY <2>2 DEF ViewProcess
    <3>2. r = [old EXCEPT !.pc = "ready", !.db = payroll[old.p], !.acts = acts, !.fresh = fresh,
                          !.emps = emps]
      BY <1>2, <3>1, SessionMoves
    <3> QED
      BY <1>1, <3>2 DEF RequestRow
  <2>3. ASSUME ViewApply(s) PROVE r.pc = "ready"
    <3>1. r = [old EXCEPT !.pc = "ready", !.emps = results[old.p]]
      BY <1>2, <2>3, SessionMoves DEF ViewApply
    <3> QED
      BY <1>1, <3>1 DEF RequestRow
  <2>4. ASSUME ViewInactivate(s) PROVE r.pc = "ready"
    <3>1. r = [old EXCEPT !.pc = "ready", !.db = payroll[old.p], !.acts = Attached(old.p)]
      BY <1>2, <2>4, SessionMoves DEF ViewInactivate
    <3> QED
      BY <1>1, <3>1 DEF RequestRow
  <2>5. ASSUME ViewReactivate(s) PROVE r.pc = "ready"
    <3>1. PICK items, acts :
             Step(s, [old EXCEPT !.pc = "ready", !.db = payroll[old.p], !.items = items,
                                 !.acts = acts])
      BY <2>5 DEF ViewReactivate
    <3>2. r = [old EXCEPT !.pc = "ready", !.db = payroll[old.p], !.items = items, !.acts = acts]
      BY <1>2, <3>1, SessionMoves
    <3> QED
      BY <1>1, <3>2 DEF RequestRow
  <2> QED
    BY <2>1, <2>2, <2>3, <2>4, <2>5 DEF PayrollView, ViewCreate, ViewUpdate, ViewVerify, ViewReopen, ViewSelection
<1>6. old.op \in Saves => Moves(r.op, payroll[r.p].estado, r.ent.estado)
  BY <1>1, <1>2 DEF Read, ReadsPayroll, Busy
<1>7. ASSUME old.op \notin {"process", "inactivate", "reactivate"} PROVE Read(r)
  BY <1>1, <1>2, <1>4, <1>5, <1>6, <1>7
  DEF Read, ReadsPayroll, ReadsOrphans, ReadsAction, Saves, TargetOps, SavedActionOps
<1>8. ASSUME ViewProcess(s) PROVE Read(r)
  <2>1. PICK acts, fresh :
           /\ acts = Collected(old.p, old.ent.slot)
           /\ fresh = {a \in acts : Link(a) = NoPayroll}
    OBVIOUS
  <2>2. Step(s, [old EXCEPT !.pc = "ready", !.db = payroll[old.p], !.acts = acts,
                            !.fresh = fresh, !.emps = Included(old.p)])
    BY <1>8, <2>1 DEF ViewProcess, Link
  <2>3. r.acts = acts /\ r.fresh = fresh
    <3>1. r = [old EXCEPT !.pc = "ready", !.db = payroll[old.p], !.acts = acts, !.fresh = fresh,
                          !.emps = Included(old.p)]
      BY <1>2, <2>2, SessionMoves
    <3> QED
      BY <1>1, <3>1 DEF RequestRow
  <2>4. fresh \subseteq acts
    BY <2>1
  <2>5. \A a \in acts : /\ action[a].estado = "APPROVED"
                        /\ Link(a) = IF a \in fresh THEN NoPayroll ELSE old.p
    BY <2>1 DEF Collected, Link
  <2>6. old.op = "process"
    BY <1>8 DEF ViewProcess, At
  <2> QED
    BY <1>1, <1>2, <1>4, <1>5, <1>6, <2>3, <2>4, <2>5, <2>6
    DEF Read, ReadsPayroll, ReadsOrphans, ReadsAction, Saves, TargetOps, SavedActionOps
<1>9. ASSUME ViewInactivate(s) PROVE Read(r)
  <2>1. r = [old EXCEPT !.pc = "ready", !.db = payroll[old.p], !.acts = Attached(old.p)]
    BY <1>2, <1>9, SessionMoves DEF ViewInactivate
  <2>2. r.acts = Attached(r.p)
    BY <1>1, <1>2, <2>1 DEF RequestRow
  <2>3. old.op = "inactivate"
    BY <1>9 DEF ViewInactivate, At
  <2> QED
    BY <1>1, <1>2, <1>4, <1>5, <1>6, <2>2, <2>3
    DEF Read, ReadsPayroll, ReadsOrphans, ReadsAction, Saves, TargetOps, SavedActionOps
<1>10. ASSUME ViewReactivate(s) PROVE Read(r)
  <2>1. PICK items, acts :
           /\ items = {i \in orphans : i[1] = old.p}
           /\ acts = {i[2] : i \in {j \in items : Reassignable(j[1], j[2], old.p, old.ent)}}
    OBVIOUS
  <2>2. Step(s, [old EXCEPT !.pc = "ready", !.db = payroll[old.p], !.items = items, !.acts = acts])
    BY <1>10, <2>1 DEF ViewReactivate
  <2>3. r.items = items /\ r.acts = acts
    <3>1. r = [old EXCEPT !.pc = "ready", !.db = payroll[old.p], !.items = items, !.acts = acts]
      BY <1>2, <2>2, SessionMoves
    <3> QED
      BY <1>1, <3>1 DEF RequestRow
  <2>4. old.op = "reactivate" /\ old.ent.slot = payroll[old.p].slot
    BY <1>1, <1>2, <1>10 DEF ViewReactivate, At, Read, ReadsOrphans, Busy
  <2>5. \A a \in acts : ~IsFinal(a) /\ Link(a) \in {NoPayroll, old.p}
    BY <2>1 DEF Reassignable, LinkedElsewhere, Link
  <2>6. ASSUME NEW i \in items PROVE i[2] \in acts \/ Closable(i)
    BY <2>1, <2>4 DEF Reassignable, LinkedElsewhere, SamePeriod, Closable, Link
  <2> QED
    BY <1>1, <1>2, <1>4, <1>5, <1>6, <2>3, <2>4, <2>5, <2>6
    DEF Read, ReadsPayroll, ReadsOrphans, ReadsAction, Saves, TargetOps, SavedActionOps
<1>11. Read(r)
  <2>1. old.op \in {"process", "inactivate", "reactivate"} =>
           ViewProcess(s) \/ ViewInactivate(s) \/ ViewReactivate(s)
    BY DEF PayrollView, ViewCreate, ViewUpdate, ViewVerify, ViewReopen, ViewSelection, ViewApply, At
  <2> QED
    BY <1>7, <1>8, <1>9, <1>10, <2>1
<1> QED
  BY <1>2, <1>3, <1>11, ReadsOnly
----------------------------------------------------------------------------
(* Commits of payrolls *)

\* What a step of the table of payrolls alone must respect.
LEMMA RowsLinked ==
    ASSUME IInv, OpenInv, UNCHANGED <<action, inputs, orphans>>,
           \A p \in Payroll :
              /\ payroll'[p].estado \in Computing => payroll[p].estado \in Computing
              /\ payroll'[p].estado = "INACTIVA" => payroll[p].estado = "INACTIVA"
    PROVE  LinkedInv' /\ LastingStay /\ LosesNothing
<1>1. Unborn'
  BY DEF OpenInv, LinkedInv, Unborn, Link
<1>2. NoAssociate => InputsLinked'
  BY DEF OpenInv, LinkedInv, InputsLinked, Link
<1>3. NoRevive => InactiveHoldsNothing'
  <2>1. \A a \in Action : Link(a) \in Payroll \cup {NoPayroll}
    BY DEF IInv, TablesOK, ActionRow, Link
  <2> QED
    BY <2>1 DEF OpenInv, LinkedInv, InactiveHoldsNothing, IsFinal, Link
<1>4. LastingStay /\ LosesNothing
  BY DEF LastingStay, LosesNothing, Link
<1> QED
  BY <1>1, <1>2, <1>3, <1>4 DEF LinkedInv, NoAssociate, NoRevive

LEMMA RowsOpen ==
    ASSUME IInv, OpenInv, NEW s \in Session, Solo(s), NEW r, Step(s, r),
           r.pc \notin Busy \cup {"new", "link"}, r.op \in Requests \cup {"none"},
           UNCHANGED <<action, inputs, orphans, cronTodo>>,
           \A p \in Payroll :
              /\ payroll'[p].estado \in Computing => payroll[p].estado \in Computing
              /\ payroll'[p].estado = "INACTIVA" => payroll[p].estado = "INACTIVA"
    PROVE  OpenKept
  BY RowsLinked, WritesOpen

\* Alone, save() writes the entity.
LEMMA SoloSaves ==
    ASSUME IInv, OpenInv, NEW s \in Session, request[s].op \in Saves, request[s].pc = "ready"
    PROVE  /\ request[s].p \in Payroll /\ Merged(s) = request[s].ent
           /\ Moves(request[s].op, payroll[request[s].p].estado, request[s].ent.estado)
<1> DEFINE r == request[s]
<1>1. r \in RequestRow /\ WellFormed(r) /\ Read(r)
  BY SessionIsProcess, InFlight, MovesRead
<1>2. r.p \in Payroll /\ r.ent \in PayrollRow
  BY <1>1 DEF WellFormed, Saves, Busy
<1>3. r.db = payroll[r.p] /\ Moves(r.op, payroll[r.p].estado, r.ent.estado)
  BY <1>1 DEF Read, ReadsPayroll, Busy
<1>4. payroll[r.p] \in PayrollRow
  BY <1>2 DEF IInv, TablesOK
<1>5. \A row, ent \in PayrollRow : MergePayroll(row, row, ent) = ent
  BY DEF MergePayroll, Column, PayrollRow
<1> QED
  BY <1>2, <1>3, <1>4, <1>5 DEF Merged

LEMMA CommitCreateOpen ==
    ASSUME IInv, OpenInv, NEW s \in Session, Solo(s), NEW p \in Payroll, CommitCreate(s, p)
    PROVE  OpenKept
<1>0. PICK old : old = request[s]
  OBVIOUS
<1>1. /\ old \in RequestRow /\ Read(old) /\ old.op = "create" /\ old.pc = "new"
  BY <1>0, SessionIsProcess, InFlight, MovesRead DEF CommitCreate, At
<1>2. PICK r : r = [old EXCEPT !.pc = "loaded", !.p = p]
  OBVIOUS
<1>3. Step(s, r) /\ r.op = "create" /\ r.pc = "loaded" /\ r.p = p /\ r.ent = old.ent
  BY <1>0, <1>1, <1>2 DEF CommitCreate, RequestRow
<1>4. "create" \in Requests /\ old.ent.estado = "ABIERTA"
  <2>1. "create" \in Requests \cup {"none"} /\ old.ent.estado = "ABIERTA"
    BY <1>1 DEF Read, ReadsPayroll
  <2> QED
    BY <2>1
<1>5. \A q \in Payroll : payroll'[q] = IF q = p THEN old.ent ELSE payroll[q]
  BY <1>0 DEF CommitCreate, IInv, TablesOK
<1>6. UNCHANGED <<action, inputs, orphans, cronTodo>>
  BY DEF CommitCreate, KeepCronAndFaults
<1>7. LinkedInv' /\ LastingStay /\ LosesNothing
  BY <1>4, <1>5, <1>6, RowsLinked DEF Computing
<1>8. Moves(r.op, payroll'[r.p].estado, r.ent.estado)
  BY <1>3, <1>4, <1>5 DEF Moves
<1>9. Read(r)'
  BY <1>3, <1>4, <1>8
  DEF Read, ReadsPayroll, ReadsOrphans, ReadsAction, Moves, Busy, SavedActionOps
<1>10. OpenInv'
  BY <1>3, <1>6, <1>7, <1>9, SoloReads DEF OpenInv
<1> QED
  BY <1>7, <1>10 DEF OpenKept

LEMMA CommitSaveOpen ==
    ASSUME IInv, OpenInv, NEW s \in Session, Solo(s), CommitSave(s)
    PROVE  OpenKept
<1> DEFINE old == request[s]
<1>1. PICK p, op : p = old.p /\ op = old.op
  OBVIOUS
<1>2. old.op \in Saves /\ old.pc = "ready" /\ op \in SavedByEntity
  BY <1>1 DEF CommitSave, Saves, PayrollOps, SavedByEntity
<1>3. p \in Payroll /\ Merged(s) = old.ent /\ Moves(op, payroll[p].estado, old.ent.estado)
  BY <1>1, <1>2, SoloSaves
<1>4. \A q \in Payroll : payroll'[q] = IF q = p THEN old.ent ELSE payroll[q]
  BY <1>1, <1>3 DEF CommitSave, IInv, TablesOK
<1>5. ASSUME NEW q \in Payroll
      PROVE  /\ payroll'[q].estado \in Computing => payroll[q].estado \in Computing
             /\ payroll'[q].estado = "INACTIVA" => payroll[q].estado = "INACTIVA"
  BY <1>2, <1>3, <1>4 DEF Moves, SavedByEntity, Computing
<1>6. PICK r : Step(s, r) /\ r.pc \in {"idle", "orphans"} /\ r.op \in {"none", op}
  <2>1. CASE op \in {"create", "reopen"}
    <3>1. PICK r : r = [Idle EXCEPT !.op = op, !.pc = "orphans", !.p = p]
      OBVIOUS
    <3>2. r.op = op /\ r.pc = "orphans"
      BY <3>1 DEF Idle
    <3>3. Step(s, r)
      BY <1>1, <2>1, <3>1 DEF CommitSave
    <3> QED
      BY <2>1, <3>2, <3>3
  <2>2. CASE op \notin {"create", "reopen"}
    <3>1. Step(s, Idle)
      BY <1>1, <2>2 DEF CommitSave
    <3> QED
      BY <3>1 DEF Idle
  <2> QED
    BY <2>1, <2>2
<1>7. op \in Requests \cup {"none"}
  BY <1>1, MovesRead DEF Read
<1>8. UNCHANGED <<action, inputs, orphans, cronTodo>>
  BY DEF CommitSave, KeepCronAndFaults
<1> QED
  BY <1>5, <1>6, <1>7, <1>8, RowsOpen DEF Busy

LEMMA CommitProcessOpen ==
    ASSUME IInv, OpenInv, NEW s \in Session, Solo(s), CommitProcess(s)
    PROVE  OpenKept
<1> DEFINE r == request[s]
<1>1. r.op = "process" /\ r.pc = "ready" /\ r.op \in Saves /\ Read(r)
  BY MovesRead DEF CommitProcess, At, Saves, PayrollOps
<1>2. PICK p, acts, fresh : p = r.p /\ acts = r.acts /\ fresh = r.fresh
  OBVIOUS
<1>3. p \in Payroll /\ Merged(s).estado = "EN_PROCESO"
  BY <1>1, <1>2, SoloSaves DEF Moves
<1>4. /\ fresh \subseteq acts
      /\ \A a \in acts : action[a].estado = "APPROVED" /\ Link(a) = IF a \in fresh THEN NoPayroll ELSE p
  BY <1>1, <1>2 DEF Read, ReadsPayroll
<1>5. /\ \A q \in Payroll : payroll'[q] = IF q = p THEN Merged(s) ELSE payroll[q]
      /\ \A q \in Payroll : inputs'[q] = IF q = p THEN acts ELSE inputs[q]
      /\ UNCHANGED <<orphans, cronTodo>> /\ Step(s, Idle)
  BY <1>2 DEF CommitProcess, KeepCronAndFaults, IInv, TablesOK
<1>6. acts \subseteq Action
  BY <1>2, SessionIsProcess, InFlight DEF RequestRow
<1>7. ASSUME NEW a \in Action
      PROVE  \/ /\ a \in fresh /\ action'[a] = [action[a] EXCEPT !.idCalendarioNomina = p]
             \/ /\ a \notin fresh /\ Invalidable(a)
                /\ action'[a] = [action[a] EXCEPT !.estado = "INVALIDATED"]
             \/ a \notin fresh /\ action'[a] = action[a]
  BY <1>2 DEF CommitProcess
<1>8. ASSUME NEW a \in Action
      PROVE  \/ /\ a \in fresh /\ action[a].estado = "APPROVED" /\ Link(a) = NoPayroll
                /\ action'[a].estado = "APPROVED" /\ Link(a)' = p
             \/ /\ a \notin fresh /\ action[a].estado = "APPROVED" /\ Link(a) = NoPayroll
                /\ action'[a].estado = "INVALIDATED" /\ Link(a)' = NoPayroll
             \/ a \notin fresh /\ action'[a] = action[a]
  <2>1. action[a] \in ActionRow
    BY DEF IInv, TablesOK
  <2> QED
    BY <1>4, <1>7, <2>1 DEF Invalidable, ActionRow, Link
<1>9. p # NoPayroll
  BY <1>3, SetsAssumption
<1>10. Unborn'
  BY <1>8 DEF Unborn, OpenInv, LinkedInv, Link
<1>11. ASSUME NoAssociate PROVE InputsLinked'
  <2>1. ASSUME NEW q \in Payroll, payroll'[q].estado \in Computing, NEW a \in inputs'[q]
        PROVE  Link(a)' = q /\ action'[a].estado \in {"APPROVED", "CONSUMED"}
    <3>1. CASE q = p
      <4>1. a \in acts /\ a \in Action
        BY <1>5, <1>6, <2>1, <3>1
      <4>2. CASE a \in fresh
        BY <1>8, <3>1, <4>1, <4>2
      <4>3. CASE a \notin fresh
        <5>1. Link(a) = p /\ action[a].estado = "APPROVED"
          BY <1>4, <4>1, <4>3
        <5>2. action'[a] = action[a]
          BY <1>8, <1>9, <4>1, <4>3, <5>1
        <5> QED
          BY <3>1, <5>1, <5>2 DEF Link
      <4> QED
        BY <4>2, <4>3
    <3>2. CASE q # p
      <4>1. a \in inputs[q] /\ payroll[q].estado \in Computing /\ a \in Action
        BY <1>5, <2>1, <3>2 DEF IInv, TablesOK
      <4>2. Link(a) = q /\ action[a].estado \in {"APPROVED", "CONSUMED"}
        BY <1>11, <4>1 DEF OpenInv, LinkedInv, InputsLinked
      <4>3. Link(a) # NoPayroll
        BY <4>2, SetsAssumption
      <4>4. action'[a] = action[a]
        BY <1>8, <4>1, <4>3
      <4> QED
        BY <4>2, <4>4 DEF Link
    <3> QED
      BY <3>1, <3>2
  <2> QED
    BY <2>1 DEF InputsLinked, Link
<1>12. ASSUME NoRevive PROVE InactiveHoldsNothing'
  <2>1. ASSUME NEW a \in Action, Link(a)' # NoPayroll, payroll'[Link(a)'].estado = "INACTIVA"
        PROVE  IsFinal(a)'
    <3>1. Link(a)' \in Payroll
      <4>1. Link(a) \in Payroll \cup {NoPayroll}
        BY DEF IInv, TablesOK, ActionRow, Link
      <4> QED
        BY <1>3, <1>8, <2>1, <4>1 DEF Link
    <3>2. Link(a)' # p
      BY <1>3, <1>5, <2>1
    <3>3. action'[a] = action[a]
      BY <1>8, <2>1, <3>2
    <3>4. payroll[Link(a)].estado = "INACTIVA" /\ Link(a) # NoPayroll
      BY <1>5, <2>1, <3>1, <3>2, <3>3 DEF Link
    <3>5. IsFinal(a)
      BY <1>12, <3>4 DEF OpenInv, LinkedInv, InactiveHoldsNothing, Link
    <3> QED
      BY <3>3, <3>5 DEF IsFinal
  <2> QED
    BY <2>1 DEF InactiveHoldsNothing, Link
<1>13. LastingStay
  BY <1>8 DEF LastingStay, Lasting
<1>14. LosesNothing
  BY <1>5, <1>8 DEF LosesNothing, Link
<1> QED
  BY <1>5, <1>10, <1>11, <1>12, <1>13, <1>14, WritesOpen
  DEF LinkedInv, NoAssociate, NoRevive, Idle, Busy

\* What a step that writes actions must respect, action by action.
LEMMA ActionsOpen ==
    ASSUME IInv, OpenInv, NEW s \in Session, Solo(s), NEW r, Step(s, r),
           r.pc \notin Busy \cup {"new", "link"}, r.op \in Requests \cup {"none"},
           UNCHANGED <<inputs, cronTodo>>, LosesNothing,
           \A q \in Payroll : payroll'[q].estado \in Computing => payroll[q].estado \in Computing,
           \A a \in Action :
              /\ action[a].estado \in Lasting => action'[a] = action[a]
              /\ action'[a].estado = "NONE" => Link(a)' = NoPayroll
              /\ NoAssociate =>
                    \/ action'[a] = action[a]
                    \/ Link(a)' = Link(a) /\ action'[a].estado \in {"APPROVED", "CONSUMED"}
                    \/ Link(a) = NoPayroll \/ payroll'[Link(a)].estado \notin Computing
                    \/ action[a].estado \notin {"APPROVED", "CONSUMED"}
              /\ NoRevive =>
                    IsFinal(a)' \/ Link(a)' = NoPayroll \/ payroll'[Link(a)'].estado # "INACTIVA"
    PROVE  OpenKept
<1>1. Unborn'
  BY DEF Unborn, Link
<1>2. ASSUME NoAssociate PROVE InputsLinked'
  <2>1. ASSUME NEW q \in Payroll, payroll'[q].estado \in Computing, NEW a \in inputs[q]
        PROVE  Link(a)' = q /\ action'[a].estado \in {"APPROVED", "CONSUMED"}
    <3>1. a \in Action
      BY <2>1 DEF IInv, TablesOK
    <3>2. Link(a) = q /\ action[a].estado \in {"APPROVED", "CONSUMED"}
      BY <1>2, <2>1 DEF OpenInv, LinkedInv, InputsLinked
    <3>3. Link(a) # NoPayroll
      BY <3>2, SetsAssumption
    <3>4. \/ action'[a] = action[a]
          \/ Link(a)' = Link(a) /\ action'[a].estado \in {"APPROVED", "CONSUMED"}
      BY <1>2, <2>1, <3>1, <3>2, <3>3
    <3> QED
      BY <3>2, <3>4 DEF Link
  <2> QED
    BY <2>1 DEF InputsLinked, Link
<1>3. NoRevive => InactiveHoldsNothing'
  BY DEF InactiveHoldsNothing, Link
<1>4. LastingStay
  BY DEF LastingStay
<1> QED
  BY <1>1, <1>2, <1>3, <1>4, WritesOpen DEF LinkedInv, NoAssociate, NoRevive

\* An action that no payroll is left with was linked to one, or to none.
LEMMA LinkOf ==
    ASSUME IInv, NEW a \in Action PROVE action[a] \in ActionRow /\ Link(a) \in Payroll \cup {NoPayroll}
  BY DEF IInv, TablesOK, ActionRow, Link

LEMMA StaysUnheld ==
    ASSUME IInv, OpenInv, NoRevive, NEW a \in Action, action'[a] = action[a],
           \A q \in Payroll : payroll'[q].estado = "INACTIVA" => payroll[q].estado = "INACTIVA"
    PROVE  IsFinal(a)' \/ Link(a)' = NoPayroll \/ payroll'[Link(a)'].estado # "INACTIVA"
<1>1. Link(a) \in Payroll \cup {NoPayroll}
  BY LinkOf
<1>2. Link(a) # NoPayroll /\ payroll[Link(a)].estado = "INACTIVA" => IsFinal(a)
  BY DEF OpenInv, LinkedInv, InactiveHoldsNothing, Link
<1> QED
  BY <1>1, <1>2 DEF Link, IsFinal

LEMMA CommitApplyOpen ==
    ASSUME IInv, OpenInv, NEW s \in Session, Solo(s), CommitApply(s)
    PROVE  OpenKept
<1>1. PICK p : p = request[s].p
  OBVIOUS
<1>2. request[s] \in RequestRow /\ WellFormed(request[s])
  BY SessionIsProcess, InFlight
<1>3. p \in Payroll
  BY <1>1, <1>2 DEF CommitApply, At, WellFormed, PayrollOps, Busy
<1>4. payroll[p] \in PayrollRow /\ payroll[p].estado = "VERIFICADA"
  BY <1>1, <1>3 DEF CommitApply, StillAsLoaded, IInv, TablesOK
<1>5. Applied(payroll[p]).estado = "APLICADA"
  BY <1>4 DEF Applied, PayrollRow
<1>6. \A q \in Payroll : payroll'[q] = IF q = p THEN Applied(payroll[p]) ELSE payroll[q]
  BY <1>1 DEF CommitApply, IInv, TablesOK
<1>7. /\ \A q \in Payroll : payroll'[q].estado \in Computing => payroll[q].estado \in Computing
      /\ \A q \in Payroll : payroll'[q].estado = "INACTIVA" => payroll[q].estado = "INACTIVA"
  BY <1>4, <1>5, <1>6 DEF Computing
<1>8. ASSUME NEW a \in Action
      PROVE  \/ action'[a] = action[a]
             \/ /\ action[a].estado \in ApprovedStates
                /\ action'[a].estado = "CONSUMED" /\ Link(a)' = Link(a)
  <2>1. action'[a] = action[a] \/ (Consumed(s, a) /\ action'[a] = [action[a] EXCEPT !.estado = "CONSUMED"])
    BY DEF CommitApply
  <2> QED
    BY <2>1, LinkOf DEF Consumed, ActionRow, Link
<1>9. UNCHANGED <<inputs, orphans, cronTodo>> /\ Step(s, Idle)
  BY DEF CommitApply, KeepCronAndFaults
<1>10. LosesNothing
  BY <1>8, <1>9 DEF LosesNothing, Link
<1>11. ASSUME NEW a \in Action
       PROVE  /\ action[a].estado \in Lasting => action'[a] = action[a]
              /\ action'[a].estado = "NONE" => Link(a)' = NoPayroll
              /\ \/ action'[a] = action[a]
                 \/ Link(a)' = Link(a) /\ action'[a].estado \in {"APPROVED", "CONSUMED"}
              /\ NoRevive =>
                    IsFinal(a)' \/ Link(a)' = NoPayroll \/ payroll'[Link(a)'].estado # "INACTIVA"
  <2>1. action[a].estado = "NONE" => Link(a) = NoPayroll
    BY DEF OpenInv, LinkedInv, Unborn
  <2>2. action'[a].estado = "CONSUMED" => IsFinal(a)'
    BY DEF IsFinal, FinalStates
  <2>3. NoRevive /\ action'[a] = action[a] =>
           IsFinal(a)' \/ Link(a)' = NoPayroll \/ payroll'[Link(a)'].estado # "INACTIVA"
    BY <1>7, StaysUnheld
  <2> QED
    BY <1>8, <2>1, <2>2, <2>3 DEF Lasting, ApprovedStates, Link
<1> QED
  BY <1>7, <1>9, <1>10, <1>11, ActionsOpen DEF Idle, Busy

LEMMA CommitInactivateOpen ==
    ASSUME IInv, OpenInv, NEW s \in Session, Solo(s), CommitInactivate(s)
    PROVE  OpenKept
<1> DEFINE r == request[s]
<1>1. PICK p, acts : p = r.p /\ acts = r.acts
  OBVIOUS
<1>2. r.op = "inactivate" /\ r.pc = "ready" /\ r.op \in Saves /\ Read(r)
  BY MovesRead DEF CommitInactivate, At, Saves, PayrollOps
<1>3. p \in Payroll /\ Merged(s).estado = "INACTIVA" /\ payroll[p].estado \in Operational
  BY <1>1, <1>2, SoloSaves DEF Moves
<1>4. acts = Attached(p)
  BY <1>1, <1>2 DEF Read, ReadsPayroll
<1>5. \A q \in Payroll : payroll'[q] = IF q = p THEN Merged(s) ELSE payroll[q]
  BY <1>1 DEF CommitInactivate, IInv, TablesOK
<1>6. /\ \A q \in Payroll : payroll'[q].estado \in Computing => payroll[q].estado \in Computing
      /\ payroll'[p].estado = "INACTIVA"
  BY <1>3, <1>5 DEF Computing
<1>7. ASSUME NEW a \in Action
      PROVE  \/ a \notin acts /\ action'[a] = action[a]
             \/ /\ a \in acts /\ Link(a) = p /\ action[a].estado \in Detachable
                /\ action'[a] = [estado |-> "PENDING_RRHH", idCalendarioNomina |-> NoPayroll]
  BY <1>1, <1>4 DEF CommitInactivate, Attached, Link
<1>8. UNCHANGED <<inputs, cronTodo>> /\ Step(s, Idle) /\ orphans' = orphans \cup ({p} \X acts)
  BY <1>1 DEF CommitInactivate, KeepCronAndFaults
<1>9. LosesNothing
  BY <1>7, <1>8 DEF LosesNothing, Link
<1>10. ASSUME NEW a \in Action
       PROVE  /\ action[a].estado \in Lasting => action'[a] = action[a]
              /\ action'[a].estado = "NONE" => Link(a)' = NoPayroll
              /\ action'[a] = action[a] \/ payroll'[Link(a)].estado \notin Computing
              /\ NoRevive =>
                    IsFinal(a)' \/ Link(a)' = NoPayroll \/ payroll'[Link(a)'].estado # "INACTIVA"
  <2>1. action[a].estado = "NONE" => Link(a) = NoPayroll
    BY DEF OpenInv, LinkedInv, Unborn
  <2>2. CASE a \in acts
    <3>1. /\ Link(a) = p /\ action[a].estado \in Detachable
          /\ Link(a)' = NoPayroll /\ action'[a].estado = "PENDING_RRHH"
      BY <1>7, <2>2 DEF Link
    <3> QED
      BY <1>6, <3>1 DEF Lasting, Detachable, PendingStates, Computing
  <2>3. CASE a \notin acts
    <3>1. action'[a] = action[a] /\ action[a] \in ActionRow /\ Link(a) \in Payroll \cup {NoPayroll}
      BY <1>7, <2>3, LinkOf
    <3>2. ASSUME NoRevive
          PROVE  IsFinal(a)' \/ Link(a)' = NoPayroll \/ payroll'[Link(a)'].estado # "INACTIVA"
      <4>1. CASE Link(a) = p
        <5>1. action[a].estado \notin Detachable /\ action[a].estado # "NONE"
          BY <1>3, <1>4, <2>1, <2>3, <4>1, SetsAssumption DEF Attached, Link
        <5>2. IsFinal(a)
          BY <3>1, <5>1 DEF ActionRow, ActionState, Detachable, PendingStates, IsFinal, FinalStates
        <5> QED
          BY <3>1, <5>2 DEF IsFinal
      <4>2. CASE Link(a) # p
        <5>1. Link(a) # NoPayroll /\ payroll[Link(a)].estado = "INACTIVA" => IsFinal(a)
          BY <3>2 DEF OpenInv, LinkedInv, InactiveHoldsNothing, Link
        <5> QED
          BY <1>5, <3>1, <4>2, <5>1 DEF Link, IsFinal
      <4> QED
        BY <4>1, <4>2
    <3> QED
      BY <2>1, <3>1, <3>2 DEF Link
  <2> QED
    BY <2>2, <2>3
<1> QED
  BY <1>6, <1>8, <1>9, <1>10, ActionsOpen DEF Idle, Busy

\* A payroll takes orphans: they are linked again, and the items that close have a reason.
LEMMA TakesOrphans ==
    ASSUME IInv, OpenInv, NEW s \in Session, Solo(s), NEW r, Step(s, r),
           r.pc \notin Busy \cup {"new", "link"}, r.op \in Requests \cup {"none"},
           NEW p \in Payroll, NEW acts, NEW items, NEW taken,
           UNCHANGED <<inputs, cronTodo>>,
           \A q \in Payroll :
              /\ payroll'[q].estado \in Computing => payroll[q].estado \in Computing
              /\ payroll'[q].estado = "INACTIVA" => payroll[q].estado = "INACTIVA",
           payroll'[p].estado # "INACTIVA",
           payroll'[p].estado \in Computing => \A a \in taken : Link(a) = NoPayroll,
           \A a \in acts : ~IsFinal(a) /\ Link(a) \in {NoPayroll, p},
           taken \subseteq acts, \A a \in acts : Link(a) = NoPayroll => a \in taken,
           \A i \in items : i[2] \in acts \/ Closable(i),
           \A a \in Action : action'[a] = IF a \in taken THEN Relinked(a, p) ELSE action[a],
           orphans \ orphans' \subseteq {i \in orphans : i[2] \in acts} \cup items
    PROVE  OpenKept
<1>1. p # NoPayroll
  BY SetsAssumption
<1>2. ASSUME NEW a \in Action
      PROVE  \/ a \notin taken /\ action'[a] = action[a]
             \/ a \in taken /\ Link(a)' = p /\ action'[a].estado = "PENDING_RRHH"
  BY LinkOf DEF Relinked, ActionRow, Link
<1>3. ASSUME NEW i \in orphans \ orphans'
      PROVE  \/ action'[i[2]].idCalendarioNomina # NoPayroll
             \/ action'[i[2]].estado \in FinalStates
             \/ Period[i[2]] # payroll[i[1]].slot
  <2>1. i[2] \in Action
    BY <1>3 DEF IInv, TablesOK
  <2>2. i[2] \in acts \/ Closable(i)
    BY <1>3
  <2>3. CASE i[2] \in taken
    BY <1>1, <1>2, <2>1, <2>3 DEF Link
  <2>4. CASE i[2] \notin taken
    <3>1. action'[i[2]] = action[i[2]]
      BY <1>2, <2>1, <2>4
    <3>2. i[2] \in acts => Link(i[2]) # NoPayroll
      BY <2>4
    <3> QED
      BY <2>2, <3>1, <3>2 DEF Closable, IsFinal, Link
  <2> QED
    BY <2>3, <2>4
<1>4. LosesNothing
  <2>1. \A a \in Action : Link(a) # NoPayroll => Link(a)' # NoPayroll
    BY <1>1, <1>2 DEF Link
  <2> QED
    BY <1>3, <2>1 DEF LosesNothing, Link
<1>5. ASSUME NEW a \in Action
      PROVE  /\ action[a].estado \in Lasting => action'[a] = action[a]
             /\ action'[a].estado = "NONE" => Link(a)' = NoPayroll
             /\ \/ action'[a] = action[a]
                \/ Link(a) = NoPayroll \/ payroll'[Link(a)].estado \notin Computing
             /\ NoRevive =>
                   IsFinal(a)' \/ Link(a)' = NoPayroll \/ payroll'[Link(a)'].estado # "INACTIVA"
  <2>1. action[a].estado = "NONE" => Link(a) = NoPayroll
    BY DEF OpenInv, LinkedInv, Unborn
  <2>2. CASE a \in taken
    <3>1. ~IsFinal(a) /\ Link(a) \in {NoPayroll, p} /\ Link(a)' = p /\ action'[a].estado = "PENDING_RRHH"
      BY <1>2, <2>2
    <3> QED
      BY <2>2, <3>1 DEF Lasting, IsFinal, FinalStates
  <2>3. CASE a \notin taken
    <3>1. action'[a] = action[a]
      BY <1>2, <2>3
    <3>2. NoRevive => IsFinal(a)' \/ Link(a)' = NoPayroll \/ payroll'[Link(a)'].estado # "INACTIVA"
      BY <3>1, StaysUnheld
    <3> QED
      BY <2>1, <3>1, <3>2 DEF Link
  <2> QED
    BY <2>2, <2>3
<1> QED
  BY <1>4, <1>5, ActionsOpen

LEMMA CommitReactivateOpen ==
    ASSUME IInv, OpenInv, NEW s \in Session, Solo(s), CommitReactivate(s)
    PROVE  OpenKept
<1> DEFINE old == request[s]
<1>1. PICK p, acts, items : p = old.p /\ acts = old.acts /\ items = old.items
  OBVIOUS
<1>2. old.op = "reactivate" /\ old.pc = "ready" /\ old.op \in Saves /\ Read(old)
  BY MovesRead DEF CommitReactivate, At, Saves, PayrollOps
<1>3. p \in Payroll /\ Merged(s).estado = "ABIERTA"
  BY <1>1, <1>2, SoloSaves DEF Moves
<1>4. /\ \A a \in acts : ~IsFinal(a) /\ Link(a) \in {NoPayroll, p}
      /\ \A i \in items : i[2] \in acts \/ Closable(i)
  BY <1>1, <1>2 DEF Read, ReadsOrphans
<1>5. \A q \in Payroll : payroll'[q] = IF q = p THEN Merged(s) ELSE payroll[q]
  BY <1>1 DEF CommitReactivate, IInv, TablesOK
<1>6. PICK r : r = [Idle EXCEPT !.op = "reactivate", !.pc = "orphans", !.p = p]
  OBVIOUS
<1>7. r.pc = "orphans" /\ r.op = "reactivate" /\ "reactivate" \in Requests
  BY <1>2, <1>6 DEF Idle, Read
<1>8. /\ Step(s, r) /\ UNCHANGED <<inputs, cronTodo>> /\ orphans' = orphans \ items
      /\ \A a \in Action : action'[a] = IF a \in acts THEN Relinked(a, p) ELSE action[a]
  BY <1>1, <1>6 DEF CommitReactivate, KeepCronAndFaults
<1>9. \A q \in Payroll :
         /\ payroll'[q].estado \in Computing => payroll[q].estado \in Computing
         /\ payroll'[q].estado = "INACTIVA" => payroll[q].estado = "INACTIVA"
  BY <1>3, <1>5 DEF Computing
<1>10. payroll'[p].estado = "ABIERTA" /\ payroll'[p].estado \notin Computing
  BY <1>3, <1>5 DEF Computing
<1>11. orphans \ orphans' \subseteq {i \in orphans : i[2] \in acts} \cup items
  BY <1>8
<1>12. payroll'[p].estado # "INACTIVA"
  BY <1>10
<1>13. r.pc \notin Busy \cup {"new", "link"} /\ r.op \in Requests \cup {"none"}
  BY <1>7 DEF Busy
<1>14. PICK taken : taken = acts
  OBVIOUS
<1>15. /\ payroll'[p].estado \in Computing => \A a \in taken : Link(a) = NoPayroll
       /\ taken \subseteq acts /\ \A a \in acts : Link(a) = NoPayroll => a \in taken
       /\ \A a \in Action : action'[a] = IF a \in taken THEN Relinked(a, p) ELSE action[a]
  BY <1>8, <1>10, <1>14
<1>16. Step(s, r) /\ UNCHANGED <<inputs, cronTodo>> /\ p \in Payroll
  BY <1>3, <1>8
<1> HIDE DEF old
<1> QED
  BY <1>4, <1>9, <1>11, <1>12, <1>13, <1>15, <1>16, TakesOrphans
----------------------------------------------------------------------------
(* The orphans *)

LEMMA ReassignOpen ==
    ASSUME IInv, OpenInv, NEW s \in Session, Solo(s), Reassign(s)
    PROVE  OpenKept
<1> DEFINE old == request[s]
<1>1. old \in RequestRow /\ WellFormed(old) /\ Read(old)
  BY SessionIsProcess, InFlight, MovesRead
<1>2. PICK p : p = old.p
  OBVIOUS
<1>3. ASSUME ViewOrphans(s) PROVE OpenKept
  <2>1. PICK acts, items :
           /\ acts = {i[2] : i \in {j \in orphans : Reassignable(j[1], j[2], p, payroll[p])}}
           /\ items = {j \in orphans : Terminal(j[1], j[2], p, payroll[p])}
    OBVIOUS
  <2>2. PICK r : r = [old EXCEPT !.pc = "link", !.acts = acts, !.items = items]
    OBVIOUS
  <2>3. Step(s, r) /\ UNCHANGED <<payroll, action, inputs, orphans, cronTodo>>
    BY <1>2, <1>3, <2>1, <2>2 DEF ViewOrphans, tables
  <2>4. r.op = old.op /\ r.pc = "link" /\ r.p = p /\ r.acts = acts /\ r.items = items
    BY <1>1, <1>2, <2>2 DEF RequestRow
  <2>5. payroll[p].estado \in Operational
    BY <1>2, <1>3 DEF ViewOrphans, ActiveForReassignment
  <2>6. \A a \in acts : ~IsFinal(a) /\ Link(a) \in {NoPayroll, p}
    BY <2>1 DEF Reassignable, LinkedElsewhere, Link
  <2>7. \A i \in items : Closable(i)
    BY <2>1 DEF Terminal, LinkedElsewhere, Closable, Link
  <2>8. Read(r)
    BY <1>1, <2>4, <2>5, <2>6, <2>7 DEF Read, ReadsPayroll, ReadsOrphans, ReadsAction, Busy
  <2> QED
    BY <2>3, <2>8, ReadsOnly
<1>4. ASSUME CommitOrphans(s) PROVE OpenKept
  <2>1. PICK acts, items : acts = old.acts /\ items = old.items
    OBVIOUS
  <2>2. PICK taken : taken = {a \in acts : Link(a) = NoPayroll}
    OBVIOUS
  <2>3. p \in Payroll
    BY <1>1, <1>2, <1>4 DEF CommitOrphans, WellFormed
  <2>4. /\ payroll[p].estado \in Operational /\ \A i \in items : Closable(i)
        /\ \A a \in acts : ~IsFinal(a) /\ Link(a) \in {NoPayroll, p}
    BY <1>1, <1>2, <1>4, <2>1 DEF CommitOrphans, Read, ReadsOrphans
  <2>5. \A a \in Action : action'[a] = IF a \in taken THEN Relinked(a, p) ELSE action[a]
    BY <1>2, <1>4, <2>1, <2>2 DEF CommitOrphans, Link
  <2>6. /\ Step(s, Idle) /\ UNCHANGED <<payroll, inputs, cronTodo>>
        /\ orphans' = {i \in orphans : i[2] \notin acts /\ i \notin items}
    BY <1>4, <2>1 DEF CommitOrphans, KeepCronAndFaults
  <2>7. orphans \ orphans' \subseteq {i \in orphans : i[2] \in acts} \cup items
    BY <2>6
  <2>8. payroll'[p].estado # "INACTIVA"
    BY <2>4, <2>6 DEF Operational
  <2>9. Idle.pc = "idle" /\ Idle.op = "none"
    BY DEF Idle
  <2>10. /\ taken \subseteq acts /\ \A a \in acts : Link(a) = NoPayroll => a \in taken
         /\ \A a \in taken : Link(a) = NoPayroll
    BY <2>2
  <2>11. /\ \A q \in Payroll :
               /\ payroll'[q].estado \in Computing => payroll[q].estado \in Computing
               /\ payroll'[q].estado = "INACTIVA" => payroll[q].estado = "INACTIVA"
         /\ payroll'[p].estado \in Computing => \A a \in taken : Link(a) = NoPayroll
    BY <2>6, <2>10
  <2>12. PICK r : r = Idle
    OBVIOUS
  <2>13. r.pc \notin Busy \cup {"new", "link"} /\ r.op \in Requests \cup {"none"} /\ Step(s, r)
    BY <2>6, <2>9, <2>12 DEF Busy
  <2>14. \A i \in items : i[2] \in acts \/ Closable(i)
    BY <2>4
  <2> HIDE DEF old
  <2> QED
    BY <2>3, <2>4, <2>5, <2>6, <2>7, <2>8, <2>10, <2>11, <2>13, <2>14, TakesOrphans
<1>5. ASSUME SkipOrphans(s) PROVE OpenKept
  BY <1>5, RowsOpen DEF SkipOrphans, tables, Idle, Busy
<1> QED
  BY <1>3, <1>4, <1>5 DEF Reassign
----------------------------------------------------------------------------
(* The personal actions *)

\* A write of one action.
LEMMA OneActionOpen ==
    ASSUME IInv, OpenInv, NEW s \in Session, Solo(s), NEW r, Step(s, r),
           r.pc \notin Busy \cup {"new", "link"}, r.op \in Requests \cup {"none"},
           NEW a \in Action, NEW row, row.estado # "NONE",
           action' = [action EXCEPT ![a] = row],
           UNCHANGED <<payroll, inputs, orphans, cronTodo>>,
           \/ action[a].estado \in PendingStates \cup {"NONE"}
           \/ ~NoAssociate /\ action[a].estado = "APPROVED"
           \/ ~NoRevive /\ action[a].estado = "INVALIDATED",
           \/ row.idCalendarioNomina = Link(a)
           \/ /\ row.idCalendarioNomina \in Payroll
              /\ ~NoAssociate \/ payroll[row.idCalendarioNomina].estado \in InProcess
    PROVE  OpenKept
<1>1. \A b \in Action : action'[b] = IF b = a THEN row ELSE action[b]
  BY DEF IInv, TablesOK
<1>2. NoRevive => NoAssociate
  BY DEF NoRevive, NoAssociate
<1>3. LosesNothing
  BY <1>1, SetsAssumption DEF LosesNothing, Link
<1>4. ASSUME NEW b \in Action
      PROVE  /\ action[b].estado \in Lasting => action'[b] = action[b]
             /\ action'[b].estado = "NONE" => Link(b)' = NoPayroll
             /\ NoAssociate =>
                   \/ action'[b] = action[b]
                   \/ action[b].estado \notin {"APPROVED", "CONSUMED"}
             /\ NoRevive =>
                   IsFinal(b)' \/ Link(b)' = NoPayroll \/ payroll'[Link(b)'].estado # "INACTIVA"
  <2>1. CASE b # a
    <3>1. action'[b] = action[b]
      BY <1>1, <2>1
    <3>2. action[b].estado = "NONE" => Link(b) = NoPayroll
      BY DEF OpenInv, LinkedInv, Unborn
    <3>3. NoRevive => IsFinal(b)' \/ Link(b)' = NoPayroll \/ payroll'[Link(b)'].estado # "INACTIVA"
      BY <3>1, StaysUnheld
    <3> QED
      BY <3>1, <3>2, <3>3 DEF Link
  <2>2. CASE b = a
    <3>1. action'[b] = row
      BY <1>1, <2>2
    <3>2. ASSUME NoRevive PROVE Link(b)' = NoPayroll \/ payroll'[Link(b)'].estado # "INACTIVA"
      <4>1. CASE row.idCalendarioNomina \in Payroll /\ payroll[row.idCalendarioNomina].estado \in InProcess
        BY <3>1, <4>1 DEF InProcess, Link
      <4>2. CASE row.idCalendarioNomina = Link(a)
        <5>1. ~IsFinal(a)
          BY <1>2, <3>2 DEF IsFinal, FinalStates, PendingStates
        <5>2. Link(a) = NoPayroll \/ payroll[Link(a)].estado # "INACTIVA"
          BY <3>2, <5>1 DEF OpenInv, LinkedInv, InactiveHoldsNothing, Link
        <5> QED
          BY <2>2, <3>1, <4>2, <5>2 DEF Link
      <4> QED
        BY <1>2, <3>2, <4>1, <4>2
    <3>3. action[b].estado \notin Lasting
      BY <2>2 DEF Lasting, PendingStates
    <3>4. NoAssociate => action[b].estado \notin {"APPROVED", "CONSUMED"}
      BY <2>2 DEF PendingStates
    <3> QED
      BY <3>1, <3>2, <3>3, <3>4
  <2> QED
    BY <2>1, <2>2
<1> QED
  BY <1>3, <1>4, ActionsOpen

LEMMA ActionLoadOpen ==
    ASSUME IInv, OpenInv, NEW s \in Session, Solo(s), ActionLoad(s)
    PROVE  OpenKept
<1>1. \A a \in Action : action[a] \in ActionRow
  BY DEF IInv, TablesOK
<1>2. ASSUME NEW a \in Action, CreateDraft(s, a) PROVE OpenKept
  <2>1. PICK row : row = [estado |-> "DRAFT", idCalendarioNomina |-> NoPayroll]
    OBVIOUS
  <2>2. /\ action[a].estado = "NONE" /\ action' = [action EXCEPT ![a] = row]
        /\ UNCHANGED <<payroll, inputs, orphans, cronTodo, request>> /\ request[s] = Idle
    BY <1>2, <2>1 DEF CreateDraft, Insert, KeepPayrollTables, Accepts
  <2>3. PICK r : r = Idle
    OBVIOUS
  <2>4. Step(s, r) /\ r.pc \notin Busy \cup {"new", "link"} /\ r.op \in Requests \cup {"none"}
    <3>1. request' = [request EXCEPT ![s] = r]
      BY <2>2, <2>3 DEF IInv, RequestsOK
    <3> QED
      BY <2>3, <3>1 DEF Step, Idle, Busy
  <2>5. row.idCalendarioNomina = Link(a) /\ row.estado # "NONE"
    BY <2>1, <2>2 DEF OpenInv, LinkedInv, Unborn
  <2> QED
    BY <2>2, <2>4, <2>5, OneActionOpen
<1>3. ASSUME NEW a \in Action, NEW p \in Payroll, NEW op \in {"register", "bulk"},
             Accepts(s, op), Load(s, op, p, a, NoRow), Eligible(p)
      PROVE  OpenKept
  BY <1>3, LoadReads DEF Eligible, InProcess, Saves, PayrollOps, SavedByEntity, SavedActionOps
<1>4. ASSUME NEW a \in Action, NEW p \in Payroll, LoadApprove(s, a, p) PROVE OpenKept
  <2>1. PICK ent : ent = action[a]
    OBVIOUS
  <2>2. /\ Accepts(s, "approve") /\ Load(s, "approve", p, a, ent)
        /\ action[a].estado \in PendingStates
    BY <1>4, <2>1 DEF LoadApprove
  <2> QED
    BY <2>2, LoadReads DEF Saves, PayrollOps, SavedByEntity, SavedActionOps
<1>5. ASSUME NEW a \in Action, NEW op \in SavedActionOps, NEW p, NEW ent,
             Accepts(s, op), Load(s, op, p, a, ent),
             \/ action[a].estado \in PendingStates
             \/ op = "associate" /\ action[a].estado = "APPROVED"
             \/ op = "revive" /\ action[a].estado = "INVALIDATED",
             ent.estado # "NONE",
             \/ ent.idCalendarioNomina = Link(a)
             \/ op = "associate" /\ ent.idCalendarioNomina \in Payroll
             \/ /\ op = "edit" /\ ent.idCalendarioNomina \in Payroll
                /\ payroll[ent.idCalendarioNomina].estado \in InProcess
      PROVE  OpenKept
  BY <1>5, LoadReads DEF Saves, PayrollOps, SavedByEntity, SavedActionOps
<1>6. ASSUME NEW a \in Action, NEW op \in SavedActionOps, NEW p, NEW estado,
             Accepts(s, op), Load(s, op, p, a, [action[a] EXCEPT !.estado = estado]),
             \/ action[a].estado \in PendingStates
             \/ op = "revive" /\ action[a].estado = "INVALIDATED",
             estado # "NONE"
      PROVE  OpenKept
  <2>1. PICK ent : ent = [action[a] EXCEPT !.estado = estado]
    OBVIOUS
  <2>2. ent.estado = estado /\ ent.idCalendarioNomina = Link(a)
    BY <1>1, <2>1 DEF ActionRow, Link
  <2> QED
    BY <1>5, <1>6, <2>1, <2>2
<1>7. ASSUME NEW a \in Action, LoadAdvance(s, a) PROVE OpenKept
  <2>1. NextState[action[a].estado] # "NONE"
    BY <1>7 DEF LoadAdvance, PendingStates, NextState
  <2> QED
    BY <1>6, <1>7, <2>1 DEF LoadAdvance, SavedActionOps
<1>8. ASSUME NEW a \in Action, LoadReject(s, a) \/ LoadInvalidate(s, a) \/ LoadRevive(s, a)
      PROVE  OpenKept
  BY <1>6, <1>8 DEF LoadReject, LoadInvalidate, LoadRevive, SavedActionOps
<1>9. ASSUME NEW a \in Action, NEW p \in Payroll, LoadEdit(s, a, p) \/ LoadAssociate(s, a, p)
      PROVE  OpenKept
  <2>1. PICK ent : ent = [action[a] EXCEPT !.idCalendarioNomina = p]
    OBVIOUS
  <2>2. ent.estado = action[a].estado /\ ent.idCalendarioNomina = p
    BY <1>1, <2>1 DEF ActionRow
  <2>3. CASE LoadEdit(s, a, p)
    <3>1. /\ Accepts(s, "edit") /\ Load(s, "edit", p, a, ent)
          /\ action[a].estado \in PendingStates /\ payroll[p].estado \in InProcess
      BY <2>1, <2>3 DEF LoadEdit, Eligible, InProcess
    <3> QED
      BY <1>5, <2>2, <3>1 DEF SavedActionOps, PendingStates
  <2>4. CASE LoadAssociate(s, a, p)
    <3>1. /\ Accepts(s, "associate") /\ Load(s, "associate", p, a, ent)
          /\ action[a].estado \in ApprovedStates
      BY <2>1, <2>4 DEF LoadAssociate
    <3> QED
      BY <1>5, <2>2, <3>1 DEF SavedActionOps, PendingStates, ApprovedStates
  <2> QED
    BY <1>9, <2>3, <2>4
<1>10. ASSUME NEW a \in Action, NEW p \in Payroll,
              LoadRegister(s, a, p) \/ LoadBulk(s, a, p)
       PROVE  OpenKept
  BY <1>3, <1>10 DEF LoadRegister, LoadBulk
<1> QED
  BY <1>2, <1>4, <1>7, <1>8, <1>9, <1>10 DEF ActionLoad

LEMMA ActionStepOpen ==
    ASSUME IInv, OpenInv, NEW s \in Session, Solo(s), ActionStep(s)
    PROVE  OpenKept
<1> DEFINE old == request[s]
<1>1. old \in RequestRow /\ WellFormed(old) /\ Read(old)
  BY SessionIsProcess, InFlight, MovesRead
<1>2. PICK op, p, a, ent : op = old.op /\ p = old.p /\ a = old.a /\ ent = old.ent
  OBVIOUS
<1>3. op \in Requests \cup {"none"}
  BY <1>1, <1>2 DEF Read
<1>4. Idle.pc = "idle" /\ Idle.op = "none"
  BY DEF Idle
<1>5. ASSUME ViewApprove(s) PROVE OpenKept
  <2>1. PICK r : r = [old EXCEPT !.pc = "ready"]
    OBVIOUS
  <2>2. /\ Step(s, r) /\ UNCHANGED <<payroll, action, inputs, orphans, cronTodo>>
        /\ op = "approve" /\ old.pc = "loaded" /\ payroll[p].estado \in InProcess
    BY <1>2, <1>5, <2>1 DEF ViewApprove, At, tables, Eligible, InProcess
  <2>3. r.op = old.op /\ r.pc = "ready" /\ r.p = p /\ r.a = old.a
    BY <1>1, <1>2, <2>1 DEF RequestRow
  <2>4. Read(r)
    BY <1>1, <1>2, <2>2, <2>3
    DEF Read, ReadsPayroll, ReadsOrphans, ReadsAction, Saves, PayrollOps, SavedByEntity,
        SavedActionOps, Busy
  <2> QED
    BY <2>2, <2>4, ReadsOnly
<1>6. ASSUME ViewAction(s) PROVE OpenKept
  <2>1. PICK db : db = action[a]
    OBVIOUS
  <2>2. PICK r : r = [old EXCEPT !.pc = "ready", !.db = db]
    OBVIOUS
  <2>3. /\ Step(s, r) /\ UNCHANGED <<payroll, action, inputs, orphans, cronTodo>>
        /\ op \in SavedActionOps /\ old.pc = "loaded"
    BY <1>2, <1>6, <2>1, <2>2 DEF ViewAction, tables
  <2>4. r.op = old.op /\ r.pc = "ready" /\ r.p = p /\ r.a = old.a /\ r.ent = old.ent /\ r.db = db
    BY <1>1, <1>2, <2>2 DEF RequestRow
  <2>5. ReadsAction(r)
    BY <1>1, <1>2, <2>1, <2>3, <2>4 DEF Read, ReadsAction, SavedActionOps, Busy
  <2>6. Read(r)
    BY <1>1, <1>2, <2>3, <2>4, <2>5
    DEF Read, ReadsPayroll, ReadsOrphans, Saves, PayrollOps, SavedByEntity, SavedActionOps
  <2> QED
    BY <2>3, <2>6, ReadsOnly
<1>7. ASSUME NEW r, NEW estado \in {"PENDING_SUPERVISOR", "APPROVED"}, old.pc = "loaded",
             op \in {"register", "bulk"}, Insert(a, estado, p), Step(s, r),
             r.pc \notin Busy \cup {"new", "link"}, r.op \in Requests \cup {"none"}, UNCHANGED cronTodo
      PROVE  OpenKept
  <2>1. a \in Action /\ p \in Payroll /\ payroll[p].estado \in InProcess
    BY <1>1, <1>2, <1>7 DEF WellFormed, TargetOps, Busy, Read, ReadsAction
  <2>2. PICK row : row = [estado |-> estado, idCalendarioNomina |-> p]
    OBVIOUS
  <2>3. /\ action[a].estado = "NONE" /\ action' = [action EXCEPT ![a] = row]
        /\ UNCHANGED <<payroll, inputs, orphans, cronTodo>>
        /\ row.estado # "NONE" /\ row.idCalendarioNomina = p
    BY <1>7, <2>2 DEF Insert, KeepPayrollTables
  <2> QED
    BY <1>7, <2>1, <2>3, OneActionOpen
<1>8. ASSUME CommitRegister(s) PROVE OpenKept
  <2>1. PICK r : r = Idle
    OBVIOUS
  <2>2. /\ op = "register" /\ old.pc = "loaded" /\ Insert(a, "PENDING_SUPERVISOR", p)
        /\ Step(s, r) /\ UNCHANGED cronTodo
    BY <1>2, <1>8, <2>1 DEF CommitRegister, At
  <2> QED
    BY <1>4, <1>7, <2>1, <2>2 DEF Busy
<1>9. ASSUME CommitBulk(s) PROVE OpenKept
  <2>1. PICK r : r = [old EXCEPT !.pc = "flag"]
    OBVIOUS
  <2>2. /\ op = "bulk" /\ old.pc = "loaded" /\ Insert(a, "APPROVED", p)
        /\ Step(s, r) /\ UNCHANGED cronTodo
    BY <1>2, <1>9, <2>1 DEF CommitBulk, At
  <2>3. r.pc = "flag" /\ r.op = op
    BY <1>1, <1>2, <2>1 DEF RequestRow
  <2> QED
    BY <1>3, <1>7, <2>2, <2>3 DEF Busy
<1>10. ASSUME CommitApprove(s) PROVE OpenKept
  <2>1. PICK r : r = [old EXCEPT !.pc = "mark"]
    OBVIOUS
  <2>2. PICK row : row = [estado |-> "APPROVED", idCalendarioNomina |-> p]
    OBVIOUS
  <2>3. /\ op = "approve" /\ old.pc = "ready" /\ Step(s, r)
        /\ action' = [action EXCEPT ![a] = row]
        /\ UNCHANGED <<payroll, inputs, orphans, cronTodo>>
    BY <1>2, <1>10, <2>1, <2>2 DEF CommitApprove, At, KeepPayrollTables
  <2>4. r.pc = "mark" /\ r.op = op
    BY <1>1, <1>2, <2>1 DEF RequestRow
  <2>5. /\ a \in Action /\ p \in Payroll /\ payroll[p].estado \in InProcess
        /\ action[a].estado \in PendingStates
    BY <1>1, <1>2, <2>3 DEF WellFormed, TargetOps, Busy, Read, ReadsAction
  <2>6. row.estado # "NONE" /\ row.idCalendarioNomina = p
    BY <2>2
  <2> QED
    BY <1>3, <2>3, <2>4, <2>5, <2>6, OneActionOpen DEF Busy
<1>11. ASSUME CommitAction(s) PROVE OpenKept
  <2>1. op \in SavedActionOps /\ old.pc = "ready"
    BY <1>2, <1>11 DEF CommitAction
  <2>2. /\ a \in Action /\ ent \in ActionRow /\ action[a] \in ActionRow /\ ent.estado # "NONE"
        /\ old.db = action[a]
    BY <1>1, <1>2, <2>1 DEF WellFormed, Busy, Read, ReadsAction, IInv, TablesOK
  <2>3. MergeAction(action[a], action[a], ent) = ent
    BY <2>2 DEF MergeAction, Column, ActionRow
  <2>4. /\ action' = [action EXCEPT ![a] = ent]
        /\ UNCHANGED <<payroll, inputs, orphans, cronTodo>>
    BY <1>2, <1>11, <2>2, <2>3 DEF CommitAction, KeepPayrollTables
  <2>5. PICK r : Step(s, r) /\ r.pc \in {"idle", "flag"} /\ r.op \in {"none", op}
    <3>1. PICK r : r = [Idle EXCEPT !.op = op, !.pc = "flag", !.a = a]
      OBVIOUS
    <3>2. r.op = op /\ r.pc = "flag"
      BY <3>1 DEF Idle
    <3>3. Step(s, r) \/ Step(s, Idle)
      BY <1>2, <1>11, <3>1 DEF CommitAction
    <3> QED
      BY <1>4, <3>2, <3>3
  <2>6. /\ \/ action[a].estado \in PendingStates
           \/ ~NoAssociate /\ action[a].estado = "APPROVED"
           \/ ~NoRevive /\ action[a].estado = "INVALIDATED"
        /\ \/ ent.idCalendarioNomina = Link(a)
           \/ /\ ent.idCalendarioNomina \in Payroll
              /\ ~NoAssociate \/ payroll[ent.idCalendarioNomina].estado \in InProcess
    BY <1>1, <1>2, <1>3, <2>1
    DEF Read, ReadsAction, Busy, SavedActionOps, NoAssociate, NoRevive
  <2>7. r.pc \notin Busy \cup {"new", "link"} /\ r.op \in Requests \cup {"none"}
    BY <1>3, <2>5 DEF Busy
  <2> QED
    BY <2>2, <2>4, <2>5, <2>6, <2>7, OneActionOpen
<1>12. ASSUME MarkRevalidation(s) PROVE OpenKept
  <2>1. PICK r : r = [old EXCEPT !.pc = "flag"]
    OBVIOUS
  <2>2. r.pc = "flag" /\ r.op = op
    BY <1>1, <1>2, <2>1 DEF RequestRow
  <2>3. Step(s, r) /\ UNCHANGED <<action, inputs, orphans, cronTodo>>
    BY <1>12, <2>1 DEF MarkRevalidation
  <2>4. \A q \in Payroll : payroll'[q].estado = payroll[q].estado
    <3>1. payroll' = payroll
             \/ payroll' = [payroll EXCEPT ![p] = [payroll[p] EXCEPT !.requiresRecalculation = TRUE]]
      BY <1>2, <1>12 DEF MarkRevalidation
    <3>2. p \in Payroll /\ payroll \in [Payroll -> PayrollRow]
      BY <1>1, <1>2, <1>12 DEF MarkRevalidation, WellFormed, IInv, TablesOK
    <3> QED
      BY <3>1, <3>2 DEF PayrollRow
  <2> QED
    BY <1>3, <2>2, <2>3, <2>4, RowsOpen DEF Busy
<1>13. ASSUME FlagRecalculation(s) PROVE OpenKept
  <2>1. Step(s, Idle) /\ UNCHANGED <<action, inputs, orphans, cronTodo>>
    BY <1>13 DEF FlagRecalculation
  <2>2. \A q \in Payroll : payroll'[q].estado = payroll[q].estado
    BY <1>13 DEF FlagRecalculation, IInv, TablesOK, PayrollRow
  <2>3. PICK r : r = Idle
    OBVIOUS
  <2> QED
    BY <1>4, <2>1, <2>2, <2>3, RowsOpen DEF Busy
<1> QED
  BY <1>5, <1>6, <1>8, <1>9, <1>10, <1>11, <1>12, <1>13 DEF ActionStep
----------------------------------------------------------------------------
(* Every step *)

LEMMA EndsOpen ==
    ASSUME IInv, OpenInv, NEW s \in Session, Solo(s), Step(s, Idle),
           UNCHANGED <<tables, cronTodo>>
    PROVE  OpenKept
<1>1. PICK r : r = Idle
  OBVIOUS
<1>2. Step(s, r) /\ r.pc \notin Busy \cup {"new", "link"} /\ r.op \in Requests \cup {"none"}
  BY <1>1 DEF Idle, Busy
<1> QED
  BY <1>2, RowsOpen DEF tables

LEMMA StillOpen ==
    ASSUME OpenInv, UNCHANGED vars PROVE OpenKept
<1>1. LinkedInv'
  BY DEF OpenInv, LinkedInv, Unborn, InputsLinked, InactiveHoldsNothing, IsFinal, Link, vars
<1>2. ASSUME NEW s \in Session PROVE Read(request[s])'
  <2>1. Read(request[s])
    BY DEF OpenInv
  <2>2. PICK r : r = request[s] /\ r = request'[s]
    BY DEF vars
  <2>3. Read(r)'
    BY <2>1, <2>2 DEF Read, ReadsPayroll, ReadsOrphans, ReadsAction, Attached, Closable, IsFinal,
                      Link, vars
  <2> QED
    BY <2>2, <2>3
<1>3. request'[Cron] = Idle /\ cronTodo' = {}
  BY DEF OpenInv, vars
<1>4. LastingStay /\ LosesNothing
  BY DEF LastingStay, LosesNothing, Link, vars
<1> QED
  BY <1>1, <1>2, <1>3, <1>4 DEF OpenKept, OpenInv

\* Whoever moves is the only one at work.
MoversSolo == \A s \in Session : Serve(s) \/ Reassign(s) \/ Fail(s) => Solo(s)

LEMMA NextOpen ==
    ASSUME IInv, OpenInv, NoJobs, MoversSolo, [Next]_vars
    PROVE  OpenKept
<1>1. ASSUME NEW s \in Session, Serve(s) PROVE OpenKept
  <2>1. Solo(s)
    BY <1>1 DEF MoversSolo
  <2>2. ASSUME PayrollCommit(s) PROVE OpenKept
    BY <2>1, <2>2, CommitCreateOpen, CommitSaveOpen, CommitProcessOpen, CommitApplyOpen,
       CommitInactivateOpen, CommitReactivateOpen DEF PayrollCommit
  <2>3. ASSUME Reject(s) PROVE OpenKept
    BY <2>1, <2>3, EndsOpen DEF Reject
  <2> QED
    BY <1>1, <2>1, <2>2, <2>3, PayrollLoadOpen, PayrollViewOpen, ActionLoadOpen, ActionStepOpen
    DEF Serve
<1>2. ASSUME NEW s \in Session, Reassign(s) \/ Fail(s) PROVE OpenKept
  <2>1. Solo(s)
    BY <1>2 DEF MoversSolo
  <2> QED
    BY <1>2, <2>1, ReassignOpen, EndsOpen DEF Fail
<1>3. ~Reassign(Cron) /\ ~Fail(Cron)
  <2>1. request[Cron].pc = "idle" /\ request[Cron].op = "none"
    BY DEF OpenInv, Idle
  <2> QED
    BY <2>1 DEF Reassign, ViewOrphans, CommitOrphans, SkipOrphans, Fail, HalfDone
<1>4. ~CronTick /\ ~CronNext /\ ~Jobs
  BY DEF NoJobs, CronTick, CronNext, Jobs, Hygiene, EmployeeContextUpdated, OpenInv
<1>5. ASSUME UNCHANGED vars PROVE OpenKept
  BY <1>5, StillOpen
<1> QED
  BY <1>1, <1>2, <1>3, <1>4, <1>5 DEF Next, Processes

LEMMA InitOpen == ASSUME Init PROVE OpenInv
<1>1. \A s \in Session : request[s] = Idle
  BY DEF Init, Processes
<1>2. request[Cron] = Idle /\ cronTodo = {}
  BY DEF Init, Processes
<1>3. Read(Idle)
  BY DEF Read, ReadsPayroll, ReadsOrphans, ReadsAction, Idle, Busy
<1>4. ASSUME NEW s \in Session PROVE Read(request[s])
  <2>1. PICK r : r = request[s] /\ r = Idle
    BY <1>1
  <2> QED
    BY <1>3, <2>1
<1>5. /\ \A a \in Action : action[a].estado = "NONE" /\ Link(a) = NoPayroll
      /\ \A p \in Payroll : payroll[p].estado = "NONE"
  BY DEF Init, Link
<1>6. LinkedInv
  BY <1>5 DEF LinkedInv, Unborn, InputsLinked, InactiveHoldsNothing, Computing, Link
<1> QED
  BY <1>2, <1>4, <1>6 DEF OpenInv

LEMMA AloneSolo == ASSUME Alone PROVE MoversSolo
  BY DEF Alone, MoversSolo, Solo

LEMMA InputsPaidOnce ==
    ASSUME InputsLinked PROVE PaidOnce
  BY DEF InputsLinked, PaidOnce, Computing
----------------------------------------------------------------------------
\* When requests are served one at a time and the jobs are off, no handler touches
\* an action that is consumed, rejected or expired: what the handlers of
\* personal-actions.service.ts, apply, inactivate and the reassignment of orphans
\* write they have read, and their guards skip final actions.
THEOREM FinalStay == Alone /\ NoJobs => (Spec => FinalActionsStay)
<1> SUFFICES ASSUME Alone, NoJobs PROVE Spec => FinalActionsStay
  OBVIOUS
<1>1. Init => OpenInv
  BY InitOpen
<1>2. IInv /\ OpenInv /\ [Next]_vars => OpenInv'
  BY NextOpen, AloneSolo DEF OpenKept
<1>3. IInv /\ OpenInv /\ [Next]_vars =>
         [\A a \in Action : action[a].estado \in {"CONSUMED", "REJECTED", "EXPIRED"} =>
             action'[a] = action[a]]_vars
  BY NextOpen, AloneSolo DEF OpenKept, LastingStay, Lasting
<1> QED
  BY <1>1, <1>2, <1>3, Inductive, PTL DEF Spec, FinalActionsStay

\* In the same setting no action is lost: whoever takes the payroll of an action
\* away leaves an open item for it, and an item closes only with a reason
\* (inactivate, reactivate and reassignOrphanActionsForPayroll).
THEOREM NothingLost == Alone /\ NoJobs => (Spec => NoActionLost)
<1> SUFFICES ASSUME Alone, NoJobs PROVE Spec => NoActionLost
  OBVIOUS
<1>1. Init => OpenInv
  BY InitOpen
<1>2. IInv /\ OpenInv /\ [Next]_vars => OpenInv'
  BY NextOpen, AloneSolo DEF OpenKept
<1>3. IInv /\ OpenInv /\ [Next]_vars =>
         [/\ \A a \in Action :
                LET p == action[a].idCalendarioNomina IN
                p # NoPayroll /\ action'[a].idCalendarioNomina = NoPayroll => <<p, a>> \in orphans'
          /\ \A i \in orphans \ orphans' :
                \/ action'[i[2]].idCalendarioNomina # NoPayroll
                \/ action'[i[2]].estado \in FinalStates
                \/ Period[i[2]] # payroll[i[1]].slot]_vars
  BY NextOpen, AloneSolo DEF OpenKept, LosesNothing, Link
<1> QED
  BY <1>1, <1>2, <1>3, Inductive, PTL DEF Spec, NoActionLost

\* Under the same hypotheses and without associate, an action is in the input snapshots
\* of at most one applied payroll: what process collected stays linked and approved
\* until its payroll is applied, reopened or inactivated.
THEOREM PaidOnceAlone == Alone /\ NoJobs /\ NoAssociate => (Spec => []PaidOnce)
<1> SUFFICES ASSUME Alone, NoJobs, NoAssociate PROVE Spec => []PaidOnce
  OBVIOUS
<1>1. Init => OpenInv
  BY InitOpen
<1>2. IInv /\ OpenInv /\ [Next]_vars => OpenInv'
  BY NextOpen, AloneSolo DEF OpenKept
<1>3. OpenInv => PaidOnce
  BY InputsPaidOnce DEF OpenInv, LinkedInv
<1> QED
  BY <1>1, <1>2, <1>3, Inductive, PTL DEF Spec

\* Without revive either, an inactive payroll keeps no action that could still be paid:
\* inactivate detaches the pending and the approved ones, and register, bulk, edit,
\* approve and the orphans link to payrolls at work only.
THEOREM InactiveHoldsNothingAlone ==
    Alone /\ NoJobs /\ NoRevive => (Spec => []InactiveHoldsNothing)
<1> SUFFICES ASSUME Alone, NoJobs, NoRevive PROVE Spec => []InactiveHoldsNothing
  OBVIOUS
<1>1. Init => OpenInv
  BY InitOpen
<1>2. IInv /\ OpenInv /\ [Next]_vars => OpenInv'
  BY NextOpen, AloneSolo DEF OpenKept
<1>3. OpenInv => InactiveHoldsNothing
  BY DEF OpenInv, LinkedInv
<1> QED
  BY <1>1, <1>2, <1>3, Inductive, PTL DEF Spec
----------------------------------------------------------------------------
(* Two periods, served one request at a time by any number of sessions *)

\* A session at rest can only start a request.
LEMMA Starter ==
    ASSUME NEW s \in Session, request[s] = Idle, Serve(s) \/ Reassign(s) \/ Fail(s),
           "register" \notin Requests
    PROVE  \E r : Step(s, r) /\ r.pc \in {"new", "loaded"}
<1>1. request[s].pc = "idle" /\ request[s].op = "none"
  BY DEF Idle
<1>2. ~PayrollView(s) /\ ~PayrollCommit(s) /\ ~ActionStep(s) /\ ~Reject(s) /\ ~Reassign(s) /\ ~Fail(s)
  BY <1>1
  DEF PayrollView, ViewCreate, ViewUpdate, ViewVerify, ViewReopen, ViewSelection, ViewProcess, ViewApply,
      ViewInactivate, ViewReactivate, PayrollCommit, CommitCreate, CommitSave, CommitProcess,
      CommitApply, CommitInactivate, CommitReactivate, ActionStep, ViewApprove, ViewAction,
      CommitRegister, CommitBulk, CommitApprove, CommitAction, MarkRevalidation,
      FlagRecalculation, Reject, Reassign, ViewOrphans, CommitOrphans, SkipOrphans, Fail,
      HalfDone, At
<1>3. ASSUME NEW op, NEW p, NEW a, NEW ent, Load(s, op, p, a, ent)
      PROVE  \E r : Step(s, r) /\ r.pc \in {"new", "loaded"}
  <2>1. PICK r : r = [Idle EXCEPT !.op = op, !.pc = "loaded", !.p = p, !.a = a, !.ent = ent]
    OBVIOUS
  <2>2. r.pc = "loaded"
    BY <2>1 DEF Idle
  <2>3. Step(s, r)
    BY <1>3, <2>1 DEF Load
  <2> QED
    BY <2>2, <2>3
<1>4. ASSUME NEW p \in Payroll, NEW op, NEW emps, LoadSelection(s, p, op, emps)
      PROVE  \E r : Step(s, r) /\ r.pc \in {"new", "loaded"}
  <2>1. PICK ent : Step(s, [Idle EXCEPT !.op = op, !.pc = "loaded", !.p = p, !.emps = emps, !.ent = ent])
    BY <1>4 DEF LoadSelection
  <2>2. PICK r : r = [Idle EXCEPT !.op = op, !.pc = "loaded", !.p = p, !.emps = emps, !.ent = ent]
    OBVIOUS
  <2>3. r.pc = "loaded"
    BY <2>2 DEF Idle
  <2> QED
    BY <2>1, <2>2, <2>3
<1>7. ASSUME NEW slot, LoadCreate(s, slot)
      PROVE  \E r : Step(s, r) /\ r.pc \in {"new", "loaded"}
  <2>1. PICK ent : Step(s, [Idle EXCEPT !.op = "create", !.pc = "new", !.ent = ent])
    BY <1>7 DEF LoadCreate
  <2>2. PICK r : r = [Idle EXCEPT !.op = "create", !.pc = "new", !.ent = ent]
    OBVIOUS
  <2>3. r.pc = "new"
    BY <2>2 DEF Idle
  <2> QED
    BY <2>1, <2>2, <2>3
<1>5. CASE PayrollLoad(s)
  BY <1>3, <1>4, <1>5, <1>7
  DEF PayrollLoad, LoadVerify, LoadReopen, LoadProcess, LoadApply, LoadInactivate,
      LoadReactivate, LoadUpdate
<1>6. CASE ActionLoad(s)
  BY <1>3, <1>6
  DEF ActionLoad, CreateDraft, Accepts, LoadAdvance, LoadReject, LoadInvalidate, LoadRevive,
      LoadRegister, LoadBulk, LoadApprove, LoadEdit, LoadAssociate
<1> QED
  BY <1>2, <1>5, <1>6 DEF Serve

LEMMA UndisturbedSolo ==
    ASSUME IInv, Undisturbed, Undisturbed', "register" \notin Requests
    PROVE  MoversSolo
<1> SUFFICES ASSUME NEW s \in Session, Serve(s) \/ Reassign(s) \/ Fail(s)
             PROVE  Solo(s)
  BY DEF MoversSolo
<1>1. CASE request[s] # Idle
  BY <1>1 DEF Undisturbed, Solo
<1>2. CASE request[s] = Idle
  <2>1. PICK r : Step(s, r) /\ r.pc \in {"new", "loaded"}
    BY <1>2, Starter
  <2>2. \A t \in Session : request'[t] = IF t = s THEN r ELSE request[t]
    BY <2>1, SessionMoves
  <2>3. r # Idle
    BY <2>1 DEF Idle
  <2>4. ASSUME NEW t \in Session, t # s PROVE request[t] = Idle
    <3>1. request'[s] = r /\ request'[t] = request[t]
      BY <2>2, <2>4
    <3>2. request'[s] # Idle /\ request'[t] # Idle => s = t
      BY DEF Undisturbed, Idle
    <3> QED
      BY <2>3, <2>4, <3>1, <3>2
  <2> QED
    BY <2>4 DEF Solo
<1> QED
  BY <1>1, <1>2

Planned == Requests \subseteq AllPlans

LEMMA PlansAreOpen ==
    ASSUME Planned PROVE NoJobs /\ NoAssociate /\ NoRevive /\ "register" \notin Requests
  BY DEF Planned, AllPlans, SlotRaces, ApplyRaces, TwoPeriods, NoJobs, NoAssociate, NoRevive

LEMMA StaysBothPeriods ==
    ASSUME [RacesNext]_<<vars, plan>> PROVE plan' = BothPeriods <=> plan = BothPeriods
  BY RacesAreNomina DEF BothPeriods

LEMMA PeriodsOpen ==
    ASSUME IsFiniteSet(Session), Planned
    PROVE  RacesSpec => [](plan = BothPeriods => OpenInv)
<1> DEFINE Open == plan = BothPeriods => OpenInv
<1>1. RacesInit => Init /\ PlanInv /\ Open
  BY RacesAreNomina, InitOpen
<1>2. [RacesNext]_<<vars, plan>> => [Next]_vars
  BY RacesAreNomina
<1>3. IInv /\ PlanInv /\ [RacesNext]_<<vars, plan>> => PlanInv'
  BY PlanKept
<1>4. IInv /\ PlanInv /\ Open /\ [RacesNext]_<<vars, plan>> => Open'
  <2> SUFFICES ASSUME IInv, PlanInv, Open, [RacesNext]_<<vars, plan>>, plan' = BothPeriods
               PROVE  OpenInv'
    BY StaysBothPeriods
  <2>1. [Next]_vars /\ plan = BothPeriods
    BY RacesAreNomina, StaysBothPeriods
  <2>2. PlanInv'
    BY <1>3
  <2>3. Undisturbed /\ Undisturbed'
    BY <2>1, <2>2, StaysBothPeriods DEF PlanInv
  <2>4. OpenKept
    BY <2>1, <2>3, PlansAreOpen, UndisturbedSolo, NextOpen
  <2> QED
    BY <2>4 DEF OpenKept
<1> HIDE DEF Open
<1>5. RacesSpec => Spec
  BY <1>1, <1>2, PTL DEF RacesSpec, Spec
<1>6. RacesSpec => []Open
  BY <1>1, <1>3, <1>4, <1>5, Inductive, PTL DEF RacesSpec
<1> QED
  BY <1>6 DEF Open

\* In the instance of two periods, with any number of sessions, payrolls, periods and late
\* actions, an action is paid by one payroll at most.  An inactivation releases it and it is
\* approved again, so that another payroll may collect it; but the collector takes only what
\* its own payroll holds or nobody does, and a payroll that lost its actions must be
\* processed again before it is applied.
THEOREM RacesPayOnce ==
    IsFiniteSet(Session) /\ Planned => (RacesSpec => []PaidAtMostOnce)
<1> SUFFICES ASSUME IsFiniteSet(Session), Planned PROVE RacesSpec => []PaidAtMostOnce
  OBVIOUS
<1>1. (plan = BothPeriods => OpenInv) => PaidAtMostOnce
  BY PlansAreOpen, InputsPaidOnce DEF OpenInv, LinkedInv, PaidAtMostOnce
<1> QED
  BY <1>1, PeriodsOpen, PTL

\* And an inactive payroll keeps no action that could still be paid: inactivate detaches
\* whatever is attached, and every other handler links to payrolls at work.
THEOREM RacesHoldNothing ==
    IsFiniteSet(Session) /\ Planned => (RacesSpec => []InactivesHoldNothing)
<1> SUFFICES ASSUME IsFiniteSet(Session), Planned PROVE RacesSpec => []InactivesHoldNothing
  OBVIOUS
<1>1. (plan = BothPeriods => OpenInv) => InactivesHoldNothing
  BY PlansAreOpen DEF OpenInv, LinkedInv, InactivesHoldNothing
<1> QED
  BY <1>1, PeriodsOpen, PTL
=============================================================================
