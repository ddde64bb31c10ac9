-------------------------- MODULE LifecycleProofs --------------------------
(***************************************************************************)
(* What the life cycle promises, for any number of payrolls and slots.     *)
(***************************************************************************)
EXTENDS PayrollLifecycle, TLAPS

\* A slot has at most one payroll at work.  Nomina implements the life cycle while
\* requests are served one at a time (ImplementsLifecycle), and so has it too.
OneWorkingPerSlot ==
    \A p, q \in Payroll : Working(p) /\ Working(q) /\ slot[p] = slot[q] => p = q

Functions == DOMAIN state = Payroll /\ slot \in [Payroll -> Slot]

\* Steps that put nobody new to work and move nobody keep the slots apart.
LEMMA StayApart ==
    ASSUME OneWorkingPerSlot, UNCHANGED slot,
           \A p \in Payroll : Working(p)' => Working(p)
    PROVE  OneWorkingPerSlot'
BY DEF OneWorkingPerSlot

\* Whoever starts to work, or moves, finds the slot free.
LEMMA EntersFree ==
    ASSUME OneWorkingPerSlot, NEW p \in Payroll, Free(slot'[p], p),
           \A q \in Payroll \ {p} : slot'[q] = slot[q] /\ (Working(q)' => Working(q))
    PROVE  OneWorkingPerSlot'
BY DEF OneWorkingPerSlot, Free

LEMMA Preserved ==
    ASSUME OneWorkingPerSlot, Functions, [Next]_vars
    PROVE  OneWorkingPerSlot' /\ Functions'
<1>1. CASE UNCHANGED vars
  <2>1. UNCHANGED slot /\ \A p \in Payroll : Working(p)' => Working(p)
    BY <1>1 DEF vars, Working
  <2> QED BY <1>1, <2>1, StayApart DEF vars, Functions
<1>2. ASSUME NEW p \in Payroll, NEW k \in Slot, Create(p, k) \/ Move(p, k)
      PROVE  OneWorkingPerSlot' /\ Functions'
  <2>1. Functions' /\ slot'[p] = k
    BY <1>2 DEF Functions, Create, Move, Go
  <2>2. Free(k, p)
    BY <1>2 DEF Create, Move
  <2>3. \A q \in Payroll \ {p} : slot'[q] = slot[q] /\ (Working(q)' => Working(q))
    BY <1>2 DEF Functions, Create, Move, Go, Working
  <2> QED BY <2>1, <2>2, <2>3, EntersFree
<1>3. ASSUME NEW p \in Payroll, Reactivate(p)
      PROVE  OneWorkingPerSlot' /\ Functions'
  <2>1. Functions' /\ slot' = slot /\ Free(slot[p], p)
    BY <1>3 DEF Functions, Reactivate, Go
  <2>2. \A q \in Payroll \ {p} : slot'[q] = slot[q] /\ (Working(q)' => Working(q))
    BY <1>3 DEF Functions, Reactivate, Go, Working
  <2> QED BY <2>1, <2>2, EntersFree
<1>4. ASSUME NEW p \in Payroll,
             Process(p) \/ Verify(p) \/ Reopen(p) \/ Apply(p) \/ Inactivate(p)
      PROVE  OneWorkingPerSlot' /\ Functions'
  <2>1. Functions' /\ UNCHANGED slot
    BY <1>4 DEF Functions, Process, Verify, Reopen, Apply, Inactivate, Go
  <2>2. \A q \in Payroll : Working(q)' => Working(q)
    BY <1>4 DEF Functions, Process, Verify, Reopen, Apply, Inactivate, Go, Working
  <2> QED BY <2>1, <2>2, StayApart
<1> QED BY <1>1, <1>2, <1>3, <1>4 DEF Next

\* The guards of create, update and reactivate are enough: no other step of the
\* diagram can put a second payroll to work in a slot.
THEOREM OneAtWork == Spec => []OneWorkingPerSlot
<1>1. Init => OneWorkingPerSlot /\ Functions
  BY DEF Init, OneWorkingPerSlot, Functions, Working
<1>2. OneWorkingPerSlot /\ Functions /\ [Next]_vars => OneWorkingPerSlot' /\ Functions'
  BY Preserved
<1> QED BY <1>1, <1>2, PTL DEF Spec
=============================================================================
