-------------------------- MODULE PayrollLifecycle --------------------------
(***************************************************************************)
(* What the payroll service promises of a payroll, whatever it does with   *)
(* rows, versions and indexes: the state diagram of the entity, one        *)
(* payroll at work per slot, and nothing after APLICADA.                   *)
(***************************************************************************)
CONSTANTS Payroll, Slot

VARIABLES state, slot

vars == <<state, slot>>

Working(q) == state[q] \in {"ABIERTA", "EN_PROCESO", "VERIFICADA"}

Free(k, p) == \A q \in Payroll \ {p} : Working(q) => slot[q] # k

Init == /\ state = [p \in Payroll |-> "NONE"]
        /\ slot \in [Payroll -> Slot]

Go(p, from, to) == /\ state[p] \in from
                   /\ state' = [state EXCEPT ![p] = to]

Create(p, k) == /\ Go(p, {"NONE"}, "ABIERTA")
                /\ Free(k, p)
                /\ slot' = [slot EXCEPT ![p] = k]

Move(p, k) == /\ state[p] = "ABIERTA"
              /\ Free(k, p)
              /\ slot' = [slot EXCEPT ![p] = k]
              /\ UNCHANGED state

Reactivate(p) == Go(p, {"INACTIVA"}, "ABIERTA") /\ Free(slot[p], p) /\ UNCHANGED slot

Process(p) == Go(p, {"ABIERTA", "EN_PROCESO"}, "EN_PROCESO") /\ UNCHANGED slot

Verify(p) == Go(p, {"EN_PROCESO"}, "VERIFICADA") /\ UNCHANGED slot

Reopen(p) == Go(p, {"VERIFICADA"}, "ABIERTA") /\ UNCHANGED slot

Apply(p) == Go(p, {"VERIFICADA"}, "APLICADA") /\ UNCHANGED slot

Inactivate(p) == Go(p, {"ABIERTA", "EN_PROCESO", "VERIFICADA"}, "INACTIVA") /\ UNCHANGED slot

Next ==
    \E p \in Payroll :
        \/ \E k \in Slot : Create(p, k) \/ Move(p, k)
        \/ Reactivate(p) \/ Process(p) \/ Verify(p) \/ Reopen(p) \/ Apply(p) \/ Inactivate(p)

Spec == Init /\ [][Next]_vars
=============================================================================
