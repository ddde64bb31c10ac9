------------------------------ MODULE MCRaces -------------------------------
(***************************************************************************)
(* Three more instances of Nomina: two sessions race for two slots, two    *)
(* race with apply, and two payrolls of two periods share an action that   *)
(* HR releases and approves again while requests are served one at a time. *)
(***************************************************************************)
EXTENDS MCNomina

\* bound: the requests of this behaviour, its sessions, payrolls and slots, and the version
\* after which a payroll of a slot gets no request
VARIABLE plan

SlotRace == [ops |-> SlotRaces, sessions |-> 2, payrolls |-> 2, slots |-> {k1, k2},
             version |-> [k \in Slot |-> 2]]
ApplyRace == [ops |-> ApplyRaces, sessions |-> 2, payrolls |-> 1, slots |-> {k1},
              version |-> [k \in Slot |-> 4]]
BothPeriods == [ops |-> TwoPeriods, sessions |-> 1, payrolls |-> 2, slots |-> {k1, k2},
                version |-> k1 :> 8 @@ k2 :> 4]

AllPlans == SlotRaces \cup ApplyRaces \cup TwoPeriods

Starts(s) == request[s] = Idle /\ request'[s] # Idle

WithinPlan(r) ==
    /\ r.op \in plan.ops
    /\ r.op = "create" => r.ent.slot \in plan.slots
    /\ r.p \in Payroll => payroll[r.p].versionLock <= plan.version[payroll[r.p].slot]

Created == {p \in Payroll : Exists(p)}
Working == {s \in Session : request[s] # Idle}

RacesInit == Init /\ plan \in {SlotRace, ApplyRace, BothPeriods}

RacesNext ==
    /\ Next /\ UNCHANGED plan
    /\ Cardinality(Created') <= plan.payrolls
    /\ Cardinality(Working') <= plan.sessions
    /\ plan = SlotRace => MovesApart'
    /\ \A s \in Session : Starts(s) => WithinPlan(request'[s])

RacesSpec == RacesInit /\ [][RacesNext]_<<vars, plan>>

\* A slot has at most one payroll at work also when two sessions create, move, process,
\* inactivate and reactivate payrolls side by side, stale second saves of create included:
\* what their SELECTs miss the unique index refuses.  (Two stale saves break it, which
\* the plans leave out: one that overlaps an update of the same payroll, MovesApart, and
\* one that overlaps apply, ApplicationNotUndone.)
OneOperationalInRaces == plan # ApplyRace => OneOperationalPerSlot

\* Without associate, which links an action to a payroll of any state, and revive,
\* which leaves it where it was, an inactive payroll keeps no action that could
\* still be paid: nobody would look for it there.
InactivesHoldNothing == plan = BothPeriods => InactiveHoldsNothing

\* Without associate, an action is in the input snapshots of at most one applied
\* payroll: an inactivation releases it with its snapshot kept, it is approved again, into
\* another payroll or into none, which the collector of its period takes, and the first
\* payroll comes back.
PaidAtMostOnce == plan = BothPeriods => PaidOnce
=============================================================================
