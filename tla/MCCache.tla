------------------------------ MODULE MCCache ------------------------------
(***************************************************************************)
(* The instances of ResponseCache that TLC checks.                         *)
(***************************************************************************)
EXTENDS ResponseCache, TLC

CONSTANTS c1, p1, p2, q1, q2, m1, m2, m3, t1, t2, t3

HomeOfTick == [t \in Tick |-> IF t = t3 THEN p2 ELSE p1]
OneCompany == [m \in Mutation |-> c1]
\* The first two are of one aggregate and one millisecond.
SameInstant == [m \in Mutation |-> IF m = m3 THEN 2 ELSE 1]

Still == [mutations |-> {}, named |-> {TRUE}, readers |-> {}, asked |-> {}, processes |-> {p1},
          ticks |-> {}, redis |-> TRUE, warm |-> TRUE, faults |-> 0]

\* The worker: one or two processes, ticks that overlap when a process starts.
Copying(m, t, limit) == [Still EXCEPT !.mutations = m, !.named = {FALSE}, !.ticks = t, !.faults = limit,
                                      !.processes = {p1, p2}]

\* The lists.
Reading(m, r, p, limit) == [Still EXCEPT !.mutations = m, !.named = BOOLEAN, !.readers = {q1, q2},
                                         !.asked = r, !.processes = p, !.faults = limit]

AllMixes == {
    Copying({m1, m2}, {t1, t3}, 0),
    Copying({m1, m3}, {t1, t3}, 1),
    Copying({m1}, {t1, t2}, 1),
    [Reading({m1, m3}, {c1}, {p1}, 0) EXCEPT !.readers = {q1}],
    Reading({m1}, {c1, Global}, {p1}, 0),
    Reading({m1}, {c1}, {p1, p2}, 0),
    Reading({m1}, {c1}, {p1}, 1),
    [Reading({m1}, {c1}, {p1}, 0) EXCEPT !.warm = FALSE],
    [Reading({m1}, {c1}, {p1}, 1) EXCEPT !.redis = FALSE],
    [Reading({m1}, {Trail}, {p1}, 0) EXCEPT !.ticks = {t1}] }
=============================================================================
