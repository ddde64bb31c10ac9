------------------------------ MODULE MCAuthz ------------------------------
(***************************************************************************)
(* The instances of PermissionsClient that TLC checks.                     *)
(***************************************************************************)
EXTENDS PermissionsClient, TLC

CONSTANTS c1, c2, p1, p2, a1, a2

\* The guard at work.
Guard(admins, parts, processes, absent, asked, limit, failures) ==
    [admins |-> admins, parts |-> parts, processes |-> processes, missing |-> absent,
     guarded |-> {"g1"}, asked |-> asked, browser |-> FALSE, polls |-> FALSE,
     changes |-> limit, faults |-> failures, switches |-> 0]

\* The browser at work.
Browsing(parts, limit, failures, polling, turns) ==
    [admins |-> {a1}, parts |-> parts, processes |-> {p1, p2}, missing |-> FALSE,
     guarded |-> {}, asked |-> {}, browser |-> TRUE, polls |-> polling,
     changes |-> limit, faults |-> failures, switches |-> turns]

AllMixes == {
    \* Two processes; two administrators; every part; answers for all companies.
    Guard({a1}, {"role"}, {p1, p2}, FALSE, {c1}, 1, 0),
    Guard({a1, a2}, {"company", "role"}, {p1}, TRUE, {c1}, 2, 0),
    Guard({a1}, Part, {p1}, FALSE, {c1}, 1, 0),
    Guard({a1}, {"company"}, {p1}, FALSE, {c1, All}, 1, 0),
    \* Queries of exceptions and denials that fail.
    Guard({a1}, {"override", "denied"}, {p1}, FALSE, {c1}, 1, 1),
    Guard({a1}, {"denied"}, {p1}, FALSE, {c1, All}, 0, 1),
    \* Events, polls and faults; switches between companies.
    Browsing({"role"}, 1, 1, TRUE, 0),
    Browsing({"company"}, 0, 0, FALSE, 2) }
=============================================================================
