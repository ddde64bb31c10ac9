------------------------------ MODULE MCAccess ------------------------------
(***************************************************************************)
(* The instances of RefreshSessions (and of UsersService) that TLC checks. *)
(***************************************************************************)
EXTENDS RefreshSessions, TLC

CONSTANTS u1, u2, u3, h1, h2, b1, b2, k1, k2

Nothing == [clerks |-> {}, ops |-> {}, users |-> {}, passwords |-> {}, browsers |-> {}, calls |-> {},
            slow |-> FALSE, ages |-> FALSE, faults |-> 0]

\* Administrators change each other's accounts.
Office(c, o, u) == [Nothing EXCEPT !.clerks = c, !.ops = o, !.users = u]

\* Users sign in, with the right password or a wrong one.
Door(b, u, p) == [Nothing EXCEPT !.browsers = b, !.users = u, !.passwords = p]

\* A page makes calls while its access token expires, and its session.
Page(k, s, limit) ==
    [Door({b1}, {u1}, {"right"}) EXCEPT !.calls = k, !.slow = s, !.ages = TRUE, !.faults = limit]

AllMixes == {
    Office({h1}, Ops, {u1, u2, u3}),
    Office({h1, h2}, Restricts \cup {"reactivate", "update"}, {u1, u2}),
    Door({b1, b2}, {u1}, {"right", "wrong"}),
    [Door({b1}, {u1}, {"wrong", "right"}) EXCEPT !.clerks = {h1},
                                                 !.ops = {"block", "reactivate", "update"}],
    Page({k1}, FALSE, 1),
    [Page({k1, k2}, FALSE, 1) EXCEPT !.ages = FALSE],
    Page({k1, k2}, TRUE, 0) }

OnePage == {Page({k1}, FALSE, 0)}
=============================================================================
