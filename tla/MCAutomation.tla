---------------------------- MODULE MCAutomation ----------------------------
(***************************************************************************)
(* The instances of AutomationQueue that TLC checks.                       *)
(***************************************************************************)
EXTENDS AutomationQueue, TLC

CONSTANTS m1, m2, u1, u2, w1, w2, h1

OneAddress == [e \in Employee |-> m1]
Strangers == {<<1, 2>>, <<2, 1>>}

Mix(actors, kinds, employees, limit) ==
    [actors |-> actors, kinds |-> kinds, employees |-> employees, faults |-> limit]

AllMixes == {
    \* Two processes provision two employees with one address, and one employee with a fault.
    Mix({w1, w2}, {"identity"}, {1, 2}, 0),
    Mix({w1, w2}, {"identity"}, {1}, 1),
    \* They encrypt an employee, and do both.
    Mix({w1, w2}, {"encrypt"}, {1}, 1),
    Mix({w1, w2}, {"identity", "encrypt"}, {1}, 0),
    \* HR changes the employees in between.
    Mix({w1, h1}, {"identity"}, {1, 2}, 1),
    Mix({w1, h1}, {"identity", "encrypt"}, {1}, 1),
    Mix({w1, h1}, {"encrypt"}, {1}, 1),
    \* The application comes and goes.
    Mix({w1, "config"}, {"identity"}, {1, 2}, 1) }

WithHR == {Mix({w1, h1}, {"encrypt"}, {1}, 0)}
=============================================================================
