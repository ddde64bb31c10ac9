---------------------------- MODULE MCVacations ----------------------------
(***************************************************************************)
(* The instances of Vacations that TLC checks.                             *)
(***************************************************************************)
EXTENDS Vacations, TLC

CONSTANTS e1, c1, c2, n1, n2, a1, a2, t1, t2, v1, v2, s1, s2

EachCompany == [n \in Payroll |-> IF n = n1 THEN c1 ELSE c2]

\* Two runs, with employees that leave and come back.
Provisioning == {v1, v2, s1, "hr"}
\* Two executions of transfers and a run.
Moving == {v1, s1, s2, "transfers"}
\* Payrolls that apply vacations while they move to another company.
Applying == {s1, s2, "transfers", "payrolls"}
\* A deduction and a run.
Deducting == {v1, s1, "payrolls"}

AllMixes == {Provisioning, Moving, Applying, Deducting}
Sequential == {s1, "payrolls"}
OnlySequential == {Sequential}
=============================================================================
