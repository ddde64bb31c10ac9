------------------------------ MODULE MCNomina ------------------------------
(***************************************************************************)
(* The instances of Nomina that TLC checks.                                *)
(***************************************************************************)
EXTENDS NominaClaims, TLC

CONSTANTS p1, p2, a1, a2, e1, e2, k1, k2, s1, s2

OwnerE1 == [a \in Action |-> e1]
PeriodK1 == [a \in Action |-> k1]

PayrollSymmetry == Permutations(Payroll)
SessionSymmetry == Permutations(Session)
Symmetry == PayrollSymmetry \cup SessionSymmetry

LifeCycle == {"create", "process", "verify", "apply", "reopen", "include", "exclude",
              "inactivate", "reactivate"}

ActionForms == {"register", "bulk", "approve", "advance", "edit", "reject", "invalidate", "revive"}

OneAtATime == LifeCycle \cup ActionForms \cup {"update", "associate"}

TwoPeriods == {"create", "include", "process", "verify", "apply", "inactivate", "reactivate",
               "bulk", "approve", "advance"}

SlotRaces == {"create", "update", "process", "inactivate", "reactivate"}

ApplyRaces == {"create", "include", "exclude", "process", "verify", "apply", "reopen", "inactivate"}

WithCron == {"create", "inactivate", "reactivate", "process", "bulk", "associate", "advance",
             "cron", "hygiene"}

\* The requests of the instances that refute a claim: ApplicationNotUndone,
\* HistoryDoesNotBlock, PendingNotConsumed, PaidOnce, SelectionRespected with a
\* fault, VerifiedEmployeesLocked.
ReopenRace == {"create", "include", "process", "verify", "apply", "reopen"}

TwoInARow == {"create", "include", "process", "verify", "apply"}

LateAdvance == {"create", "include", "process", "verify", "apply", "register", "advance"}

LateAssociate == {"create", "include", "process", "verify", "apply", "bulk", "associate"}

Excluded == {"create", "include", "exclude", "process", "verify", "apply", "bulk"}

AdvanceAfterMark == {"create", "include", "register", "advance"}
=============================================================================
