---------------------------- MODULE NominaClaims ----------------------------
(***************************************************************************)
(* What the manual, the design notes and the comments of the code say of   *)
(* the payroll system and its code does not do.  claim_applied_immutable   *)
(* refutes ApplicationNotUndone; the README names the instances of         *)
(* MCNomina that refute the others.                                        *)
(***************************************************************************)
EXTENDS Nomina

\* "Implementar slot_key + is_active para unicidad operativa sin bloquear
\* historicos": the index lets a verified payroll be applied, whatever payrolls
\* of its slot were applied before.
HistoryDoesNotBlock ==
    \A p \in Payroll : payroll[p].estado = "VERIFICADA" => IndexAllows(p, Applied(payroll[p]))

Becomes(a, estado) == action[a].estado # estado /\ action'[a].estado = estado

\* "Aplicada = inmutable. Verificada puede reabrirse a Abierta."
ApplicationNotUndone ==
    [][\A p \in Payroll : payroll[p].estado = "APLICADA" => payroll'[p].estado = "APLICADA"]_vars

\* "Las acciones Pendiente Supervisor o Pendiente RRHH no se consumen."
PendingNotConsumed ==
    [][\A a \in Action : Becomes(a, "CONSUMED") => action[a].estado \notin PendingStates]_vars

\* "Si un empleado esta marcado/verificado, no se permite crear ni aprobar
\* nuevas acciones de personal en esa planilla."
VerifiedEmployeesLocked ==
    [][\A p \in Payroll, a \in Action :
          Becomes(a, "APPROVED") /\ action'[a].idCalendarioNomina = p
          => selection[p][Owner[a]] # "in"]_vars
=============================================================================
