------------------------------ MODULE HrTables ------------------------------
(***************************************************************************)
(* The tables that the payroll service and the personal-actions service    *)
(* of the API share, and the HTTP requests that are in flight over them.   *)
(*                                                                         *)
(* Both services work the same way: a handler reads an entity with         *)
(* findOne, awaits other queries, and writes the entity back with          *)
(* repository.save or inside a transaction.  Nothing holds the row from    *)
(* the read to the write, so every await is a point where another request  *)
(* runs.  A handler is therefore a sequence of actions; what it carries    *)
(* from one to the next (the entity it read, the sets it computed) is in   *)
(* request[s].                                                             *)
(***************************************************************************)
EXTENDS Naturals, FiniteSets

CONSTANTS
    Payroll,        \* ids of nom_calendarios_nomina
    Slot,           \* company, period, payroll type and currency: the slot key
    Employee,       \* the active employees of the company
    Action,         \* ids of acc_acciones_personal
    Session,        \* HTTP requests that can be in flight at once
    Cron,           \* the scheduler that runs the orphan reassignment
    NoPayroll, NoAction, NoRow,
    Owner,          \* the employee of an action
    Period,         \* the slot whose period holds the action's effect dates
    Late,           \* actions approved after the cutoff of their period
    Unfit,          \* actions whose employee left, or changed company or currency
    SocialCharges,  \* the company has active social charges
    Requests,       \* the endpoints this instance exercises
    MaxVersion,     \* bound: no request starts on a payroll whose version is higher
    MaxFaults       \* bound: half-done handlers that may fail

ASSUME SetsAssumption ==
    /\ Slot # {} /\ Employee # {}
    /\ NoPayroll \notin Payroll /\ NoAction \notin Action
    /\ Cron \notin Session

ASSUME FunctionsAssumption ==
    /\ Owner \in [Action -> Employee]
    /\ Period \in [Action -> Slot]
    /\ Late \subseteq Action /\ Unfit \subseteq Action
    /\ SocialCharges \in BOOLEAN
    /\ MaxVersion \in Nat /\ MaxFaults \in Nat

VARIABLES
    payroll,    \* nom_calendarios_nomina
    action,     \* acc_acciones_personal
    selection,  \* nomina_empleado_verificado: what HR marked for an employee
    inputs,     \* the actions in the input snapshots of a payroll
    results,    \* the employees with a result row of a payroll
    aguinaldo,  \* the provisions written when a payroll is applied
    orphans,    \* the unprocessed reactivation items, as <<payroll, action>>
    request,    \* the requests in flight
    cronTodo,   \* the payrolls the running cron tick has still to visit
    faults      \* half-done handlers that failed so far

tables == <<payroll, action, selection, inputs, results, aguinaldo, orphans>>
vars == <<payroll, action, selection, inputs, results, aguinaldo, orphans,
          request, cronTodo, faults>>
----------------------------------------------------------------------------
(* Rows *)

PayrollState == {"NONE", "ABIERTA", "EN_PROCESO", "VERIFICADA", "APLICADA", "INACTIVA"}

\* slotKey, one column, names a slot; tagged says that it carries the suffix
\* |inactive|id, which no other row can have.
SlotKey == [slot : Slot, tagged : BOOLEAN]

Key(slot) == [slot |-> slot, tagged |-> FALSE]

\* activo is esInactivo = 1; slot stands for the columns of the period, the company,
\* the type and the currency, which the key is built from.
PayrollRow == [estado : PayrollState, versionLock : Nat, requiresRecalculation : BOOLEAN,
               activo : BOOLEAN, slot : Slot, slotKey : SlotKey, isActiveSlot : BOOLEAN]

ActionState == {"NONE", "DRAFT", "PENDING_SUPERVISOR", "PENDING_RRHH", "APPROVED",
                "CONSUMED", "INVALIDATED", "EXPIRED", "REJECTED"}

ActionRow == [estado : ActionState, idCalendarioNomina : Payroll \cup {NoPayroll}]

\* An employee of a payroll is unmarked, marked (included and verified), or
\* marked and pending revalidation.
Mark == {"out", "in", "reval"}

Processes == Session \cup {Cron}

Operations == {"none", "create", "update", "process", "verify", "include", "exclude",
               "apply", "reopen", "inactivate", "reactivate", "cron",
               "register", "bulk", "approve", "advance", "edit", "associate",
               "reject", "invalidate", "revive"}

RequestRow == [op     : Operations,
               pc     : {"idle", "new", "loaded", "ready", "orphans", "link", "mark", "flag"},
               p      : Payroll \cup {NoPayroll},
               a      : Action \cup {NoAction},
               ent    : PayrollRow \cup ActionRow \cup {NoRow},  \* the entity in memory
               db     : PayrollRow \cup ActionRow \cup {NoRow},  \* the row save() compares it with
               acts   : SUBSET Action,
               fresh  : SUBSET Action,
               emps   : SUBSET Employee,
               items  : SUBSET (Payroll \X Action)]

Idle == [op |-> "none", pc |-> "idle", p |-> NoPayroll, a |-> NoAction,
         ent |-> NoRow, db |-> NoRow, acts |-> {}, fresh |-> {}, emps |-> {}, items |-> {}]
----------------------------------------------------------------------------
(* What the handlers share *)

PendingStates == {"DRAFT", "PENDING_SUPERVISOR", "PENDING_RRHH"}

\* PERSONAL_ACTION_APPROVED_STATES: the legacy code of "approved" is the
\* number that now means PENDING_SUPERVISOR.
ApprovedStates == {"APPROVED", "PENDING_SUPERVISOR"}

FinalStates == {"CONSUMED", "INVALIDATED", "EXPIRED", "REJECTED"}

Operational == {"ABIERTA", "EN_PROCESO", "VERIFICADA"}

Exists(p) == payroll[p].estado # "NONE"

\* repository.save re-reads the row and writes the columns in which the entity
\* differs from what it re-read: the others keep what the table holds when the
\* UPDATE runs.
Column(row, db, ent) == IF ent = db THEN row ELSE ent

MergePayroll(row, db, ent) ==
    [estado       |-> Column(row.estado, db.estado, ent.estado),
     versionLock  |-> Column(row.versionLock, db.versionLock, ent.versionLock),
     requiresRecalculation |->
        Column(row.requiresRecalculation, db.requiresRecalculation, ent.requiresRecalculation),
     activo       |-> Column(row.activo, db.activo, ent.activo),
     slot         |-> Column(row.slot, db.slot, ent.slot),
     slotKey      |-> Column(row.slotKey, db.slotKey, ent.slotKey),
     isActiveSlot |-> Column(row.isActiveSlot, db.isActiveSlot, ent.isActiveSlot)]

MergeAction(row, db, ent) ==
    [estado |-> Column(row.estado, db.estado, ent.estado),
     idCalendarioNomina |->
        Column(row.idCalendarioNomina, db.idCalendarioNomina, ent.idCalendarioNomina)]

\* The unique index on (slot key, is_active_slot).
SameKey(x, y) ==
    /\ x.slotKey = y.slotKey /\ ~x.slotKey.tagged
    /\ x.isActiveSlot = y.isActiveSlot

\* Mutant: there is no unique index.
NoIndex(p, row) == TRUE

IndexAllows(p, row) ==
    \A q \in Payroll \ {p} : Exists(q) => ~SameKey(payroll[q], row)

\* The SELECT by which create, update and reactivate look for a duplicate.
SlotTaken(p, slot) ==
    \E q \in Payroll \ {p} : /\ Exists(q) /\ payroll[q].isActiveSlot
                             /\ payroll[q].slotKey = Key(slot)

\* What auto-invalidation does to the approved, unlinked actions of unfit employees.
Invalidable(a) == /\ a \in Unfit
                  /\ action[a].estado = "APPROVED"
                  /\ action[a].idCalendarioNomina = NoPayroll

Step(s, r) == request' = [request EXCEPT ![s] = r]

Accepts(s, op) == s \in Session /\ op \in Requests /\ request[s] = Idle

\* The first query of a handler: it keeps the entity, as it will be saved.
Load(s, op, p, a, ent) ==
    /\ Step(s, [Idle EXCEPT !.op = op, !.pc = "loaded", !.p = p, !.a = a, !.ent = ent])
    /\ UNCHANGED <<tables, cronTodo, faults>>

At(s, op, pc) == request[s].op = op /\ request[s].pc = pc

Init ==
    /\ payroll = [p \in Payroll |->
          [estado |-> "NONE", versionLock |-> 0, requiresRecalculation |-> FALSE,
           activo |-> FALSE, slot |-> CHOOSE x \in Slot : TRUE,
           slotKey |-> Key(CHOOSE x \in Slot : TRUE), isActiveSlot |-> FALSE]]
    /\ action = [a \in Action |-> [estado |-> "NONE", idCalendarioNomina |-> NoPayroll]]
    /\ selection = [p \in Payroll |-> [e \in Employee |-> "out"]]
    /\ inputs = [p \in Payroll |-> {}]
    /\ results = [p \in Payroll |-> {}]
    /\ aguinaldo = {}
    /\ orphans = {}
    /\ request = [s \in Processes |-> Idle]
    /\ cronTodo = {}
    /\ faults = 0
=============================================================================
