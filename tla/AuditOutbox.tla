----------------------------- MODULE AuditOutbox -----------------------------
(***************************************************************************)
(* audit-outbox.service.ts, domain-events.service.ts and                   *)
(* audit-worker.service.ts: a mutation publishes what it did without       *)
(* waiting, the event becomes a row of sys_domain_events, and the worker   *)
(* of every API process copies the pending rows to                         *)
(* sys_auditoria_acciones.                                                 *)
(*                                                                         *)
(* A batch holds all pending rows (100 in the code), in any order.         *)
(***************************************************************************)
EXTENDS Naturals, FiniteSets

CONSTANTS
    Mutation,   \* requests that change something; each publishes one event
    KeyOf,      \* the idempotency key: event name, aggregate and millisecond
    Malformed,  \* mutations that publish without one of the mandatory texts
    Process,    \* API processes
    Tick,       \* ticks of the workers that may be under way
    ProcessOf,  \* the process of a tick
    NoMutation,
    Mixes       \* bound: what is at work together and how many faults

ASSUME OutboxAssumption ==
    /\ ProcessOf \in [Tick -> Process]
    /\ NoMutation \notin Mutation
    /\ Malformed \subseteq Mutation
    /\ \A x \in Mixes : x.ticks \subseteq Tick /\ IsFiniteSet(x.ticks)

VARIABLES
    event,   \* sys_domain_events: the status of each mutation's row
    audited, \* sys_auditoria_acciones: the number of rows of each mutation
    schema,  \* schemaReady of each process: ready, missing, or not yet known
    running, \* the flag of each process
    tick,
    faults, mix

outboxVars == <<event, audited, schema, running, tick>>
----------------------------------------------------------------------------
IdleTick == [pc |-> "idle", todo |-> {}, e |-> NoMutation]

SetTick(t, r) == tick' = [tick EXCEPT ![t] = r]

OutboxInit ==
    /\ event = [m \in Mutation |-> "none"]
    /\ audited = [m \in Mutation |-> 0]
    /\ schema = [p \in Process |-> "unknown"]
    /\ running = [p \in Process |-> FALSE]
    /\ tick = [t \in Tick |-> IdleTick]
----------------------------------------------------------------------------
(* Publishing: nobody waits for the row, and nobody learns that it failed. *)

Stored == {"pending", "processed", "failed"}

KeyTaken(m) == \E n \in Mutation \ {m} : KeyOf[n] = KeyOf[m] /\ event[n] \in Stored

RecordEvent(m) ==
    /\ event[m] = "sent"
    /\ event' = [event EXCEPT ![m] = IF KeyTaken(m) THEN "lost" ELSE "pending"]
    /\ UNCHANGED <<audited, schema, running, tick, faults>>

RecordFails(m) ==
    /\ event[m] = "sent" /\ faults < mix.faults
    /\ event' = [event EXCEPT ![m] = "lost"]
    /\ faults' = faults + 1
    /\ UNCHANGED <<audited, schema, running, tick>>
----------------------------------------------------------------------------
(* The worker of a process: every three seconds a tick. *)

\* running is looked at before the schema is, and set after it.
StartTick(t) ==
    LET p == ProcessOf[t] IN
    /\ tick[t].pc = "idle" /\ ~running[p]
    /\ \/ /\ schema[p] = "unknown"
          /\ SetTick(t, [IdleTick EXCEPT !.pc = "schema"]) /\ UNCHANGED running
       \/ /\ schema[p] = "ready"
          /\ SetTick(t, [IdleTick EXCEPT !.pc = "find"])
          /\ running' = [running EXCEPT ![p] = TRUE]
    /\ UNCHANGED <<event, audited, schema, faults>>

SchemaReady(t) ==
    LET p == ProcessOf[t] IN
    /\ tick[t].pc = "schema"
    /\ schema' = [schema EXCEPT ![p] = "ready"]
    /\ running' = [running EXCEPT ![p] = TRUE]
    /\ SetTick(t, [IdleTick EXCEPT !.pc = "find"])
    /\ UNCHANGED <<event, audited, faults>>

\* The answer of the first question is kept, also when it was an error.
SchemaFails(t) ==
    /\ tick[t].pc = "schema" /\ faults < mix.faults
    /\ schema' = [schema EXCEPT ![ProcessOf[t]] = "missing"]
    /\ SetTick(t, IdleTick)
    /\ faults' = faults + 1
    /\ UNCHANGED <<event, audited, running>>

\* Mutant: the query forgets the status.
FoundAny(m) == event[m] \in Stored

Found(m) == event[m] = "pending"

FindPending(t) ==
    /\ tick[t].pc = "find"
    /\ SetTick(t, [IdleTick EXCEPT !.pc = "next", !.todo = {m \in Mutation : Found(m)}])
    /\ UNCHANGED <<event, audited, schema, running, faults>>

NextRow(t) ==
    /\ tick[t].pc = "next"
    /\ \E m \in tick[t].todo :
          SetTick(t, [pc |-> IF m \in Malformed THEN "fail" ELSE "copy",
                      todo |-> tick[t].todo \ {m}, e |-> m])
    /\ UNCHANGED <<event, audited, schema, running, faults>>

\* Mutant: only the catch ends the run.
StillRunning(t) == running

\* finally: however the tick ends, the next one may start.
AfterTick(t) == [running EXCEPT ![ProcessOf[t]] = FALSE]

EndTick(t) ==
    /\ tick[t].pc = "next" /\ tick[t].todo = {}
    /\ SetTick(t, IdleTick)
    /\ running' = AfterTick(t)
    /\ UNCHANGED <<event, audited, schema, faults>>

CopyRow(t) ==
    /\ tick[t].pc = "copy"
    /\ audited' = [audited EXCEPT ![tick[t].e] = @ + 1]
    /\ SetTick(t, [tick[t] EXCEPT !.pc = "mark"])
    /\ UNCHANGED <<event, schema, running, faults>>

\* save() of a row that was read as pending writes its status over any other.
SaveStatus(t, pc, status) ==
    /\ tick[t].pc = pc
    /\ event' = [event EXCEPT ![tick[t].e] = status]
    /\ SetTick(t, [tick[t] EXCEPT !.pc = "next", !.e = NoMutation])
    /\ UNCHANGED <<audited, schema, running, faults>>

MarkRow(t) == SaveStatus(t, "mark", "processed") \/ SaveStatus(t, "fail", "failed")

\* Mutant: the error is swallowed and the row goes on.
SwallowError == "mark"

OnError == "fail"

\* A query fails: the row fails, or, when it is the save of that or the SELECT, the tick.
TickFails(t) ==
    /\ faults < mix.faults
    /\ faults' = faults + 1
    /\ \/ /\ tick[t].pc \in {"copy", "mark"}
          /\ SetTick(t, [tick[t] EXCEPT !.pc = OnError]) /\ UNCHANGED running
       \/ /\ tick[t].pc \in {"find", "fail"}
          /\ SetTick(t, IdleTick)
          /\ running' = AfterTick(t)
    /\ UNCHANGED <<event, audited, schema>>

TickStep(t) ==
    \/ StartTick(t) \/ SchemaReady(t) \/ FindPending(t) \/ NextRow(t) \/ CopyRow(t) \/ MarkRow(t)
    \/ EndTick(t)

TickFault(t) == SchemaFails(t) \/ TickFails(t)

OutboxStep ==
    \/ \E m \in Mutation : RecordEvent(m) \/ RecordFails(m)
    \/ \E t \in mix.ticks : TickStep(t) \/ TickFault(t)
----------------------------------------------------------------------------
EventState == {"none", "sent", "lost"} \cup Stored

TickState == [pc : {"idle", "schema", "find", "next", "copy", "mark", "fail"},
              todo : SUBSET Mutation, e : Mutation \cup {NoMutation}]

\* Type correctness: a row has one of the four states, and a tick works on rows that
\* exist, in whatever order ticks, failures and restarts come.
OutboxTypeOK ==
    /\ event \in [Mutation -> EventState]
    /\ audited \in [Mutation -> Nat]
    /\ schema \in [Process -> {"unknown", "ready", "missing"}]
    /\ running \in [Process -> BOOLEAN]
    /\ tick \in [Tick -> TickState]

\* A row that says processed was copied, whatever workers overlap, fail, die or write
\* their old rows over each other.
ProcessedIsCopied == \A m \in Mutation : event[m] = "processed" => audited[m] > 0

\* A mutation is not copied over and over: once by each tick that had it in its batch
\* before its row was marked, and once more by each after a fault.
CopiesBounded == \A m \in Mutation : audited[m] <= Cardinality(mix.ticks) * (1 + faults)

Deaf(p) == schema[p] = "missing" \/ \A t \in mix.ticks : ProcessOf[t] # p

\* An event that became a row is copied or failed, as long as one process that works
\* the rows off has not taken a failed question for a missing table.
PendingEnds ==
    \A m \in Mutation : event[m] = "pending" ~> event[m] # "pending" \/ \A p \in Process : Deaf(p)
=============================================================================
