---------------------------- MODULE ResponseCache ----------------------------
(***************************************************************************)
(* cache-response.interceptor.ts and app-cache.service.ts: the answers of  *)
(* GET requests are kept for five minutes under a key that holds the       *)
(* version of their scope and company; a mutation increments the versions  *)
(* after its answer.  The versions and the entries are in Redis or,        *)
(* without it, in the memory of the process.                               *)
(*                                                                         *)
(* One scope is followed, with three kinds of answers: the list of a       *)
(* company, the list of all companies, and the audit trail, which          *)
(* AuditOutbox fills.  The lock of an entry keeps nobody out: who does not *)
(* get it waits 200 ms at most, looks once more and loads.                 *)
(***************************************************************************)
EXTENDS AuditOutbox

CONSTANTS
    Company,
    Global,     \* the company key of requests that name no company
    Trail,
    Redis,
    Reader,     \* GET requests in flight
    CompanyOf,  \* the company that a mutation changes
    NoProcess

Key == Company \cup {Global}
Resource == Key \cup {Trail}
Store == Process \cup {Redis}

ASSUME CacheAssumption ==
    /\ CompanyOf \in [Mutation -> Company]
    /\ Global \notin Company /\ Trail \notin Key
    /\ Redis \notin Process /\ NoProcess \notin Process
    /\ \A x \in Mixes : /\ x.processes \subseteq Process /\ x.readers \subseteq Reader
                        /\ x.asked \subseteq Resource /\ x.mutations \subseteq Mutation

VARIABLES
    version,  \* the versions of the scope, 0 when missing: Redis, and versionStore of each process
    entries,  \* the cached answers
    breaker,  \* the processes whose circuit breaker is open
    reader,
    writer    \* the mutations: their process, the keys they still invalidate, those they did

cacheVars == <<version, entries, breaker, reader, writer>>
vars == <<outboxVars, cacheVars, faults, mix>>
----------------------------------------------------------------------------
\* resolveCompanyKey: the trail is asked for by the id of its subject.
KeyFor(r) == IF r = Trail THEN Global ELSE r

Home(p) == IF mix.redis THEN Redis ELSE p

IdleReader == [pc |-> "idle", p |-> NoProcess, r |-> Global, v |-> 0, value |-> {}, floor |-> {}]
IdleWriter == [p |-> NoProcess, todo |-> {}, done |-> {}]

SetReader(q, rec) == reader' = [reader EXCEPT ![q] = rec]
ReaderAt(q, pc) == SetReader(q, [reader[q] EXCEPT !.pc = pc])
SetVersion(s, k, v) == version' = [version EXCEPT ![s][k] = v]

Committed == {m \in Mutation : writer[m].p # NoProcess}

\* What the tables say.
Current(r) == IF r = Trail THEN {m \in Mutation : audited[m] > 0}
              ELSE {m \in Committed : r = Global \/ CompanyOf[m] = r}

\* The mutations of a list that have invalidated it.
Settled(r) == {m \in Current(r) : r # Trail /\ r \in writer[m].done}

Entry(r, v, value) == [r |-> r, v |-> v, value |-> value]

\* Mutant: the version is not part of the key.
MatchesAnyVersion(e, r, v) == e.r = r

Matches(e, r, v) == e.r = r /\ e.v = v

Hits(s, r, v) == {e \in entries[s] : Matches(e, r, v)}

CacheInit ==
    /\ version = [s \in Store |-> [k \in Key |-> IF s = Redis /\ mix.warm THEN 1 ELSE 0]]
    /\ entries = [s \in Store |-> {}]
    /\ breaker = {}
    /\ reader = [q \in Reader |-> IdleReader]
    /\ writer = [m \in Mutation |-> IdleWriter]
----------------------------------------------------------------------------
(* A GET request: getOrSet *)

Get(q, p, r) ==
    /\ reader[q].pc = "idle"
    /\ SetReader(q, [IdleReader EXCEPT !.pc = "version", !.p = p, !.r = r, !.floor = Settled(r)])
    /\ UNCHANGED <<version, entries, breaker, writer>>

\* Mutant: a missing version is taken as it is.
LocalAsIs(p, k) == version[p][k]

\* getScopeVersion in memory is one step.
LocalVersion(p, k) == IF version[p][k] = 0 THEN 1 ELSE version[p][k]

UseLocalVersion(q) ==
    LET p == reader[q].p  k == KeyFor(reader[q].r) IN
    /\ SetReader(q, [reader[q] EXCEPT !.pc = "get", !.v = LocalVersion(p, k)])
    /\ SetVersion(p, k, LocalVersion(p, k))

ReadVersion(q) ==
    LET v == version[Redis][KeyFor(reader[q].r)] IN
    /\ reader[q].pc = "version"
    /\ IF ~mix.redis THEN UseLocalVersion(q)
       ELSE /\ SetReader(q, [reader[q] EXCEPT !.pc = IF v = 0 THEN "init" ELSE "get", !.v = v])
            /\ UNCHANGED version
    /\ UNCHANGED <<entries, breaker, writer>>

\* SET without NX, whatever the version became since it was read.
InitVersion(q) ==
    /\ reader[q].pc = "init"
    /\ SetVersion(Redis, KeyFor(reader[q].r), 1)
    /\ SetReader(q, [reader[q] EXCEPT !.pc = "get", !.v = 1])
    /\ UNCHANGED <<entries, breaker, writer>>

Open(q) == reader[q].p \in breaker

\* The answer is the entry, or else the reader goes on.
AnswerOr(q, pc) ==
    LET r == reader[q]  found == Hits(Home(r.p), r.r, r.v) IN
    IF ~Open(q) /\ found # {}
    THEN \E e \in found : SetReader(q, [r EXCEPT !.pc = "answer", !.value = e.value])
    ELSE ReaderAt(q, pc)

\* With Redis another reader may hold the lock.
ReadEntry(q) ==
    /\ reader[q].pc = "get"
    /\ \E next \in IF Open(q) THEN {"bypass"} ELSE IF mix.redis THEN {"load", "again"} ELSE {"load"} :
          AnswerOr(q, next)
    /\ UNCHANGED <<version, entries, breaker, writer>>

ReadAgain(q) ==
    /\ reader[q].pc = "again"
    /\ AnswerOr(q, "load")
    /\ UNCHANGED <<version, entries, breaker, writer>>

\* The handler of the route.
Load(q) ==
    /\ reader[q].pc \in {"load", "bypass"}
    /\ SetReader(q, [reader[q] EXCEPT !.pc = IF @ = "load" THEN "set" ELSE "answer",
                                      !.value = Current(reader[q].r)])
    /\ UNCHANGED <<version, entries, breaker, writer>>

Kept(r) ==
    LET s == Home(r.p) IN
    [entries EXCEPT ![s] = (@ \ Hits(s, r.r, r.v)) \cup {Entry(r.r, r.v, r.value)}]

StoreEntry(q) ==
    /\ reader[q].pc = "set"
    /\ entries' = IF Open(q) THEN entries ELSE Kept(reader[q])
    /\ ReaderAt(q, "answer")
    /\ UNCHANGED <<version, breaker, writer>>

Respond(q) ==
    /\ reader[q].pc = "answer"
    /\ SetReader(q, IdleReader)
    /\ UNCHANGED <<version, entries, breaker, writer>>

ReaderStep(q) ==
    \/ ReadVersion(q) \/ InitVersion(q) \/ ReadEntry(q) \/ ReadAgain(q) \/ Load(q)
    \/ StoreEntry(q) \/ Respond(q)

WithoutRedis(pc, open) ==
    CASE pc = "get" -> IF open THEN {"bypass"} ELSE {"load", "again"}
      [] pc = "again" -> {"load"}
      [] pc = "set" -> {"answer"}

\* The breaker of a process may open with any failure: the code counts to five.
FailureOpens(p, open) == breaker' = IF open THEN breaker \cup {p} ELSE breaker

\* Redis does not answer in time, though the command may have arrived: the version comes
\* from memory, everything else is done without.
RedisFailsReader(q) ==
    LET r == reader[q]  k == KeyFor(r.r) IN
    /\ mix.redis /\ faults < mix.faults
    /\ faults' = faults + 1
    /\ \E open, arrived \in BOOLEAN :
          /\ FailureOpens(r.p, open \/ Open(q))
          /\ \/ /\ r.pc \in {"version", "init"}
                /\ LET v == LocalVersion(r.p, k) IN
                      /\ SetReader(q, [r EXCEPT !.pc = "get", !.v = v])
                      /\ version' = [version EXCEPT
                             ![r.p][k] = v,
                             ![Redis][k] = IF arrived /\ r.pc = "init" THEN 1 ELSE @]
                /\ UNCHANGED entries
             \/ /\ r.pc \in {"get", "again", "set"}
                /\ \E next \in WithoutRedis(r.pc, open) : ReaderAt(q, next)
                /\ entries' = IF arrived /\ r.pc = "set" /\ ~Open(q) THEN Kept(r) ELSE entries
                /\ UNCHANGED version
    /\ UNCHANGED writer
----------------------------------------------------------------------------
(* A mutation: the change is committed, its event published, the answer    *)
(* sent, and the versions are incremented; nobody waits for any of these.  *)

\* The company is found in the query, the parameters or the body, or it is not.
KeysToInvalidate(m, named) == IF named THEN {CompanyOf[m], Global} ELSE {Global}

Mutate(m, p, named) ==
    /\ m \notin Committed
    /\ writer' = [writer EXCEPT ![m] = [p |-> p, todo |-> KeysToInvalidate(m, named), done |-> {}]]
    /\ event' = [event EXCEPT ![m] = "sent"]
    /\ UNCHANGED <<audited, schema, running, tick, version, entries, breaker, reader>>

Invalidated(m, k) == [writer[m] EXCEPT !.todo = @ \ {k}, !.done = @ \cup {k}]

BumpScopeVersion(m, k) ==
    LET s == Home(writer[m].p) IN
    /\ k \in writer[m].todo
    /\ SetVersion(s, k, version[s][k] + 1)
    /\ writer' = [writer EXCEPT ![m] = Invalidated(m, k)]
    /\ UNCHANGED <<entries, breaker, reader>>

\* The version in memory is incremented, that in Redis only if the command arrived.
RedisFailsWriter(m, k) ==
    LET p == writer[m].p IN
    /\ k \in writer[m].todo
    /\ mix.redis /\ faults < mix.faults
    /\ faults' = faults + 1
    /\ \E arrived \in BOOLEAN :
          version' = [version EXCEPT ![p][k] = @ + 1, ![Redis][k] = IF arrived THEN @ + 1 ELSE @]
    /\ writer' = [writer EXCEPT ![m] = Invalidated(m, k)]
    /\ \E open \in BOOLEAN : FailureOpens(p, open)
    /\ UNCHANGED <<entries, reader>>
----------------------------------------------------------------------------
(* Time *)

\* Mutant: entries are kept without an expiry.
NeverExpires(s, e) == FALSE

Expires(s, e) == e \in entries[s]

ExpireEntry(s, e) ==
    /\ Expires(s, e)
    /\ entries' = [entries EXCEPT ![s] = @ \ {e}]
    /\ UNCHANGED <<version, breaker, reader, writer>>

\* The time of the breaker is over, or a call succeeds while it is open.
CloseBreaker ==
    /\ \E p \in breaker : breaker' = breaker \ {p}
    /\ UNCHANGED <<version, entries, reader, writer>>

\* The process dies and is started again: its requests, its memory and the events on
\* their way are lost; what is in Redis stays.
ApiDies(p) ==
    /\ faults < mix.faults
    /\ faults' = faults + 1
    /\ event' = [m \in Mutation |-> IF event[m] = "sent" /\ writer[m].p = p THEN "lost" ELSE event[m]]
    /\ tick' = [t \in Tick |-> IF ProcessOf[t] = p THEN IdleTick ELSE tick[t]]
    /\ schema' = [schema EXCEPT ![p] = "unknown"]
    /\ running' = [running EXCEPT ![p] = FALSE]
    /\ version' = [version EXCEPT ![p] = [k \in Key |-> 0]]
    /\ entries' = [entries EXCEPT ![p] = {}]
    /\ breaker' = breaker \ {p}
    /\ reader' = [q \in Reader |-> IF reader[q].p = p THEN IdleReader ELSE reader[q]]
    /\ writer' = [m \in Mutation |-> IF writer[m].p = p THEN [writer[m] EXCEPT !.todo = {}] ELSE writer[m]]
    /\ UNCHANGED audited
----------------------------------------------------------------------------
Init == mix \in Mixes /\ faults = 0 /\ OutboxInit /\ CacheInit

KeepOutbox == UNCHANGED outboxVars

ExpireStep == CloseBreaker \/ \E s \in Store : \E e \in entries[s] : ExpireEntry(s, e)

Next ==
    /\ UNCHANGED mix
    /\ \/ mix.ticks # {} /\ OutboxStep /\ UNCHANGED cacheVars
       \/ \E q \in mix.readers, p \in mix.processes, r \in mix.asked : Get(q, p, r) /\ KeepOutbox /\ UNCHANGED faults
       \/ \E q \in mix.readers : ReaderStep(q) /\ KeepOutbox /\ UNCHANGED faults
       \/ \E q \in mix.readers : RedisFailsReader(q) /\ KeepOutbox
       \/ \E m \in mix.mutations, p \in mix.processes, named \in mix.named : Mutate(m, p, named) /\ UNCHANGED faults
       \/ \E m \in Mutation, k \in Key : mix.readers # {} /\ BumpScopeVersion(m, k) /\ KeepOutbox /\ UNCHANGED faults
       \/ \E m \in Mutation, k \in Key : RedisFailsWriter(m, k) /\ KeepOutbox
       \/ ExpireStep /\ KeepOutbox /\ UNCHANGED faults
       \/ \E p \in mix.processes : ApiDies(p)

Spec == Init /\ [][Next]_vars

\* Timers fire, requests under way go on, rows in memory are written, and entries reach
\* their age.
FairSpec ==
    /\ Spec
    /\ \A t \in Tick : WF_vars(t \in mix.ticks /\ TickStep(t) /\ UNCHANGED cacheVars /\ UNCHANGED mix)
    /\ \A m \in Mutation : WF_vars(RecordEvent(m) /\ UNCHANGED cacheVars /\ UNCHANGED mix)
    /\ \A q \in Reader : WF_vars(q \in mix.readers /\ ReaderStep(q) /\ KeepOutbox /\ UNCHANGED <<faults, mix>>)
    /\ \A m \in Mutation : WF_vars(mix.readers # {} /\ (\E k \in Key : BumpScopeVersion(m, k)) /\ KeepOutbox /\ UNCHANGED <<faults, mix>>)
    /\ \A s \in Store, r \in Resource :
          WF_vars((\E e \in entries[s] : e.r = r /\ ExpireEntry(s, e)) /\ KeepOutbox /\ UNCHANGED <<faults, mix>>)
----------------------------------------------------------------------------
\* Type correctness: versions are numbers and no entry is stored under version 0, which
\* stands for a missing one, whatever fails.
TypeOK ==
    /\ OutboxTypeOK
    /\ version \in [Store -> [Key -> Nat]]
    /\ \A s \in Store : \A e \in entries[s] :
          e.r \in Resource /\ e.v \in Nat \ {0} /\ e.value \subseteq Mutation
    /\ breaker \subseteq Process
    /\ reader \in [Reader ->
          [pc : {"idle", "version", "init", "get", "again", "load", "bypass", "set", "answer"},
           p : Process \cup {NoProcess}, r : Resource, v : Nat, value : SUBSET Mutation,
           floor : SUBSET Mutation]]
    /\ writer \in [Mutation -> [p : Process \cup {NoProcess}, todo : SUBSET Key, done : SUBSET Key]]

\* The versions exist in Redis, or they are in the memory of the only process.
OneMemory == IF mix.redis THEN mix.warm ELSE \A p, q \in mix.processes : p = q

\* Who asks for a list after a mutation invalidated it sees the mutation, whatever other
\* readers stored meanwhile; with one memory for all and while nothing fails.
ReadsSettled ==
    OneMemory /\ faults = 0 =>
        \A q \in Reader : reader[q].pc = "answer" => reader[q].floor \subseteq reader[q].value

Offered(p, r) == Hits(Home(p), r, version[Home(p)][KeyFor(r)])

\* When the mutations end, what is offered becomes what the tables say within the age of
\* an entry: also the list of a company that the mutation did not name, the trail that
\* was cached before the worker copied the mutation, and entries that come back
\* because a version was set back or was not incremented.
ListsCatchUp ==
    <>[](\A p \in Process, r \in Resource : \A e \in Offered(p, r) : e.value = Current(r))

\* Claim of docs/Doc Vieja/reglas/ReglasImportantes.md:679, "Toda mutacion de planillas
\* (`POST/PUT/PATCH/DELETE`) debe invalidar cache del scope `payroll`": when a mutation
\* has invalidated what it does, no list that lacks it is offered.
MutationInvalidates ==
    \A m \in Committed : writer[m].todo = {} /\ faults = 0 /\ mix.warm =>
        \A p \in Process, r \in Key : \A e \in Offered(p, r) :
            (r = Global \/ r = CompanyOf[m]) => m \in e.value
=============================================================================
