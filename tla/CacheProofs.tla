---------------------------- MODULE CacheProofs ----------------------------
(***************************************************************************)
(* What holds of the audit outbox and of the cache for every set of        *)
(* mutations, readers, processes and ticks, with their requests, failures  *)
(* and restarts in between: rows that say processed were copied, rows have *)
(* few copies, and no reader sees a list older than its question.          *)
(***************************************************************************)
EXTENDS ResponseCache, FiniteSetTheorems, TLAPS

\* A tick that is about to mark a row has copied it: what its memory says of the table
\* is still true, as copies are never taken back.
Marks ==
    \A t \in Tick :
        /\ tick[t].pc \in {"copy", "mark", "fail"} => tick[t].e \in Mutation
        /\ tick[t].pc = "mark" => audited[tick[t].e] > 0

OutboxInv == mix \in Mixes /\ OutboxTypeOK /\ Marks /\ ProcessedIsCopied

\* The invariant holds before anything was published.
LEMMA OutboxInvInit == Init => OutboxInv
  BY OutboxAssumption
  DEF Init, OutboxInit, OutboxInv, OutboxTypeOK, Marks, ProcessedIsCopied, EventState, TickState,
      IdleTick, Stored

\* Publishing and recording change the states of rows that nobody marks processed.
LEMMA PublishKeeps ==
    ASSUME OutboxInv, NEW m \in Mutation, NEW s \in {"sent", "pending", "lost"},
           event' = [event EXCEPT ![m] = s],
           UNCHANGED <<audited, schema, running, tick, mix>>
    PROVE  OutboxInv'
  BY DEF OutboxInv, OutboxTypeOK, Marks, ProcessedIsCopied, EventState, Stored

\* A tick that moves to a step which writes nothing by itself keeps the invariant.
LEMMA TickKeeps ==
    ASSUME OutboxInv, NEW t \in Tick, NEW r \in TickState,
           r.pc \in {"copy", "fail"} => r.e \in Mutation, r.pc # "mark",
           tick' = [tick EXCEPT ![t] = r],
           schema' \in [Process -> {"unknown", "ready", "missing"}],
           running' \in [Process -> BOOLEAN],
           UNCHANGED <<event, audited, mix>>
    PROVE  OutboxInv'
<1>1. OutboxTypeOK'
  BY DEF OutboxInv, OutboxTypeOK
<1>2. Marks'
  BY DEF OutboxInv, OutboxTypeOK, Marks, TickState
<1>3. ProcessedIsCopied'
  BY DEF OutboxInv, ProcessedIsCopied
<1> QED
  BY <1>1, <1>2, <1>3 DEF OutboxInv

\* The steps of a tick, without a fault.
LEMMA StepKeeps ==
    ASSUME OutboxInv, NEW t \in Tick, TickStep(t), UNCHANGED mix
    PROVE  OutboxInv'
<1> USE DEF OutboxInv, OutboxTypeOK, SetTick
<1>0. /\ tick[t] \in TickState /\ IdleTick \in TickState
      /\ ProcessOf[t] \in Process
  BY OutboxAssumption DEF TickState, IdleTick
<1>1. CASE StartTick(t)
  <2>1. PICK r \in {[IdleTick EXCEPT !.pc = "schema"], [IdleTick EXCEPT !.pc = "find"]} :
            tick' = [tick EXCEPT ![t] = r]
    BY <1>1 DEF StartTick
  <2>2. r \in TickState /\ r.pc \in {"schema", "find"}
    BY OutboxAssumption DEF TickState, IdleTick
  <2>3. running' \in [Process -> BOOLEAN]
    BY <1>1, <1>0 DEF StartTick
  <2> QED
    BY <1>1, <2>1, <2>2, <2>3, TickKeeps DEF StartTick
<1>2. CASE SchemaReady(t)
  <2>1. [IdleTick EXCEPT !.pc = "find"] \in TickState
    BY OutboxAssumption DEF TickState, IdleTick
  <2> QED
    BY <1>2, <1>0, <2>1, TickKeeps DEF SchemaReady, IdleTick
<1>3. CASE FindPending(t)
  <2> DEFINE r == [IdleTick EXCEPT !.pc = "next", !.todo = {m \in Mutation : Found(m)}]
  <2>1. r \in TickState /\ r.pc = "next"
    BY OutboxAssumption DEF TickState, IdleTick
  <2> QED
    BY <1>3, <2>1, TickKeeps DEF FindPending
<1>4. CASE NextRow(t)
  <2>1. PICK m \in tick[t].todo :
            tick' = [tick EXCEPT ![t] = [pc |-> IF m \in Malformed THEN "fail" ELSE "copy",
                                         todo |-> tick[t].todo \ {m}, e |-> m]]
    BY <1>4 DEF NextRow
  <2>2. m \in Mutation /\ tick[t].todo \ {m} \in SUBSET Mutation
    BY <1>0 DEF TickState
  <2>3. [pc |-> IF m \in Malformed THEN "fail" ELSE "copy",
         todo |-> tick[t].todo \ {m}, e |-> m] \in TickState
    BY <2>2 DEF TickState
  <2> QED
    BY <1>4, <2>1, <2>2, <2>3, TickKeeps DEF NextRow
<1>5. CASE CopyRow(t)
  <2>1. tick[t].e \in Mutation /\ [tick[t] EXCEPT !.pc = "mark"] \in TickState
    BY <1>5, <1>0 DEF CopyRow, Marks, TickState
  <2>2. audited' \in [Mutation -> Nat] /\ audited'[tick[t].e] > 0
    BY <1>5, <2>1 DEF CopyRow
  <2>3. \A m \in Mutation : audited[m] > 0 => audited'[m] > 0
    BY <1>5, <2>1 DEF CopyRow
  <2>4. OutboxTypeOK'
    BY <1>5, <2>1, <2>2 DEF CopyRow
  <2>5. Marks'
    BY <1>5, <2>1, <2>2, <2>3 DEF CopyRow, Marks, TickState
  <2>6. ProcessedIsCopied'
    BY <1>5, <2>3 DEF CopyRow, ProcessedIsCopied
  <2> QED
    BY <2>4, <2>5, <2>6
<1>6. CASE MarkRow(t)
  <2> DEFINE r == [tick[t] EXCEPT !.pc = "next", !.e = NoMutation]
  <2>1. /\ tick' = [tick EXCEPT ![t] = r]
        /\ UNCHANGED <<audited, schema, running>>
        /\ tick[t].e \in Mutation
        /\ \/ event' = [event EXCEPT ![tick[t].e] = "processed"] /\ audited[tick[t].e] > 0
           \/ event' = [event EXCEPT ![tick[t].e] = "failed"]
    BY <1>6 DEF MarkRow, SaveStatus, Marks
  <2>2. r \in TickState /\ r.pc = "next"
    BY <1>0 DEF TickState
  <2>3. OutboxTypeOK'
    BY <2>1, <2>2 DEF EventState, Stored
  <2>4. Marks'
    BY <2>1, <2>2 DEF Marks
  <2>5. ProcessedIsCopied'
    BY <2>1 DEF ProcessedIsCopied
  <2> QED
    BY <2>3, <2>4, <2>5
<1>7. CASE EndTick(t)
  BY <1>7, <1>0, TickKeeps DEF EndTick, AfterTick, IdleTick
<1> QED
  BY <1>1, <1>2, <1>3, <1>4, <1>5, <1>6, <1>7 DEF TickStep

\* The faults of a tick.
LEMMA FaultKeeps ==
    ASSUME OutboxInv, NEW t \in Tick, TickFault(t), UNCHANGED mix
    PROVE  OutboxInv'
<1> USE DEF OutboxInv, OutboxTypeOK, SetTick
<1>0. /\ tick[t] \in TickState /\ IdleTick \in TickState /\ IdleTick.pc = "idle"
      /\ ProcessOf[t] \in Process
  BY OutboxAssumption DEF TickState, IdleTick
<1>1. CASE SchemaFails(t)
  BY <1>1, <1>0, TickKeeps DEF SchemaFails
<1>2. CASE TickFails(t)
  <2>1. CASE tick[t].pc \in {"copy", "mark"} /\ tick' = [tick EXCEPT ![t] = [tick[t] EXCEPT !.pc = OnError]]
             /\ UNCHANGED running
    <3>1. /\ [tick[t] EXCEPT !.pc = OnError] \in TickState
          /\ [tick[t] EXCEPT !.pc = OnError].pc = "fail"
          /\ [tick[t] EXCEPT !.pc = OnError].e \in Mutation
      BY <2>1, <1>0 DEF OnError, TickState, Marks
    <3> QED
      BY <1>2, <2>1, <3>1, TickKeeps DEF TickFails
  <2>2. CASE tick' = [tick EXCEPT ![t] = IdleTick] /\ running' = AfterTick(t)
    BY <1>2, <2>2, <1>0, TickKeeps DEF TickFails, AfterTick
  <2> QED
    BY <1>2, <2>1, <2>2 DEF TickFails
<1> QED
  BY <1>1, <1>2 DEF TickFault

\* A restart forgets ticks and events on their way, and takes no copy back.
LEMMA RestartKeeps ==
    ASSUME OutboxInv, NEW p, ApiDies(p), UNCHANGED mix
    PROVE  OutboxInv'
<1>1. OutboxTypeOK'
  BY OutboxAssumption
  DEF ApiDies, OutboxInv, OutboxTypeOK, EventState, TickState, IdleTick
<1>2. Marks'
  BY DEF ApiDies, OutboxInv, OutboxTypeOK, Marks, IdleTick
<1>3. ProcessedIsCopied'
  BY DEF ApiDies, OutboxInv, ProcessedIsCopied
<1> QED
  BY <1>1, <1>2, <1>3 DEF OutboxInv

\* Requests, entries and versions leave the outbox alone.
LEMMA OutboxInvNext == OutboxInv /\ [Next]_vars => OutboxInv'
<1> SUFFICES ASSUME OutboxInv, [Next]_vars PROVE OutboxInv'
  OBVIOUS
<1>0. ASSUME UNCHANGED <<outboxVars, mix>> PROVE OutboxInv'
  BY <1>0
  DEF OutboxInv, OutboxTypeOK, Marks, ProcessedIsCopied, outboxVars
<1>1. CASE UNCHANGED vars
  BY <1>0, <1>1 DEF vars
<1>2. CASE Next
  <2>0. UNCHANGED mix
    BY <1>2 DEF Next
  <2>1. CASE OutboxStep
    <3>1. ASSUME NEW m \in Mutation, RecordEvent(m) \/ RecordFails(m) PROVE OutboxInv'
      <4>1. PICK s \in {"sent", "pending", "lost"} : event' = [event EXCEPT ![m] = s]
        BY <3>1 DEF RecordEvent, RecordFails
      <4> QED
        BY <3>1, <4>1, <2>0, PublishKeeps DEF RecordEvent, RecordFails
    <3>2. ASSUME NEW t \in mix.ticks, TickStep(t) \/ TickFault(t) PROVE OutboxInv'
      <4>1. t \in Tick
        BY OutboxAssumption DEF OutboxInv
      <4> QED
        BY <3>2, <4>1, <2>0, StepKeeps, FaultKeeps
    <3> QED
      BY <2>1, <3>1, <3>2 DEF OutboxStep
  <2>2. CASE KeepOutbox
    BY <2>2, <2>0, <1>0 DEF KeepOutbox
  <2>3. ASSUME NEW m, NEW p, NEW named, Mutate(m, p, named) PROVE OutboxInv'
    BY <2>3, <2>0
    DEF Mutate, OutboxInv, OutboxTypeOK, Marks, ProcessedIsCopied, EventState
  <2>4. ASSUME NEW p, ApiDies(p) PROVE OutboxInv'
    BY <2>4, <2>0, RestartKeeps
  <2> QED
    BY <1>2, <2>1, <2>2, <2>3, <2>4 DEF Next
<1> QED
  BY <1>1, <1>2

\* For any number of mutations, processes and ticks, the rows, flags and ticks of the
\* outbox stay well typed.
THEOREM OutboxTyped == Spec => []OutboxTypeOK
<1>1. OutboxInv => OutboxTypeOK
  BY DEF OutboxInv
<1> QED
  BY <1>1, OutboxInvInit, OutboxInvNext, PTL DEF Spec

\* A row that says processed was copied, for any number of workers that overlap, fail,
\* die and write their old rows over each other (processSingleEvent).
THEOREM NothingSkipped == Spec => []ProcessedIsCopied
<1>1. OutboxInv => ProcessedIsCopied
  BY DEF OutboxInv
<1> QED
  BY <1>1, OutboxInvInit, OutboxInvNext, PTL DEF Spec
----------------------------------------------------------------------------
(* The cache: its types *)

EntryState == [r : Resource, v : Nat \ {0}, value : SUBSET Mutation]

ReaderState ==
    [pc : {"idle", "version", "init", "get", "again", "load", "bypass", "set", "answer"},
     p : Process \cup {NoProcess}, r : Resource, v : Nat, value : SUBSET Mutation,
     floor : SUBSET Mutation]

WriterState == [p : Process \cup {NoProcess}, todo : SUBSET Key, done : SUBSET Key]

\* A reader that has its process and, from the second step on, a version that is not 0.
Sound(r) ==
    /\ r \in ReaderState
    /\ r.pc # "idle" => r.p \in Process
    /\ r.pc \in {"get", "again", "load", "set"} => r.v > 0

\* What the code of the cache relies on: who works for a request has a process, and who
\* looks into the cache or writes to it has read a version.
CacheTyped ==
    /\ version \in [Store -> [Key -> Nat]]
    /\ entries \in [Store -> SUBSET EntryState]
    /\ breaker \subseteq Process
    /\ reader \in [Reader -> ReaderState]
    /\ \A q \in Reader : Sound(reader[q])
    /\ writer \in [Mutation -> WriterState]
    /\ \A m \in Mutation : writer[m].todo # {} => writer[m].p \in Process
    /\ faults \in Nat

CacheInv == OutboxInv /\ CacheTyped

LEMMA CacheInvInit == Init => CacheInv
<1> SUFFICES ASSUME Init PROVE CacheTyped
  BY OutboxInvInit DEF CacheInv
<1>1. version \in [Store -> [Key -> Nat]]
  BY DEF Init, CacheInit
<1>2. IdleReader \in ReaderState /\ IdleReader.pc = "idle"
  BY DEF IdleReader, ReaderState, Resource, Key
<1>3. IdleWriter \in WriterState /\ IdleWriter.todo = {}
  BY DEF IdleWriter, WriterState
<1> QED
  BY <1>1, <1>2, <1>3 DEF Init, CacheInit, CacheTyped, Sound

\* The key of a question is one of the versioned ones, and a store has a place for each.
LEMMA KeyForType == \A r \in Resource : KeyFor(r) \in Key
  BY DEF KeyFor, Resource, Key

LEMMA HomeType == \A p \in Process : Home(p) \in Store
  BY DEF Home, Store

\* Writing one version leaves a table of versions.
LEMMA VersionSet ==
    ASSUME CacheTyped, NEW s \in Store, NEW k \in Key, NEW v \in Nat, SetVersion(s, k, v)
    PROVE  version' \in [Store -> [Key -> Nat]]
  BY DEF SetVersion, CacheTyped

LEMMA LocalVersionType ==
    ASSUME CacheTyped, NEW p \in Process, NEW k \in Key
    PROVE  LocalVersion(p, k) \in Nat /\ LocalVersion(p, k) > 0
<1>1. version[p][k] \in Nat
  BY DEF CacheTyped, Store
<1> QED
  BY <1>1 DEF LocalVersion

\* A reader that goes on, whatever it did to the versions and to the entries.
LEMMA ReaderTyped ==
    ASSUME CacheTyped, NEW q \in Reader, NEW rec, Sound(rec), SetReader(q, rec),
           version' \in [Store -> [Key -> Nat]],
           entries' \in [Store -> SUBSET EntryState],
           breaker' \subseteq Process, faults' \in Nat, UNCHANGED writer
    PROVE  CacheTyped'
<1>1. reader' = [reader EXCEPT ![q] = rec] /\ rec \in ReaderState
  BY DEF SetReader, Sound
<1>2. reader' \in [Reader -> ReaderState]
  BY <1>1 DEF CacheTyped
<1>3. \A x \in Reader : Sound(reader'[x])
  BY <1>1 DEF CacheTyped
<1> QED
  BY <1>2, <1>3 DEF CacheTyped, Sound

\* What a reader keeps of its answer is an entry, and it replaces the entries of its key.
LEMMA KeptType ==
    ASSUME CacheTyped, NEW r \in ReaderState, r.p \in Process, r.v > 0
    PROVE  Kept(r) \in [Store -> SUBSET EntryState]
<1>1. Entry(r.r, r.v, r.value) \in EntryState
  BY DEF Entry, EntryState, ReaderState
<1>2. Home(r.p) \in Store
  BY HomeType
<1> QED
  BY <1>1, <1>2 DEF Kept, CacheTyped

\* The parts of a reader that the proofs take from its type.
LEMMA SoundParts ==
    ASSUME CacheTyped, NEW q \in Reader
    PROVE  /\ Sound(reader[q]) /\ reader[q] \in ReaderState
           /\ reader[q].r \in Resource /\ KeyFor(reader[q].r) \in Key
           /\ reader[q].v \in Nat
  BY KeyForType DEF CacheTyped, Sound, ReaderState

\* Going on to another step with the same question, process and version.
LEMMA SoundAt ==
    ASSUME NEW r, Sound(r), r.pc # "idle",
           NEW pc \in {"again", "load", "bypass", "set", "answer"},
           pc \in {"again", "load", "set"} => r.v > 0
    PROVE  Sound([r EXCEPT !.pc = pc])
  BY DEF Sound, ReaderState

\* Getting a version, which may only be 0 where it is to be initialised.
LEMMA SoundAfter ==
    ASSUME NEW r, Sound(r), r.pc # "idle", NEW pc \in {"init", "get"}, NEW v \in Nat,
           pc = "get" => v > 0
    PROVE  Sound([r EXCEPT !.pc = pc, !.v = v])
<1>1. r \in ReaderState /\ r.p \in Process
  BY DEF Sound
<1>2. [r EXCEPT !.pc = pc, !.v = v] \in ReaderState
  BY <1>1 DEF ReaderState
<1>3. [r EXCEPT !.pc = pc, !.v = v].p = r.p
  BY <1>1 DEF ReaderState
<1>4. [r EXCEPT !.pc = pc, !.v = v].pc = pc /\ [r EXCEPT !.pc = pc, !.v = v].v = v
  BY <1>1 DEF ReaderState
<1> QED
  BY <1>1, <1>2, <1>3, <1>4 DEF Sound

\* An answer found among the entries.
LEMMA AnswerTyped ==
    ASSUME CacheTyped, NEW q \in Reader, reader[q].pc \in {"get", "again"},
           NEW pc \in {"again", "load", "bypass"}, AnswerOr(q, pc),
           UNCHANGED <<version, entries, breaker, writer, faults>>
    PROVE  CacheTyped'
<1> USE SoundParts
<1>0. /\ version' \in [Store -> [Key -> Nat]] /\ entries' \in [Store -> SUBSET EntryState]
      /\ breaker' \subseteq Process /\ faults' \in Nat
  BY DEF CacheTyped
<1>1. CASE ReaderAt(q, pc)
  <2>1. Sound([reader[q] EXCEPT !.pc = pc])
    BY SoundAt DEF Sound
  <2> QED
    BY <1>0, <1>1, <2>1, ReaderTyped DEF ReaderAt
<1>2. ASSUME NEW e \in Hits(Home(reader[q].p), reader[q].r, reader[q].v),
             SetReader(q, [reader[q] EXCEPT !.pc = "answer", !.value = e.value])
      PROVE  CacheTyped'
  <2>1. Home(reader[q].p) \in Store
    BY HomeType DEF Sound
  <2>2. e.value \in SUBSET Mutation
    BY <2>1 DEF Hits, CacheTyped, EntryState
  <2>3. Sound([reader[q] EXCEPT !.pc = "answer", !.value = e.value])
    BY <2>2 DEF Sound, ReaderState
  <2> QED
    BY <1>0, <1>2, <2>3, ReaderTyped
<1> QED
  BY <1>1, <1>2 DEF AnswerOr

\* The steps of a request.
LEMMA GetTyped ==
    ASSUME CacheTyped, NEW q \in Reader, NEW p \in Process, NEW r \in Resource, Get(q, p, r),
           UNCHANGED faults
    PROVE  CacheTyped'
<1>1. Settled(r) \subseteq Mutation
  BY DEF Settled, Current, Committed
<1>2. Sound([IdleReader EXCEPT !.pc = "version", !.p = p, !.r = r, !.floor = Settled(r)])
  BY <1>1 DEF Sound, ReaderState, IdleReader
<1>3. /\ version' \in [Store -> [Key -> Nat]] /\ entries' \in [Store -> SUBSET EntryState]
      /\ breaker' \subseteq Process /\ faults' \in Nat /\ UNCHANGED writer
  BY DEF Get, CacheTyped
<1> QED
  BY <1>2, <1>3, ReaderTyped DEF Get

LEMMA ReaderStepTyped ==
    ASSUME CacheTyped, NEW q \in Reader, ReaderStep(q), UNCHANGED faults
    PROVE  CacheTyped'
<1> USE SoundParts
<1> DEFINE r == reader[q]  k == KeyFor(r.r)
<1>0. /\ version \in [Store -> [Key -> Nat]] /\ entries \in [Store -> SUBSET EntryState]
      /\ breaker \subseteq Process /\ faults' \in Nat /\ Redis \in Store
  BY DEF CacheTyped, Store
<1>1. CASE ReadVersion(q)
  <2>1. CASE ~mix.redis
    <3>1. r.p \in Process /\ r.p \in Store
      BY <1>1 DEF ReadVersion, Sound, Store
    <3>2. LocalVersion(r.p, k) \in Nat /\ LocalVersion(r.p, k) > 0
      BY <3>1, LocalVersionType
    <3>3. Sound([r EXCEPT !.pc = "get", !.v = LocalVersion(r.p, k)])
      BY <1>1, <3>2, SoundAfter DEF ReadVersion
    <3>4. /\ SetReader(q, [r EXCEPT !.pc = "get", !.v = LocalVersion(r.p, k)])
          /\ SetVersion(r.p, k, LocalVersion(r.p, k))
      BY <1>1, <2>1 DEF ReadVersion, UseLocalVersion
    <3>5. version' \in [Store -> [Key -> Nat]]
      BY <3>1, <3>2, <3>4, VersionSet
    <3> QED
      BY <1>0, <1>1, <3>3, <3>4, <3>5, ReaderTyped DEF ReadVersion
  <2>2. CASE mix.redis
    <3> DEFINE v == version[Redis][k]
    <3>1. v \in Nat
      BY <1>0
    <3> DEFINE pc == IF v = 0 THEN "init" ELSE "get"
    <3>2. pc \in {"init", "get"} /\ (pc = "get" => v > 0) /\ r.pc # "idle" /\ Sound(r)
      BY <3>1, <1>1 DEF ReadVersion
    <3>3. SetReader(q, [r EXCEPT !.pc = pc, !.v = v])
      BY <1>1, <2>2 DEF ReadVersion
    <3> HIDE DEF v, pc, r
    <3>4. Sound([r EXCEPT !.pc = pc, !.v = v])
      BY <3>1, <3>2, SoundAfter
    <3> QED
      BY <1>0, <1>1, <2>2, <3>3, <3>4, ReaderTyped DEF ReadVersion
  <2> QED
    BY <2>1, <2>2
<1>2. CASE InitVersion(q)
  <2>1. /\ r.pc # "idle" /\ Sound(r) /\ SetReader(q, [r EXCEPT !.pc = "get", !.v = 1])
        /\ "get" \in {"init", "get"} /\ 1 \in Nat /\ 1 > 0
    BY <1>2 DEF InitVersion
  <2>2. version' \in [Store -> [Key -> Nat]]
    BY <1>0, <1>2, VersionSet DEF InitVersion
  <2> HIDE DEF r
  <2>3. Sound([r EXCEPT !.pc = "get", !.v = 1])
    BY <2>1, SoundAfter
  <2> QED
    BY <1>0, <1>2, <2>1, <2>2, <2>3, ReaderTyped DEF InitVersion
<1>3. CASE ReadEntry(q)
  <2>1. PICK pc \in {"again", "load", "bypass"} : AnswerOr(q, pc)
    BY <1>3 DEF ReadEntry
  <2> QED
    BY <1>3, <2>1, AnswerTyped DEF ReadEntry
<1>4. CASE ReadAgain(q)
  BY <1>4, AnswerTyped DEF ReadAgain
<1>5. CASE Load(q)
  <2>1. Current(r.r) \in SUBSET Mutation
    BY DEF Current, Committed
  <2>2. Sound([r EXCEPT !.pc = IF @ = "load" THEN "set" ELSE "answer", !.value = Current(r.r)])
    BY <1>5, <2>1 DEF Load, Sound, ReaderState
  <2> QED
    BY <1>0, <1>5, <2>2, ReaderTyped DEF Load
<1>6. CASE StoreEntry(q)
  <2>1. r.p \in Process /\ r.v > 0
    BY <1>6 DEF StoreEntry, Sound
  <2>2. Kept(r) \in [Store -> SUBSET EntryState]
    BY <2>1, KeptType
  <2>3. entries' \in [Store -> SUBSET EntryState]
    BY <1>0, <1>6, <2>2 DEF StoreEntry
  <2>4. Sound([r EXCEPT !.pc = "answer"])
    BY <1>6, SoundAt DEF StoreEntry
  <2> QED
    BY <1>0, <1>6, <2>3, <2>4, ReaderTyped DEF StoreEntry, ReaderAt
<1>7. CASE Respond(q)
  <2>1. Sound(IdleReader)
    BY DEF Sound, IdleReader, ReaderState, Resource, Key
  <2> QED
    BY <1>0, <1>7, <2>1, ReaderTyped DEF Respond
<1> QED
  BY <1>1, <1>2, <1>3, <1>4, <1>5, <1>6, <1>7 DEF ReaderStep

\* Redis fails a request: the version comes from memory, the rest is done without.
LEMMA RedisFailsReaderTyped ==
    ASSUME CacheTyped, NEW q \in Reader, RedisFailsReader(q)
    PROVE  CacheTyped'
<1> USE SoundParts
<1> DEFINE r == reader[q]  k == KeyFor(r.r)
<1>1. PICK open \in BOOLEAN, arrived \in BOOLEAN :
          /\ FailureOpens(r.p, open \/ Open(q))
          /\ \/ /\ r.pc \in {"version", "init"}
                /\ LET v == LocalVersion(r.p, k) IN
                      /\ SetReader(q, [r EXCEPT !.pc = "get", !.v = v])
                      /\ version' = [version EXCEPT
                             ![r.p][k] = v,
                             ![Redis][k] = IF arrived /\ r.pc = "init" THEN 1 ELSE @]
                /\ UNCHANGED entries
             \/ /\ r.pc \in {"get", "again", "set"}
                /\ \E next \in WithoutRedis(r.pc, open) : ReaderAt(q, next)
                /\ entries' = IF arrived /\ r.pc = "set" /\ ~Open(q) THEN Kept(r) ELSE entries
                /\ UNCHANGED version
  BY DEF RedisFailsReader
<1>2. /\ version \in [Store -> [Key -> Nat]] /\ entries \in [Store -> SUBSET EntryState]
      /\ faults' \in Nat /\ Redis \in Store /\ UNCHANGED writer
      /\ r.p \in Process /\ r.p \in Store
  BY <1>1 DEF CacheTyped, Store, RedisFailsReader, Sound
<1>3. breaker' \subseteq Process
  BY <1>1, <1>2 DEF FailureOpens, CacheTyped
<1>4. CASE r.pc \in {"version", "init"}
  <2> DEFINE v == LocalVersion(r.p, k)
  <2>1. v \in Nat /\ v > 0
    BY <1>2, LocalVersionType
  <2>2. Sound([r EXCEPT !.pc = "get", !.v = v])
    BY <1>4, <2>1, SoundAfter
  <2>3. /\ SetReader(q, [r EXCEPT !.pc = "get", !.v = v])
        /\ version' = [version EXCEPT
               ![r.p][k] = v, ![Redis][k] = IF arrived /\ r.pc = "init" THEN 1 ELSE @]
        /\ UNCHANGED entries
    BY <1>1, <1>4
  <2> HIDE DEF v
  <2>4. k \in Key
    OBVIOUS
  <2> HIDE DEF k
  <2>5. version' \in [Store -> [Key -> Nat]]
    BY <1>2, <2>1, <2>3, <2>4
  <2> QED
    BY <1>2, <1>3, <2>2, <2>3, <2>5, ReaderTyped
<1>5. CASE r.pc \in {"get", "again", "set"}
  <2>1. PICK next \in WithoutRedis(r.pc, open) : ReaderAt(q, next)
    BY <1>1, <1>5
  <2>2. next \in {"bypass", "load", "again", "answer"}
    BY <1>5 DEF WithoutRedis
  <2>3. Sound([r EXCEPT !.pc = next])
    BY <1>5, <2>2, SoundAt DEF Sound
  <2>4. r.v > 0
    BY <1>5 DEF Sound
  <2>5. Kept(r) \in [Store -> SUBSET EntryState]
    BY <1>2, <2>4, KeptType
  <2>6. entries' \in [Store -> SUBSET EntryState] /\ UNCHANGED version
    BY <1>1, <1>2, <1>5, <2>5
  <2> QED
    BY <1>2, <1>3, <2>1, <2>3, <2>6, ReaderTyped DEF ReaderAt
<1> QED
  BY <1>1, <1>4, <1>5

\* The mutations: whoever still has keys to invalidate has a process.
LEMMA WriterTyped ==
    ASSUME CacheTyped, NEW m \in Mutation, NEW w \in WriterState, w.todo # {} => w.p \in Process,
           writer' = [writer EXCEPT ![m] = w], version' \in [Store -> [Key -> Nat]],
           breaker' \subseteq Process, faults' \in Nat, UNCHANGED <<entries, reader>>
    PROVE  CacheTyped'
<1>1. writer' \in [Mutation -> WriterState]
  BY DEF CacheTyped
<1>2. \A n \in Mutation : writer'[n].todo # {} => writer'[n].p \in Process
  BY DEF CacheTyped
<1> QED
  BY <1>1, <1>2 DEF CacheTyped, Sound

LEMMA MutateTyped ==
    ASSUME CacheTyped, NEW m \in Mutation, NEW p \in Process, NEW named, Mutate(m, p, named),
           UNCHANGED faults
    PROVE  CacheTyped'
<1> DEFINE w == [p |-> p, todo |-> KeysToInvalidate(m, named), done |-> {}]
<1>1. KeysToInvalidate(m, named) \subseteq Key
  BY CacheAssumption DEF KeysToInvalidate, Key
<1>2. w \in WriterState /\ w.p \in Process
  BY <1>1 DEF WriterState
<1>3. writer' = [writer EXCEPT ![m] = w]
  BY DEF Mutate
<1> HIDE DEF w
<1>4. /\ version' \in [Store -> [Key -> Nat]] /\ breaker' \subseteq Process /\ faults' \in Nat
      /\ UNCHANGED <<entries, reader>>
  BY DEF Mutate, CacheTyped
<1> QED
  BY <1>2, <1>3, <1>4, WriterTyped

\* A key that a mutation still has to invalidate.
LEMMA ToInvalidate ==
    ASSUME CacheTyped, NEW m \in Mutation, NEW k \in writer[m].todo
    PROVE  /\ writer[m].p \in Process /\ k \in Key
           /\ Invalidated(m, k) \in WriterState /\ Invalidated(m, k).p = writer[m].p
           /\ writer[m].p \in Store /\ Home(writer[m].p) \in Store
<1>1. writer[m] \in WriterState /\ writer[m].p \in Process
  BY DEF CacheTyped
<1>2. k \in Key /\ writer[m].done \cup {k} \subseteq Key
  BY <1>1 DEF WriterState
<1> QED
  BY <1>1, <1>2, HomeType DEF Invalidated, WriterState, Store

LEMMA BumpTyped ==
    ASSUME CacheTyped, NEW m \in Mutation, NEW k, BumpScopeVersion(m, k), UNCHANGED faults
    PROVE  CacheTyped'
<1> DEFINE s == Home(writer[m].p)
<1>1. k \in writer[m].todo /\ SetVersion(s, k, version[s][k] + 1)
      /\ writer' = [writer EXCEPT ![m] = Invalidated(m, k)]
      /\ UNCHANGED <<entries, breaker, reader, faults>>
  BY DEF BumpScopeVersion
<1>2. s \in Store /\ k \in Key /\ writer[m].p \in Process
      /\ Invalidated(m, k) \in WriterState /\ Invalidated(m, k).p = writer[m].p
  BY <1>1, ToInvalidate
<1> HIDE DEF s
<1>3. version[s][k] + 1 \in Nat
  BY <1>2 DEF CacheTyped
<1>4. version' \in [Store -> [Key -> Nat]]
  BY <1>1, <1>2, <1>3, VersionSet
<1>5. breaker' \subseteq Process /\ faults' \in Nat
  BY <1>1 DEF CacheTyped
<1> QED
  BY <1>1, <1>2, <1>4, <1>5, WriterTyped

LEMMA RedisFailsWriterTyped ==
    ASSUME CacheTyped, NEW m \in Mutation, NEW k, RedisFailsWriter(m, k)
    PROVE  CacheTyped'
<1> DEFINE p == writer[m].p
<1>1. k \in writer[m].todo /\ faults' = faults + 1
      /\ writer' = [writer EXCEPT ![m] = Invalidated(m, k)]
      /\ UNCHANGED <<entries, reader>>
  BY DEF RedisFailsWriter
<1>2. PICK arrived \in BOOLEAN, open \in BOOLEAN :
          /\ version' = [version EXCEPT ![p][k] = @ + 1, ![Redis][k] = IF arrived THEN @ + 1 ELSE @]
          /\ FailureOpens(p, open)
  BY DEF RedisFailsWriter
<1>3. p \in Process /\ p \in Store /\ Redis \in Store /\ k \in Key
      /\ Invalidated(m, k) \in WriterState /\ Invalidated(m, k).p = p
  BY <1>1, ToInvalidate DEF Store
<1> HIDE DEF p
<1>4. version \in [Store -> [Key -> Nat]]
  BY DEF CacheTyped
<1>5. version' \in [Store -> [Key -> Nat]]
  <2> DEFINE x == version[p][k] + 1
             y == IF arrived THEN version[Redis][k] + 1 ELSE version[Redis][k]
  <2>1. x \in Nat /\ y \in Nat /\ p # Redis
    BY <1>3, <1>4, CacheAssumption
  <2>2. version' = [version EXCEPT ![p][k] = x, ![Redis][k] = y]
    BY <1>2, <1>3, <1>4, <2>1
  <2> HIDE DEF x, y
  <2> QED
    BY <1>3, <1>4, <2>1, <2>2
<1>6. breaker' \subseteq Process /\ faults' \in Nat
  BY <1>1, <1>2, <1>3 DEF FailureOpens, CacheTyped
<1> QED
  BY <1>1, <1>3, <1>5, <1>6, WriterTyped

\* A restart empties the memory of one process.
LEMMA RestartTyped ==
    ASSUME CacheTyped, NEW p \in Process, ApiDies(p)
    PROVE  CacheTyped'
<1>1. version' \in [Store -> [Key -> Nat]] /\ entries' \in [Store -> SUBSET EntryState]
  BY DEF CacheTyped, ApiDies
<1>2. breaker' \subseteq Process /\ faults' \in Nat
  BY DEF CacheTyped, ApiDies
<1>3. Sound(IdleReader)
  BY DEF Sound, IdleReader, ReaderState, Resource, Key
<1>4. \A q \in Reader : reader'[q] \in {IdleReader, reader[q]}
  BY DEF ApiDies
<1>5. reader' \in [Reader -> ReaderState] /\ \A q \in Reader : Sound(reader'[q])
  BY <1>3, <1>4 DEF CacheTyped, ApiDies, Sound
<1>6. \A m \in Mutation : [writer[m] EXCEPT !.todo = {}] \in WriterState
  BY DEF CacheTyped, WriterState
<1>7. \A m \in Mutation : /\ writer'[m] \in WriterState
                          /\ writer'[m].todo # {} => writer'[m] = writer[m]
  BY <1>6 DEF ApiDies, CacheTyped, WriterState
<1>8. writer' \in [Mutation -> WriterState]
      /\ \A m \in Mutation : writer'[m].todo # {} => writer'[m].p \in Process
  BY <1>7 DEF ApiDies, CacheTyped
<1> QED
  BY <1>1, <1>2, <1>5, <1>8 DEF CacheTyped, Sound

\* The outbox counts the faults and leaves the cache alone.
LEMMA OutboxTypedCache ==
    ASSUME CacheTyped, OutboxStep, UNCHANGED cacheVars
    PROVE  CacheTyped'
<1>1. faults' \in {faults, faults + 1}
  BY DEF OutboxStep, RecordEvent, RecordFails, TickStep, TickFault, StartTick, SchemaReady,
         FindPending, NextRow, CopyRow, MarkRow, SaveStatus, EndTick, SchemaFails, TickFails
<1>2. faults' \in Nat
  BY <1>1 DEF CacheTyped
<1> QED
  BY <1>2 DEF CacheTyped, cacheVars, Sound

LEMMA CacheInvNext == CacheInv /\ [Next]_vars => CacheInv'
<1> SUFFICES ASSUME CacheInv, [Next]_vars PROVE CacheTyped'
  BY OutboxInvNext DEF CacheInv
<1> USE DEF CacheInv
<1>0. mix \in Mixes
  BY DEF OutboxInv
<1>1. CASE UNCHANGED vars
  BY <1>1 DEF vars, cacheVars, CacheTyped, Sound
<1>2. CASE Next
  <2>1. ASSUME NEW q \in mix.readers, NEW p \in mix.processes, NEW r \in mix.asked, Get(q, p, r),
               UNCHANGED faults
        PROVE  CacheTyped'
    BY <1>0, <2>1, CacheAssumption, GetTyped
  <2>2. ASSUME NEW q \in mix.readers,
               (ReaderStep(q) /\ UNCHANGED faults) \/ RedisFailsReader(q)
        PROVE  CacheTyped'
    BY <1>0, <2>2, CacheAssumption, ReaderStepTyped, RedisFailsReaderTyped
  <2>3. ASSUME NEW m \in mix.mutations, NEW p \in mix.processes, NEW named \in mix.named,
               Mutate(m, p, named), UNCHANGED faults
        PROVE  CacheTyped'
    BY <1>0, <2>3, CacheAssumption, MutateTyped
  <2>4. ASSUME NEW m \in Mutation, NEW k \in Key,
               (BumpScopeVersion(m, k) /\ UNCHANGED faults) \/ RedisFailsWriter(m, k)
        PROVE  CacheTyped'
    BY <2>4, BumpTyped, RedisFailsWriterTyped
  <2>5. ASSUME ExpireStep, UNCHANGED faults PROVE CacheTyped'
    <3>1. entries' \in [Store -> SUBSET EntryState] /\ breaker' \subseteq Process
      BY <2>5 DEF ExpireStep, CloseBreaker, ExpireEntry, CacheTyped
    <3> QED
      BY <2>5, <3>1 DEF ExpireStep, CloseBreaker, ExpireEntry, CacheTyped, Sound
  <2>6. ASSUME NEW p \in mix.processes, ApiDies(p) PROVE CacheTyped'
    BY <1>0, <2>6, CacheAssumption, RestartTyped
  <2> QED
    BY <1>2, <2>1, <2>2, <2>3, <2>4, <2>5, <2>6, OutboxTypedCache DEF Next
<1> QED
  BY <1>1, <1>2

\* For any number of processes, readers and mutations, whatever Redis does: versions are
\* numbers, and no answer is kept under version 0, which stands for a missing one
\* (getScopeVersion, bumpScopeVersion, getOrSet).
THEOREM CacheTypes == Spec => []TypeOK
<1>1. CacheInv => TypeOK
  BY DEF CacheInv, OutboxInv, CacheTyped, TypeOK, EntryState, ReaderState, WriterState
<1> QED
  BY <1>1, CacheInvInit, CacheInvNext, PTL DEF Spec
----------------------------------------------------------------------------
(* How often a mutation is copied *)

\* The ticks that have copied the row of a mutation, or given it up, and not saved it yet.
Past(m) == {t \in mix.ticks : tick[t].pc \in {"mark", "fail"} /\ tick[t].e = m}

\* The ticks that have the row in their batch and have not copied it.
Owing(m) == {t \in mix.ticks : m \in tick[t].todo \/ (tick[t].pc = "copy" /\ tick[t].e = m)}

\* The ticks that may still copy the row before a fault: while it is pending any tick may
\* find it, afterwards only those that have it in their batch.
MayCopy(m) == IF event[m] = "pending" THEN mix.ticks \ Past(m) ELSE Owing(m)

Bound == Cardinality(mix.ticks) * (1 + faults)

Counted == \A m \in Mutation : audited[m] + Cardinality(MayCopy(m)) <= Bound

\* Nobody works on what is not a row yet, and nobody has a row in hand and in the rest of
\* the batch.
NotARow(m) == event[m] \in {"none", "sent", "lost"}

Fresh ==
    \A m \in Mutation : NotARow(m) =>
        /\ audited[m] = 0
        /\ \A t \in Tick : m \notin tick[t].todo /\ tick[t].e # m

InHand == \A t \in Tick : tick[t].pc \in {"copy", "mark", "fail"} => tick[t].e \notin tick[t].todo

\* A mutation that was not made has not published.
Unpublished == \A m \in Mutation : writer[m].p = NoProcess => event[m] = "none"

CountInv == CacheInv /\ Counted /\ Fresh /\ InHand /\ Unpublished

\* The ticks at work are finitely many, so they and those among them are counted.
LEMMA TicksFinite ==
    ASSUME mix \in Mixes
    PROVE  /\ mix.ticks \subseteq Tick /\ IsFiniteSet(mix.ticks) /\ Cardinality(mix.ticks) \in Nat
           /\ \A S \in SUBSET mix.ticks : /\ IsFiniteSet(S) /\ Cardinality(S) \in Nat
                                          /\ Cardinality(S) <= Cardinality(mix.ticks)
<1>1. IsFiniteSet(mix.ticks) /\ mix.ticks \subseteq Tick
  BY OutboxAssumption
<1> QED
  BY <1>1, FS_Subset, FS_CardinalityType

LEMMA MayCopyIn == \A m \in Mutation : MayCopy(m) \subseteq mix.ticks
  BY DEF MayCopy, Owing

LEMMA SmallerCount ==
    ASSUME NEW S, NEW T, IsFiniteSet(S), T \subseteq S
    PROVE  /\ Cardinality(T) \in Nat /\ Cardinality(S) \in Nat /\ Cardinality(T) <= Cardinality(S)
           /\ \A t \in S : t \notin T => Cardinality(T) + 1 <= Cardinality(S)
<1>1. IsFiniteSet(T) /\ Cardinality(T) \in Nat /\ Cardinality(S) \in Nat /\ Cardinality(T) <= Cardinality(S)
  BY FS_Subset, FS_CardinalityType
<1>2. ASSUME NEW t \in S, t \notin T PROVE Cardinality(T) + 1 <= Cardinality(S)
  <2>1. T \subseteq S \ {t} /\ IsFiniteSet(S \ {t}) /\ Cardinality(S \ {t}) = Cardinality(S) - 1
    BY <1>2, FS_RemoveElement
  <2>2. Cardinality(T) <= Cardinality(S \ {t})
    BY <2>1, FS_Subset
  <2> QED
    BY <1>1, <2>1, <2>2
<1> QED
  BY <1>1, <1>2

\* The three ways in which the count goes on.  Without a fault nobody gets to copy who
\* could not; or a tick that could copies once and can no more.
LEMMA CountKept ==
    ASSUME CountInv, NEW m \in Mutation, UNCHANGED <<mix, faults>>,
           audited'[m] = audited[m], MayCopy(m)' \subseteq MayCopy(m)
    PROVE  (audited[m] + Cardinality(MayCopy(m)) <= Bound)'
<1>1. mix \in Mixes /\ audited[m] \in Nat /\ faults \in Nat
  BY DEF CountInv, CacheInv, OutboxInv, OutboxTypeOK, CacheTyped
<1>2. IsFiniteSet(MayCopy(m)) /\ Cardinality(mix.ticks) \in Nat
  BY <1>1, TicksFinite, MayCopyIn
<1>3. Cardinality(MayCopy(m)') <= Cardinality(MayCopy(m)) /\ Cardinality(MayCopy(m)) \in Nat
      /\ Cardinality(MayCopy(m)') \in Nat
  BY <1>2, SmallerCount
<1>4. audited[m] + Cardinality(MayCopy(m)) <= Bound /\ Bound' = Bound
  BY DEF CountInv, Counted, Bound
<1>5. Bound \in Nat
  BY <1>1, <1>2 DEF Bound
<1> QED
  BY <1>1, <1>3, <1>4, <1>5

LEMMA CountCopied ==
    ASSUME CountInv, NEW m \in Mutation, UNCHANGED <<mix, faults>>, NEW t \in MayCopy(m),
           audited'[m] = audited[m] + 1, MayCopy(m)' \subseteq MayCopy(m), t \notin MayCopy(m)'
    PROVE  (audited[m] + Cardinality(MayCopy(m)) <= Bound)'
<1>1. mix \in Mixes /\ audited[m] \in Nat /\ faults \in Nat
  BY DEF CountInv, CacheInv, OutboxInv, OutboxTypeOK, CacheTyped
<1>2. IsFiniteSet(MayCopy(m)) /\ Cardinality(mix.ticks) \in Nat
  BY <1>1, TicksFinite, MayCopyIn
<1>3. Cardinality(MayCopy(m)') + 1 <= Cardinality(MayCopy(m)) /\ Cardinality(MayCopy(m)) \in Nat
      /\ Cardinality(MayCopy(m)') \in Nat
  BY <1>2, SmallerCount
<1>4. audited[m] + Cardinality(MayCopy(m)) <= Bound /\ Bound' = Bound
  BY DEF CountInv, Counted, Bound
<1>5. Bound \in Nat
  BY <1>1, <1>2 DEF Bound
<1> QED
  BY <1>1, <1>3, <1>4, <1>5

\* A fault allows every tick one copy more.
LEMMA CountFaulted ==
    ASSUME CountInv, NEW m \in Mutation, UNCHANGED mix, faults' = faults + 1,
           audited'[m] = audited[m]
    PROVE  (audited[m] + Cardinality(MayCopy(m)) <= Bound)'
<1>1. mix \in Mixes /\ audited[m] \in Nat /\ faults \in Nat
  BY DEF CountInv, CacheInv, OutboxInv, OutboxTypeOK, CacheTyped
<1>2. MayCopy(m)' \subseteq mix.ticks
  BY DEF MayCopy, Owing
<1> DEFINE T == Cardinality(mix.ticks)
<1>3. Cardinality(MayCopy(m)') <= T /\ Cardinality(MayCopy(m)') \in Nat /\ T \in Nat
  BY <1>1, <1>2, TicksFinite
<1>4. audited[m] + Cardinality(MayCopy(m)) <= Bound /\ Cardinality(MayCopy(m)) \in Nat
  BY <1>1, TicksFinite, MayCopyIn DEF CountInv, Counted
<1>5. Bound = T * (1 + faults) /\ Bound' = T * (1 + (faults + 1))
  BY DEF Bound
<1> HIDE DEF T
<1>6. T * (1 + (faults + 1)) = T * (1 + faults) + T /\ T * (1 + faults) \in Nat
  BY <1>1, <1>3
<1> QED
  BY <1>1, <1>3, <1>4, <1>5, <1>6

\* A row that begins has not been copied.
LEMMA CountBegins ==
    ASSUME CountInv, NEW m \in Mutation, UNCHANGED <<mix, faults>>, audited'[m] = 0
    PROVE  (audited[m] + Cardinality(MayCopy(m)) <= Bound)'
<1>1. mix \in Mixes /\ faults \in Nat
  BY DEF CountInv, CacheInv, OutboxInv, CacheTyped
<1>2. MayCopy(m)' \subseteq mix.ticks
  BY DEF MayCopy, Owing
<1> DEFINE T == Cardinality(mix.ticks)
<1>3. Cardinality(MayCopy(m)') <= T /\ Cardinality(MayCopy(m)') \in Nat /\ T \in Nat
  BY <1>1, <1>2, TicksFinite
<1>4. Bound' = T * (1 + faults)
  BY DEF Bound
<1> HIDE DEF T
<1>5. T * (1 + faults) = T + T * faults /\ T * faults \in Nat
  BY <1>1, <1>3
<1> QED
  BY <1>3, <1>4, <1>5

Rows == Fresh /\ InHand /\ Unpublished

\* A tick that moves with rows that exist.
LEMMA MoveRows ==
    ASSUME CountInv, NEW t \in Tick, NEW r \in TickState, tick' = [tick EXCEPT ![t] = r],
           \A m \in Mutation : NotARow(m) => m \notin r.todo /\ r.e # m,
           r.pc \in {"copy", "mark", "fail"} => r.e \notin r.todo,
           UNCHANGED <<event, audited, writer>>
    PROVE  Rows'
<1>1. tick \in [Tick -> TickState]
  BY DEF CountInv, CacheInv, OutboxInv, OutboxTypeOK
<1>2. Fresh'
  BY <1>1 DEF CountInv, Fresh, NotARow
<1>3. InHand'
  BY <1>1 DEF CountInv, InHand
<1>4. Unpublished'
  BY DEF CountInv, Unpublished
<1> QED
  BY <1>2, <1>3, <1>4 DEF Rows

\* A tick that moves and takes on nothing.
LEMMA MoveCounts ==
    ASSUME CountInv, NEW t \in Tick, NEW r \in TickState, tick' = [tick EXCEPT ![t] = r],
           \A m \in Mutation :
              IF event[m] = "pending"
              THEN tick[t].pc \in {"mark", "fail"} /\ tick[t].e = m
                      => r.pc \in {"mark", "fail"} /\ r.e = m
              ELSE m \in r.todo \/ (r.pc = "copy" /\ r.e = m)
                      => m \in tick[t].todo \/ (tick[t].pc = "copy" /\ tick[t].e = m),
           UNCHANGED <<event, audited, faults, mix>>
    PROVE  Counted'
<1>1. tick \in [Tick -> TickState] /\ mix.ticks \subseteq Tick
  BY TicksFinite DEF CountInv, CacheInv, OutboxInv, OutboxTypeOK
<1> SUFFICES ASSUME NEW m \in Mutation
             PROVE  (audited[m] + Cardinality(MayCopy(m)) <= Bound)'
  BY DEF Counted
<1>2. CASE event[m] = "pending"
  <2>1. Past(m) \subseteq Past(m)'
    BY <1>1, <1>2 DEF Past
  <2> QED
    BY <1>2, <2>1, CountKept DEF MayCopy
<1>3. CASE event[m] # "pending"
  <2>1. Owing(m)' \subseteq Owing(m)
    BY <1>1, <1>3 DEF Owing
  <2> QED
    BY <1>3, <2>1, CountKept DEF MayCopy
<1> QED
  BY <1>2, <1>3

\* The steps of a tick, without a fault.
LEMMA StepCounts ==
    ASSUME CountInv, NEW t \in mix.ticks, TickStep(t), UNCHANGED <<cacheVars, mix>>
    PROVE  Counted' /\ Rows'
<1> USE DEF SetTick
<1>0. /\ tick \in [Tick -> TickState] /\ audited \in [Mutation -> Nat]
      /\ event \in [Mutation -> EventState]
      /\ t \in Tick /\ tick[t] \in TickState /\ IdleTick \in TickState
      /\ IdleTick.todo = {} /\ IdleTick.e = NoMutation /\ IdleTick.pc = "idle"
      /\ NoMutation \notin Mutation /\ UNCHANGED writer
      /\ Marks /\ Fresh /\ InHand /\ Unpublished
  BY OutboxAssumption, TicksFinite
  DEF CountInv, CacheInv, OutboxInv, OutboxTypeOK, TickState, IdleTick, cacheVars
<1>1. CASE StartTick(t) \/ SchemaReady(t)
  <2>1. PICK pc \in {"schema", "find"} : tick' = [tick EXCEPT ![t] = [IdleTick EXCEPT !.pc = pc]]
    BY <1>1 DEF StartTick, SchemaReady
  <2> DEFINE r == [IdleTick EXCEPT !.pc = pc]
  <2>2. r \in TickState /\ r.todo = {} /\ r.e = NoMutation /\ r.pc \in {"schema", "find"}
    BY <1>0 DEF TickState, IdleTick
  <2>3. tick[t].pc \in {"idle", "schema"} /\ UNCHANGED <<event, audited, faults>>
    BY <1>1 DEF StartTick, SchemaReady
  <2> HIDE DEF r
  <2>4. tick' = [tick EXCEPT ![t] = r]
    BY <2>1 DEF r
  <2>5. Counted'
    BY <1>0, <2>2, <2>3, <2>4, MoveCounts
  <2>6. Rows'
    BY <1>0, <2>2, <2>3, <2>4, MoveRows
  <2> QED
    BY <2>5, <2>6
<1>2. CASE FindPending(t)
  <2> DEFINE r == [IdleTick EXCEPT !.pc = "next", !.todo = {m \in Mutation : Found(m)}]
  <2>1. /\ r \in TickState /\ r.pc = "next" /\ r.e = NoMutation
        /\ \A m \in Mutation : m \in r.todo <=> event[m] = "pending"
    BY <1>0 DEF TickState, IdleTick, Found
  <2>2. tick[t].pc = "find" /\ UNCHANGED <<event, audited, faults>>
        /\ tick' = [tick EXCEPT ![t] = r]
    BY <1>2 DEF FindPending
  <2> HIDE DEF r
  <2>3. Counted'
    BY <1>0, <2>1, <2>2, MoveCounts
  <2>4. Rows'
    BY <1>0, <2>1, <2>2, MoveRows DEF NotARow
  <2> QED
    BY <2>3, <2>4
<1>3. CASE NextRow(t)
  <2>1. PICK n \in tick[t].todo :
            tick' = [tick EXCEPT ![t] = [pc |-> IF n \in Malformed THEN "fail" ELSE "copy",
                                         todo |-> tick[t].todo \ {n}, e |-> n]]
    BY <1>3 DEF NextRow
  <2> DEFINE r == [pc |-> IF n \in Malformed THEN "fail" ELSE "copy",
                   todo |-> tick[t].todo \ {n}, e |-> n]
  <2>2. r.e = n /\ r.todo = tick[t].todo \ {n} /\ r.pc \in {"fail", "copy"}
    OBVIOUS
  <2>3. n \in Mutation /\ r \in TickState /\ n \in tick[t].todo
    BY <1>0, <2>1 DEF TickState
  <2>4. tick[t].pc = "next" /\ UNCHANGED <<event, audited, faults>>
    BY <1>3 DEF NextRow
  <2>5. tick' = [tick EXCEPT ![t] = r]
    BY <2>1
  <2> HIDE DEF r
  <2>6. Counted'
    <3>1. \A m \in Mutation : m \in r.todo \/ (r.pc = "copy" /\ r.e = m) => m \in tick[t].todo
      BY <2>2, <2>3
    <3>2. ~(tick[t].pc \in {"mark", "fail"})
      BY <2>4
    <3> QED
      BY <1>0, <2>3, <2>4, <2>5, <3>1, <3>2, MoveCounts
  <2>7. \A m \in Mutation : NotARow(m) => m \notin r.todo /\ r.e # m
    BY <1>0, <2>2 DEF Fresh
  <2>8. Rows'
    BY <1>0, <2>2, <2>3, <2>4, <2>5, <2>7, MoveRows
  <2> QED
    BY <2>6, <2>8
<1>4. CASE CopyRow(t)
  <2> DEFINE r == [tick[t] EXCEPT !.pc = "mark"]  n == tick[t].e
  <2>1. /\ r \in TickState /\ r.pc = "mark" /\ r.e = n /\ r.todo = tick[t].todo
    BY <1>0 DEF TickState
  <2>2. /\ tick[t].pc = "copy" /\ tick' = [tick EXCEPT ![t] = r] /\ UNCHANGED <<event, faults>>
        /\ audited' = [audited EXCEPT ![n] = @ + 1] /\ n \in Mutation /\ n \notin tick[t].todo
    BY <1>0, <1>4 DEF CopyRow, Marks, InHand
  <2>3. n \notin tick[t].todo /\ ~NotARow(n)
    BY <1>0, <2>2 DEF Fresh
  <2> HIDE DEF r, n
  <2>4. Counted'
    <3> SUFFICES ASSUME NEW m \in Mutation
                 PROVE  (audited[m] + Cardinality(MayCopy(m)) <= Bound)'
      BY DEF Counted
    <3>1. \A x \in Tick : tick'[x] = IF x = t THEN r ELSE tick[x]
      BY <1>0, <2>2
    <3>2. /\ Past(m) \subseteq Past(m)' /\ Owing(m)' \subseteq Owing(m)
          /\ m = n => t \in Past(m)' /\ t \notin Past(m) /\ t \in Owing(m) /\ t \notin Owing(m)'
      BY <1>0, <2>1, <2>2, <3>1, TicksFinite DEF Past, Owing, CountInv, CacheInv, OutboxInv, n
    <3>3. CASE m = n
      <4>1. t \in MayCopy(m) /\ t \notin MayCopy(m)' /\ MayCopy(m)' \subseteq MayCopy(m)
        BY <2>2, <3>2, <3>3 DEF MayCopy
      <4>2. audited'[m] = audited[m] + 1
        BY <1>0, <2>2, <3>3
      <4> QED
        BY <2>2, <4>1, <4>2, CountCopied
    <3>4. CASE m # n
      <4>1. MayCopy(m)' \subseteq MayCopy(m)
        BY <2>2, <3>2 DEF MayCopy
      <4>2. audited'[m] = audited[m]
        BY <1>0, <2>2, <3>4
      <4> QED
        BY <2>2, <4>1, <4>2, CountKept
    <3> QED
      BY <3>3, <3>4
  <2>5. Rows'
    BY <1>0, <2>1, <2>2, <2>3 DEF Rows, Fresh, InHand, Unpublished, NotARow, n
  <2> QED
    BY <2>4, <2>5
<1>5. CASE MarkRow(t)
  <2>0. PICK n \in Mutation : n = tick[t].e
    BY <1>0, <1>5 DEF MarkRow, SaveStatus, Marks
  <2> DEFINE r == [tick[t] EXCEPT !.pc = "next", !.e = NoMutation]
  <2>1. /\ r \in TickState /\ r.pc = "next" /\ r.e = NoMutation /\ r.todo = tick[t].todo
    BY <1>0 DEF TickState
  <2>2. PICK status \in {"processed", "failed"} : event' = [event EXCEPT ![n] = status]
    BY <1>5, <2>0 DEF MarkRow, SaveStatus
  <2>3. /\ tick[t].pc \in {"mark", "fail"} /\ n = tick[t].e /\ n \notin tick[t].todo
        /\ tick' = [tick EXCEPT ![t] = r] /\ UNCHANGED <<audited, faults>>
    BY <1>0, <1>5, <2>0 DEF MarkRow, SaveStatus, Marks, InHand
  <2>4. ~NotARow(n)
    BY <1>0, <2>3 DEF Fresh
  <2> HIDE DEF r
  <2>5. Counted'
    <3> SUFFICES ASSUME NEW m \in Mutation
                 PROVE  (audited[m] + Cardinality(MayCopy(m)) <= Bound)'
      BY DEF Counted
    <3>1. \A x \in Tick : tick'[x] = IF x = t THEN r ELSE tick[x]
      BY <1>0, <2>3
    <3>2. Owing(m)' \subseteq Owing(m) /\ (m # n => Past(m)' = Past(m))
      BY <1>0, <2>1, <2>3, <3>1, TicksFinite DEF Owing, Past, CountInv, CacheInv, OutboxInv
    <3>3. Owing(n)' \cap Past(n) = {}
      <4> SUFFICES ASSUME NEW x \in Past(n), x \in Owing(n)' PROVE FALSE
        OBVIOUS
      <4>1. x \in Tick /\ tick[x].pc \in {"mark", "fail"} /\ tick[x].e = n
        BY <1>0, TicksFinite DEF Past, CountInv, CacheInv, OutboxInv
      <4>2. n \notin tick[x].todo
        BY <1>0, <4>1 DEF InHand
      <4>3. n \in tick'[x].todo \/ tick'[x].pc = "copy"
        BY DEF Owing
      <4> QED
        BY <2>1, <2>3, <3>1, <4>1, <4>2, <4>3
    <3>4. Owing(n)' \subseteq mix.ticks
      BY DEF Owing
    <3>5. MayCopy(m)' \subseteq MayCopy(m)
      <4>1. CASE m = n
        <5>1. event'[n] # "pending"
          BY <1>0, <2>2, <2>3
        <5>2. MayCopy(n)' = Owing(n)'
          BY <5>1 DEF MayCopy
        <5>3. Owing(n)' \subseteq MayCopy(n)
          BY <3>2, <3>3, <3>4, <4>1 DEF MayCopy
        <5> QED
          BY <4>1, <5>2, <5>3 DEF MayCopy
      <4>2. CASE m # n
        BY <1>0, <2>2, <2>3, <3>2, <4>2 DEF MayCopy
      <4> QED
        BY <4>1, <4>2
    <3> QED
      BY <2>3, <3>5, CountKept
  <2>6. Rows'
    <3>1. \A x \in Tick : tick'[x] = IF x = t THEN r ELSE tick[x]
      BY <1>0, <2>3
    <3>2. \A m \in Mutation : event'[m] = IF m = n THEN status ELSE event[m]
      BY <1>0, <2>2
    <3>3. Fresh'
      BY <1>0, <2>1, <2>3, <3>1, <3>2 DEF Fresh, NotARow
    <3>4. InHand'
      BY <1>0, <2>1, <3>1 DEF InHand
    <3>5. Unpublished'
      BY <1>0, <2>4, <3>2 DEF Unpublished, NotARow
    <3> QED
      BY <3>3, <3>4, <3>5 DEF Rows
  <2> QED
    BY <2>5, <2>6
<1>6. CASE EndTick(t)
  <2>1. tick[t].pc = "next" /\ UNCHANGED <<event, audited, faults>>
        /\ tick' = [tick EXCEPT ![t] = IdleTick]
    BY <1>6 DEF EndTick
  <2>2. Counted'
    BY <1>0, <2>1, MoveCounts
  <2>3. Rows'
    BY <1>0, <2>1, MoveRows
  <2> QED
    BY <2>2, <2>3
<1> QED
  BY <1>1, <1>2, <1>3, <1>4, <1>5, <1>6 DEF TickStep

\* Every fault is counted, so whatever becomes of the ticks the count goes on.
LEMMA FaultCounts ==
    ASSUME CountInv, faults' = faults + 1, UNCHANGED <<audited, mix>>
    PROVE  Counted'
  BY CountFaulted DEF Counted

LEMMA TickFaultRows ==
    ASSUME CountInv, NEW t \in mix.ticks, TickFault(t), UNCHANGED <<cacheVars, mix>>
    PROVE  faults' = faults + 1 /\ UNCHANGED audited /\ Rows'
<1>0. /\ t \in Tick /\ tick[t] \in TickState /\ IdleTick \in TickState
      /\ IdleTick.todo = {} /\ IdleTick.e = NoMutation /\ IdleTick.pc = "idle"
      /\ NoMutation \notin Mutation /\ UNCHANGED writer
      /\ Marks /\ Fresh /\ InHand
  BY OutboxAssumption, TicksFinite
  DEF CountInv, CacheInv, OutboxInv, OutboxTypeOK, TickState, IdleTick, cacheVars
<1>1. faults' = faults + 1 /\ UNCHANGED <<event, audited>>
  BY DEF TickFault, SchemaFails, TickFails
<1>2. CASE tick' = [tick EXCEPT ![t] = IdleTick]
  BY <1>0, <1>1, <1>2, MoveRows
<1>3. CASE tick[t].pc \in {"copy", "mark"} /\ tick' = [tick EXCEPT ![t] = [tick[t] EXCEPT !.pc = OnError]]
  <2> DEFINE r == [tick[t] EXCEPT !.pc = OnError]
  <2>1. /\ r \in TickState /\ r.todo = tick[t].todo /\ r.e = tick[t].e
        /\ r.e \notin r.todo
    BY <1>0, <1>3 DEF TickState, OnError, InHand
  <2>2. \A m \in Mutation : NotARow(m) => m \notin r.todo /\ r.e # m
    BY <1>0, <2>1 DEF Fresh
  <2> HIDE DEF r
  <2>3. tick' = [tick EXCEPT ![t] = r]
    BY <1>3 DEF r
  <2> QED
    BY <1>0, <1>1, <2>1, <2>2, <2>3, MoveRows
<1> QED
  BY <1>2, <1>3 DEF TickFault, SchemaFails, TickFails, SetTick

\* An event on its way becomes a row or is lost.
LEMMA RecordCounts ==
    ASSUME CountInv, NEW n \in Mutation, RecordEvent(n) \/ RecordFails(n),
           UNCHANGED <<cacheVars, mix>>
    PROVE  Counted' /\ Rows'
<1>0. /\ audited \in [Mutation -> Nat] /\ event \in [Mutation -> EventState]
      /\ UNCHANGED <<audited, tick, writer>> /\ event[n] = "sent" /\ audited[n] = 0
      /\ Fresh /\ InHand /\ Unpublished
  BY DEF CountInv, CacheInv, OutboxInv, OutboxTypeOK, cacheVars, RecordEvent, RecordFails, Fresh,
         NotARow
<1>1. PICK status \in {"lost", "pending"} : event' = [event EXCEPT ![n] = status]
  BY DEF RecordEvent, RecordFails
<1>2. Rows'
  BY <1>0, <1>1 DEF Rows, Fresh, InHand, Unpublished, NotARow
<1>3. CASE RecordEvent(n)
  <2> SUFFICES ASSUME NEW m \in Mutation PROVE (audited[m] + Cardinality(MayCopy(m)) <= Bound)'
    BY <1>2 DEF Counted
  <2>1. UNCHANGED <<faults, mix>>
    BY <1>3 DEF RecordEvent
  <2>2. CASE m = n
    BY <1>0, <2>1, <2>2, CountBegins
  <2>3. CASE m # n
    <3>1. event'[m] = event[m]
      BY <1>0, <1>1, <2>3
    <3>2. MayCopy(m)' \subseteq MayCopy(m)
      BY <1>0, <2>1, <3>1 DEF MayCopy, Owing, Past
    <3> QED
      BY <1>0, <2>1, <3>2, CountKept
  <2> QED
    BY <2>2, <2>3
<1>4. CASE RecordFails(n)
  BY <1>0, <1>2, <1>4, FaultCounts DEF RecordFails
<1> QED
  BY <1>3, <1>4

\* A mutation publishes once, when it is made.
LEMMA MutateCounts ==
    ASSUME CountInv, NEW n \in Mutation, NEW p \in Process, NEW named, Mutate(n, p, named),
           UNCHANGED <<faults, mix>>
    PROVE  Counted' /\ Rows'
<1>0. /\ audited \in [Mutation -> Nat] /\ event \in [Mutation -> EventState]
      /\ writer \in [Mutation -> WriterState]
      /\ UNCHANGED <<audited, tick>> /\ event[n] = "none"
      /\ Fresh /\ InHand /\ Unpublished
  BY DEF CountInv, CacheInv, OutboxInv, OutboxTypeOK, CacheTyped, Mutate, Committed, Unpublished
<1>1. /\ event' = [event EXCEPT ![n] = "sent"]
      /\ writer' = [writer EXCEPT ![n] = [p |-> p, todo |-> KeysToInvalidate(n, named), done |-> {}]]
  BY DEF Mutate
<1>2. Fresh' /\ InHand'
  BY <1>0, <1>1 DEF Fresh, InHand, NotARow
<1>3. Unpublished'
  <2>1. p # NoProcess
    BY CacheAssumption
  <2> QED
    BY <1>0, <1>1, <2>1 DEF Unpublished
<1>4. Counted'
  <2> SUFFICES ASSUME NEW m \in Mutation PROVE (audited[m] + Cardinality(MayCopy(m)) <= Bound)'
    BY DEF Counted
  <2>1. event'[m] = "pending" <=> event[m] = "pending"
    BY <1>0, <1>1
  <2>2. MayCopy(m)' \subseteq MayCopy(m)
    BY <1>0, <2>1 DEF MayCopy, Owing, Past
  <2> QED
    BY <1>0, <2>2, CountKept
<1> QED
  BY <1>2, <1>3, <1>4 DEF Rows

\* A restart forgets the batches of a process and the events that were on their way.
LEMMA RestartCounts ==
    ASSUME CountInv, NEW p \in Process, ApiDies(p), UNCHANGED mix
    PROVE  Counted' /\ Rows'
<1>0. /\ event \in [Mutation -> EventState] /\ tick \in [Tick -> TickState]
      /\ writer \in [Mutation -> WriterState]
      /\ Fresh /\ InHand /\ Unpublished
      /\ IdleTick.todo = {} /\ IdleTick.e = NoMutation /\ IdleTick.pc = "idle"
      /\ NoMutation \notin Mutation
  BY OutboxAssumption
  DEF CountInv, CacheInv, OutboxInv, OutboxTypeOK, CacheTyped, IdleTick
<1>1. /\ \A m \in Mutation : event'[m] = event[m] \/ (event[m] = "sent" /\ event'[m] = "lost"
                                                       /\ writer[m].p = p)
      /\ \A t \in Tick : tick'[t] \in {IdleTick, tick[t]}
      /\ \A m \in Mutation : writer'[m].p = writer[m].p
      /\ UNCHANGED audited /\ faults' = faults + 1
  BY <1>0 DEF ApiDies, WriterState
<1>2. Counted'
  BY <1>1, FaultCounts
<1>3. Fresh'
  BY <1>0, <1>1 DEF Fresh, NotARow
<1>4. InHand'
  BY <1>0, <1>1 DEF InHand
<1>5. Unpublished'
  <2>1. p # NoProcess
    BY CacheAssumption
  <2> QED
    BY <1>1, <1>0, <2>1 DEF Unpublished
<1> QED
  BY <1>2, <1>3, <1>4, <1>5 DEF Rows

\* The cache neither publishes nor copies.
LEMMA CacheCounts ==
    ASSUME CountInv, UNCHANGED <<outboxVars, mix>>, faults' \in {faults, faults + 1},
           \A m \in Mutation : writer'[m].p = writer[m].p
    PROVE  Counted' /\ Rows'
<1>1. Rows'
  BY DEF Rows, Fresh, InHand, Unpublished, NotARow, CountInv, outboxVars
<1>2. CASE faults' = faults
  <2> SUFFICES ASSUME NEW m \in Mutation PROVE (audited[m] + Cardinality(MayCopy(m)) <= Bound)'
    BY <1>1 DEF Counted
  <2>1. MayCopy(m)' \subseteq MayCopy(m)
    BY DEF MayCopy, Owing, Past, outboxVars
  <2> QED
    BY <1>2, <2>1, CountKept DEF outboxVars
<1>3. CASE faults' = faults + 1
  BY <1>1, <1>3, FaultCounts DEF outboxVars
<1> QED
  BY <1>2, <1>3

LEMMA CountInvInit == Init => CountInv
<1> SUFFICES ASSUME Init PROVE Counted /\ Rows
  BY CacheInvInit DEF CountInv, Rows
<1>1. /\ mix \in Mixes /\ faults = 0
      /\ \A m \in Mutation : event[m] = "none" /\ audited[m] = 0
      /\ \A t \in Tick : tick[t] = IdleTick
  BY DEF Init, OutboxInit
<1>2. IdleTick.todo = {} /\ IdleTick.e = NoMutation /\ IdleTick.pc = "idle" /\ NoMutation \notin Mutation
  BY OutboxAssumption DEF IdleTick
<1>3. Rows
  BY <1>1, <1>2 DEF Rows, Fresh, InHand, Unpublished, NotARow
<1>4. ASSUME NEW m \in Mutation PROVE audited[m] + Cardinality(MayCopy(m)) <= Bound
  <2>1. Cardinality(MayCopy(m)) \in Nat /\ Cardinality(MayCopy(m)) <= Cardinality(mix.ticks)
        /\ Cardinality(mix.ticks) \in Nat
    BY <1>1, TicksFinite, MayCopyIn
  <2> DEFINE T == Cardinality(mix.ticks)
  <2>2. Bound = T * (1 + 0)
    BY <1>1 DEF Bound
  <2> HIDE DEF T
  <2>3. T * (1 + 0) = T
    BY <2>1 DEF T
  <2> QED
    BY <1>1, <2>1, <2>2, <2>3 DEF T
<1> QED
  BY <1>3, <1>4 DEF Counted

LEMMA CountInvNext == CountInv /\ [Next]_vars => CountInv'
<1> SUFFICES ASSUME CountInv, [Next]_vars PROVE Counted' /\ Rows'
  BY CacheInvNext DEF CountInv, Rows
<1>0. mix \in Mixes /\ writer \in [Mutation -> WriterState]
  BY DEF CountInv, CacheInv, CacheTyped, OutboxInv
<1>1. CASE UNCHANGED vars
  BY <1>1, CacheCounts DEF vars, cacheVars
<1>2. CASE Next
  <2>0. UNCHANGED mix
    BY <1>2 DEF Next
  <2>1. CASE OutboxStep /\ UNCHANGED cacheVars
    <3>1. ASSUME NEW m \in Mutation, RecordEvent(m) \/ RecordFails(m) PROVE Counted' /\ Rows'
      BY <2>0, <2>1, <3>1, RecordCounts
    <3>2. ASSUME NEW t \in mix.ticks, TickStep(t) PROVE Counted' /\ Rows'
      BY <2>0, <2>1, <3>2, StepCounts
    <3>3. ASSUME NEW t \in mix.ticks, TickFault(t) PROVE Counted' /\ Rows'
      BY <2>0, <2>1, <3>3, TickFaultRows, FaultCounts
    <3> QED
      BY <2>1, <3>1, <3>2, <3>3 DEF OutboxStep
  <2>2. ASSUME KeepOutbox, NEW q, NEW p, NEW r,
               Get(q, p, r) \/ ReaderStep(q) \/ ExpireStep, UNCHANGED faults
        PROVE  Counted' /\ Rows'
    <3>1. UNCHANGED writer
      BY <2>2 DEF Get, ReaderStep, ReadVersion, InitVersion, ReadEntry, ReadAgain, Load, StoreEntry,
                  Respond, ExpireStep, CloseBreaker, ExpireEntry
    <3> QED
      BY <2>0, <2>2, <3>1, CacheCounts DEF KeepOutbox
  <2>3. ASSUME KeepOutbox, NEW q, RedisFailsReader(q) PROVE Counted' /\ Rows'
    BY <2>0, <2>3, CacheCounts DEF KeepOutbox, RedisFailsReader
  <2>4. ASSUME KeepOutbox, NEW n \in Mutation, NEW k \in Key,
               (BumpScopeVersion(n, k) /\ UNCHANGED faults) \/ RedisFailsWriter(n, k)
        PROVE  Counted' /\ Rows'
    <3>1. writer' = [writer EXCEPT ![n] = Invalidated(n, k)] /\ k \in writer[n].todo
          /\ faults' \in {faults, faults + 1}
      BY <2>4 DEF BumpScopeVersion, RedisFailsWriter
    <3>2. Invalidated(n, k).p = writer[n].p
      BY <3>1, ToInvalidate DEF CountInv, CacheInv
    <3>3. \A m \in Mutation : writer'[m].p = writer[m].p
      BY <1>0, <3>1, <3>2
    <3> QED
      BY <2>0, <2>4, <3>1, <3>3, CacheCounts DEF KeepOutbox
  <2>5. ASSUME NEW m \in mix.mutations, NEW p \in mix.processes, NEW named \in mix.named,
               Mutate(m, p, named), UNCHANGED faults
        PROVE  Counted' /\ Rows'
    BY <1>0, <2>0, <2>5, CacheAssumption, MutateCounts
  <2>6. ASSUME NEW p \in mix.processes, ApiDies(p) PROVE Counted' /\ Rows'
    BY <1>0, <2>0, <2>6, CacheAssumption, RestartCounts
  <2> QED
    BY <1>2, <2>1, <2>2, <2>3, <2>4, <2>5, <2>6 DEF Next
<1> QED
  BY <1>1, <1>2

\* However ticks overlap, fail and are cut off, a mutation is copied at most once by each
\* tick, and once more by each after a fault (tick, processSingleEvent: the row is read as
\* pending, copied and only then marked).
THEOREM CopyBound == Spec => []CopiesBounded
<1>1. CountInv => CopiesBounded
  <2> SUFFICES ASSUME CountInv, NEW m \in Mutation
               PROVE  audited[m] <= Cardinality(mix.ticks) * (1 + faults)
    BY DEF CopiesBounded
  <2>1. mix \in Mixes /\ audited[m] \in Nat /\ faults \in Nat
    BY DEF CountInv, CacheInv, OutboxInv, OutboxTypeOK, CacheTyped
  <2> DEFINE T == Cardinality(mix.ticks)
  <2>2. Cardinality(MayCopy(m)) \in Nat /\ T \in Nat
    BY <2>1, TicksFinite, MayCopyIn
  <2>3. audited[m] + Cardinality(MayCopy(m)) <= T * (1 + faults)
    BY DEF CountInv, Counted, Bound
  <2> HIDE DEF T
  <2>4. T * (1 + faults) \in Nat
    BY <2>1, <2>2
  <2>5. audited[m] <= T * (1 + faults)
    BY <2>1, <2>2, <2>3, <2>4
  <2> QED
    BY <2>5 DEF T
<1> QED
  BY <1>1, CountInvInit, CountInvNext, PTL DEF Spec
----------------------------------------------------------------------------
(* What a reader gets *)

\* While nothing fails, all readers and mutations at work use one store.
Calm == OneMemory /\ faults = 0

Shelf == IF mix.redis \/ mix.processes = {} THEN Redis ELSE CHOOSE p \in mix.processes : TRUE

Held == entries[Shelf]

Latest == [r \in Resource |-> version[Shelf][KeyFor(r)]]

Seen == [r \in Resource |-> Settled(r)]

Going(r) == r.pc \in {"get", "again", "load", "set"}

\* Who works for a request or a mutation is one of the processes at work.
Placed ==
    /\ \A q \in Reader : reader[q].pc # "idle" => reader[q].p \in mix.processes
    /\ \A m \in Mutation : writer[m].todo # {} => writer[m].p \in mix.processes

\* The version is never missing from Redis, so nobody sets it back.
VersionsSet ==
    /\ mix.redis => \A k \in Key : version[Redis][k] > 0
    /\ \A q \in Reader : reader[q].pc # "init"

FloorsSettled == \A q \in Reader : reader[q].pc # "idle" => reader[q].floor \subseteq Seen[reader[q].r]

NoneAhead ==
    /\ \A q \in Reader : Going(reader[q]) => reader[q].v <= Latest[reader[q].r]
    /\ \A e \in Held : e.v <= Latest[e.r]

\* What is kept, or about to be, under the latest version has what was invalidated.
LatestSettled ==
    /\ \A e \in Held : e.v = Latest[e.r] => Seen[e.r] \subseteq e.value
    /\ \A q \in Reader : reader[q].pc = "set" /\ reader[q].v = Latest[reader[q].r]
                            => Seen[reader[q].r] \subseteq reader[q].value

\* What a reader with its version finds, or will find, has what it has to see: it is
\* older than the latest one only if the reader is.
FoundSettled ==
    \A q \in Reader : Going(reader[q]) =>
        /\ \A e \in Held : e.r = reader[q].r /\ e.v = reader[q].v => reader[q].floor \subseteq e.value
        /\ \A x \in Reader : reader[x].pc = "set" /\ reader[x].r = reader[q].r
                                /\ reader[x].v = reader[q].v => reader[q].floor \subseteq reader[x].value

AnswersSettled ==
    \A q \in Reader : reader[q].pc = "answer" => reader[q].floor \subseteq reader[q].value

Reads == VersionsSet /\ FloorsSettled /\ NoneAhead /\ LatestSettled /\ FoundSettled /\ AnswersSettled

ReadInv == CacheInv /\ Placed /\ (Calm => Reads)

LEMMA OneShelf ==
    ASSUME mix \in Mixes, Calm
    PROVE  Shelf \in Store /\ \A p \in mix.processes : Home(p) = Shelf
<1>1. mix.processes \subseteq Process
  BY CacheAssumption
<1>2. CASE mix.redis
  BY <1>2 DEF Home, Shelf, Store
<1>3. CASE ~mix.redis /\ mix.processes = {}
  BY <1>3 DEF Shelf, Store
<1>4. CASE ~mix.redis /\ mix.processes # {}
  <2>1. Shelf \in mix.processes
    BY <1>4 DEF Shelf
  <2> QED
    BY <1>1, <1>4, <2>1 DEF Home, Store, Calm, OneMemory
<1> QED
  BY <1>2, <1>3, <1>4

\* The parts of the state that the argument looks at, and when they stay.
LEMMA ReadTypes ==
    ASSUME ReadInv, Calm
    PROVE  /\ mix \in Mixes /\ Shelf \in Store
           /\ Held \in SUBSET EntryState
           /\ Latest \in [Resource -> Nat]
           /\ Seen \in [Resource -> SUBSET Mutation]
           /\ reader \in [Reader -> ReaderState] /\ \A q \in Reader : Sound(reader[q])
           /\ version \in [Store -> [Key -> Nat]] /\ entries \in [Store -> SUBSET EntryState]
           /\ \A p \in mix.processes : Home(p) = Shelf
           /\ mix.processes \subseteq Process
<1>1. mix \in Mixes /\ version \in [Store -> [Key -> Nat]] /\ entries \in [Store -> SUBSET EntryState]
      /\ reader \in [Reader -> ReaderState] /\ \A q \in Reader : Sound(reader[q])
  BY DEF ReadInv, CacheInv, OutboxInv, CacheTyped
<1>2. Shelf \in Store /\ \A p \in mix.processes : Home(p) = Shelf
  BY <1>1, OneShelf
<1>3. Latest \in [Resource -> Nat]
  BY <1>1, <1>2, KeyForType DEF Latest
<1>4. Seen \in [Resource -> SUBSET Mutation]
  BY DEF Seen, Settled, Current, Committed
<1> QED
  BY <1>1, <1>2, <1>3, <1>4, CacheAssumption DEF Held

LEMMA SeenSame ==
    ASSUME UNCHANGED writer
    PROVE  UNCHANGED Seen
<1>1. \A r \in Resource : Settled(r)' = Settled(r)
  BY DEF Settled, Current, Committed
<1> QED
  BY <1>1 DEF Seen

LEMMA ShelfSame ==
    ASSUME UNCHANGED <<version, entries, mix>>
    PROVE  UNCHANGED <<Shelf, Held, Latest>>
  BY DEF Shelf, Held, Latest

\* A reader that goes on, while the store and the mutations stay.
LEMMA ReaderReads ==
    ASSUME ReadInv, Calm, NEW q \in Reader, NEW rec, Sound(rec), SetReader(q, rec),
           UNCHANGED <<version, entries, writer, mix>>,
           rec.pc # "init",
           rec.pc # "idle" => rec.floor \subseteq Seen[rec.r],
           Going(rec) => /\ rec.v <= Latest[rec.r]
                         /\ \A e \in Held : e.r = rec.r /\ e.v = rec.v => rec.floor \subseteq e.value
                         /\ \A x \in Reader \ {q} :
                               reader[x].pc = "set" /\ reader[x].r = rec.r /\ reader[x].v = rec.v
                                  => rec.floor \subseteq reader[x].value,
           rec.pc = "set" => Seen[rec.r] \subseteq rec.value,
           rec.pc = "answer" => rec.floor \subseteq rec.value
    PROVE  Reads'
<1>1. UNCHANGED <<Shelf, Held, Latest, Seen>>
  BY ShelfSame, SeenSame
<1>2. \A x \in Reader : reader'[x] = IF x = q THEN rec ELSE reader[x]
  BY ReadTypes DEF SetReader
<1>3. /\ VersionsSet /\ FloorsSettled /\ NoneAhead /\ LatestSettled /\ FoundSettled /\ AnswersSettled
      /\ \A x \in Reader : reader[x] \in ReaderState
  BY ReadTypes DEF ReadInv, Reads
<1>4. VersionsSet'
  BY <1>2, <1>3 DEF VersionsSet
<1>5. FloorsSettled'
  BY <1>1, <1>2, <1>3 DEF FloorsSettled
<1>6. NoneAhead'
  BY <1>1, <1>2, <1>3 DEF NoneAhead
<1>7. LatestSettled'
  BY <1>1, <1>2, <1>3 DEF LatestSettled
<1>8. FoundSettled'
  <2> SUFFICES ASSUME NEW y \in Reader, Going(reader'[y])
               PROVE  /\ \A e \in Held : e.r = reader'[y].r /\ e.v = reader'[y].v
                                           => reader'[y].floor \subseteq e.value
                      /\ \A x \in Reader : reader'[x].pc = "set" /\ reader'[x].r = reader'[y].r
                                /\ reader'[x].v = reader'[y].v => reader'[y].floor \subseteq reader'[x].value
    BY <1>1 DEF FoundSettled, Going
  <2>1. \A e \in Held : e.r = reader'[y].r /\ e.v = reader'[y].v => reader'[y].floor \subseteq e.value
    BY <1>2, <1>3 DEF FoundSettled, Going
  <2>2. reader'[y].floor \subseteq Seen[reader'[y].r]
    BY <1>1, <1>5 DEF FloorsSettled, Going
  <2>3. ASSUME NEW x \in Reader, reader'[x].pc = "set", reader'[x].r = reader'[y].r,
               reader'[x].v = reader'[y].v
        PROVE  reader'[y].floor \subseteq reader'[x].value
    <3>1. CASE x = q
      BY <1>2, <2>2, <2>3, <3>1
    <3>2. CASE x # q /\ y = q
      BY <1>2, <2>3, <3>2
    <3>3. CASE x # q /\ y # q
      BY <1>2, <1>3, <2>3, <3>3 DEF FoundSettled
    <3> QED
      BY <3>1, <3>2, <3>3
  <2> QED
    BY <2>1, <2>3
<1>9. AnswersSettled'
  BY <1>2, <1>3 DEF AnswersSettled
<1> QED
  BY <1>4, <1>5, <1>6, <1>7, <1>8, <1>9 DEF Reads

LEMMA GetReads ==
    ASSUME ReadInv, Calm, NEW q \in Reader, NEW p \in mix.processes, NEW r \in Resource, Get(q, p, r),
           UNCHANGED mix
    PROVE  Reads'
<1> DEFINE rec == [IdleReader EXCEPT !.pc = "version", !.p = p, !.r = r, !.floor = Settled(r)]
<1>1. Settled(r) \subseteq Mutation /\ p \in Process /\ Seen[r] = Settled(r)
  BY ReadTypes DEF Settled, Current, Committed, Seen
<1>2. Sound(rec)
  BY <1>1 DEF Sound, ReaderState, IdleReader
<1>3. rec.pc = "version" /\ rec.floor = Seen[rec.r]
  BY <1>1 DEF IdleReader
<1>4. SetReader(q, rec) /\ UNCHANGED <<version, entries, writer>>
  BY DEF Get
<1> HIDE DEF rec
<1> QED
  BY <1>2, <1>3, <1>4, ReaderReads DEF Going

\* The version a reader gets from a calm store is the latest one.
LEMMA TakesLatest ==
    ASSUME ReadInv, Calm, NEW q \in Reader, reader[q].pc = "version",
           SetReader(q, [reader[q] EXCEPT !.pc = "get", !.v = Latest[reader[q].r]]),
           Latest[reader[q].r] > 0,
           UNCHANGED <<version, entries, writer, mix>>
    PROVE  Reads'
<1> DEFINE r == reader[q]  v == Latest[r.r]  rec == [r EXCEPT !.pc = "get", !.v = v]
<1>1. r \in ReaderState /\ Sound(r) /\ r.r \in Resource /\ v \in Nat
  BY ReadTypes DEF ReaderState
<1>2. /\ rec.pc = "get" /\ rec.v = v /\ rec.r = r.r /\ rec.floor = r.floor /\ rec.value = r.value
  BY <1>1 DEF ReaderState
<1>3. Sound(rec)
  <2>1. "get" \in {"init", "get"}
    OBVIOUS
  <2> HIDE DEF r, v
  <2> QED
    BY <1>1, <2>1, SoundAfter DEF r, v
<1>4. r.floor \subseteq Seen[r.r]
  BY DEF ReadInv, Reads, FloorsSettled
<1>5. \A e \in Held : e.r = r.r /\ e.v = v => r.floor \subseteq e.value
  BY <1>4 DEF ReadInv, Reads, LatestSettled
<1>6. \A x \in Reader \ {q} : reader[x].pc = "set" /\ reader[x].r = r.r /\ reader[x].v = v
                                 => r.floor \subseteq reader[x].value
  BY <1>4 DEF ReadInv, Reads, LatestSettled
<1> HIDE DEF r, rec
<1>7. SetReader(q, rec)
  BY DEF rec, r
<1>8. rec.v <= Latest[rec.r]
  BY <1>1, <1>2
<1> HIDE DEF v
<1> QED
  BY <1>2, <1>3, <1>4, <1>5, <1>6, <1>7, <1>8, ReaderReads

\* In memory a missing version becomes the first: nothing can have been kept under it.
LEMMA StartsVersion ==
    ASSUME ReadInv, Calm, NEW q \in Reader, reader[q].pc = "version",
           Latest[reader[q].r] = 0,
           SetReader(q, [reader[q] EXCEPT !.pc = "get", !.v = 1]),
           SetVersion(Shelf, KeyFor(reader[q].r), 1), ~mix.redis,
           UNCHANGED <<entries, writer, mix>>
    PROVE  Reads'
<1> DEFINE r == reader[q]  k == KeyFor(r.r)  rec == [r EXCEPT !.pc = "get", !.v = 1]
<1>1. r \in ReaderState /\ Sound(r) /\ r.r \in Resource /\ k \in Key
  BY ReadTypes, KeyForType DEF ReaderState
<1>2. /\ rec.pc = "get" /\ rec.v = 1 /\ rec.r = r.r /\ rec.floor = r.floor /\ rec.value = r.value
  BY <1>1 DEF ReaderState
<1>3. UNCHANGED <<Shelf, Held, Seen>>
  BY SeenSame DEF Shelf, Held
<1>4. \A x \in Resource : Latest'[x] = IF KeyFor(x) = k THEN 1 ELSE Latest[x]
  BY <1>1, <1>3, ReadTypes, KeyForType DEF SetVersion, Latest
<1>5. \A x \in Resource : KeyFor(x) = k => Latest[x] = 0
  BY <1>1 DEF Latest
<1> HIDE DEF k
<1>6. /\ FloorsSettled /\ NoneAhead /\ LatestSettled /\ FoundSettled /\ AnswersSettled
      /\ \A x \in Reader : reader[x] \in ReaderState /\ Sound(reader[x])
      /\ \A e \in Held : e \in EntryState
  BY ReadTypes DEF ReadInv, Reads
<1>7. \A e \in Held : KeyFor(e.r) # k /\ e.r \in Resource /\ e.v \in Nat
  BY <1>5, <1>6, ReadTypes DEF NoneAhead, EntryState
<1>8. \A x \in Reader : /\ reader[x].r \in Resource
                        /\ Going(reader[x]) => KeyFor(reader[x].r) # k /\ reader[x].v \in Nat
  BY <1>5, <1>6, ReadTypes DEF NoneAhead, Sound, Going, ReaderState
<1> HIDE DEF rec
<1>9. \A x \in Reader : reader'[x] = IF x = q THEN rec ELSE reader[x]
  BY ReadTypes DEF SetReader, rec
<1> HIDE DEF r
<1>10. VersionsSet'
  BY <1>2, <1>9 DEF VersionsSet, ReadInv, Reads
<1>11. FloorsSettled'
  BY <1>2, <1>3, <1>6, <1>9 DEF FloorsSettled, r
<1>12. NoneAhead'
  <2>1. \A e \in Held : e.v <= Latest'[e.r]
    BY <1>4, <1>6, <1>7 DEF NoneAhead
  <2>2. \A x \in Reader : Going(reader'[x]) => reader'[x].v <= Latest'[reader'[x].r]
    BY <1>1, <1>2, <1>4, <1>6, <1>8, <1>9 DEF NoneAhead, k
  <2> QED
    BY <1>3, <2>1, <2>2 DEF NoneAhead, Going
<1>13. LatestSettled'
  <2>1. \A e \in Held : e.v = Latest'[e.r] => Seen[e.r] \subseteq e.value
    BY <1>4, <1>6, <1>7 DEF LatestSettled
  <2>2. \A x \in Reader : reader'[x].pc = "set" /\ reader'[x].v = Latest'[reader'[x].r]
                            => Seen[reader'[x].r] \subseteq reader'[x].value
    BY <1>2, <1>4, <1>6, <1>8, <1>9 DEF LatestSettled, Going
  <2> QED
    BY <1>3, <2>1, <2>2 DEF LatestSettled
<1>14. FoundSettled'
  <2> SUFFICES ASSUME NEW y \in Reader, Going(reader'[y])
               PROVE  /\ \A e \in Held : e.r = reader'[y].r /\ e.v = reader'[y].v
                                           => reader'[y].floor \subseteq e.value
                      /\ \A x \in Reader : reader'[x].pc = "set" /\ reader'[x].r = reader'[y].r
                                /\ reader'[x].v = reader'[y].v => reader'[y].floor \subseteq reader'[x].value
    BY <1>3 DEF FoundSettled, Going
  <2>1. CASE y = q
    BY <1>2, <1>7, <1>8, <1>9, <2>1 DEF Going, k
  <2>2. CASE y # q
    BY <1>2, <1>6, <1>9, <2>2 DEF FoundSettled
  <2> QED
    BY <2>1, <2>2
<1>15. AnswersSettled'
  BY <1>2, <1>6, <1>9 DEF AnswersSettled
<1> QED
  BY <1>10, <1>11, <1>12, <1>13, <1>14, <1>15 DEF Reads

LEMMA ReadVersionReads ==
    ASSUME ReadInv, Calm, NEW q \in Reader, ReadVersion(q), UNCHANGED mix
    PROVE  Reads'
<1> DEFINE r == reader[q]  k == KeyFor(r.r)
<1>1. /\ r.pc = "version" /\ UNCHANGED <<entries, writer>>
      /\ r.r \in Resource /\ r.p \in mix.processes /\ Home(r.p) = Shelf
  BY ReadTypes DEF ReadVersion, ReadInv, Placed, ReaderState
<1>2. Latest[r.r] = version[Shelf][k] /\ Latest[r.r] \in Nat
  BY <1>1, ReadTypes DEF Latest
<1>3. CASE mix.redis
  <2>1. Shelf = Redis /\ version[Redis][k] > 0
    BY <1>1, <1>3, KeyForType DEF Shelf, ReadInv, Reads, VersionsSet
  <2>2. SetReader(q, [r EXCEPT !.pc = "get", !.v = Latest[r.r]]) /\ UNCHANGED version
    <3>1. /\ SetReader(q, [r EXCEPT !.pc = IF version[Redis][k] = 0 THEN "init" ELSE "get",
                                    !.v = version[Redis][k]])
          /\ UNCHANGED version
      BY <1>3 DEF ReadVersion
    <3>2. version[Redis][k] = Latest[r.r] /\ ~(Latest[r.r] = 0)
      BY <1>2, <2>1
    <3> HIDE DEF r, k
    <3> QED
      BY <3>1, <3>2
  <2> QED
    BY <1>1, <1>2, <2>1, <2>2, TakesLatest
<1>4. CASE ~mix.redis
  <2>1. Shelf = r.p
    BY <1>1, <1>4 DEF Home
  <2>2. /\ SetReader(q, [r EXCEPT !.pc = "get", !.v = LocalVersion(r.p, k)])
        /\ SetVersion(r.p, k, LocalVersion(r.p, k))
    BY <1>4 DEF ReadVersion, UseLocalVersion
  <2>3. CASE Latest[r.r] = 0
    <3>1. LocalVersion(r.p, k) = 1
      BY <1>2, <2>1, <2>3 DEF LocalVersion
    <3>2. /\ SetReader(q, [r EXCEPT !.pc = "get", !.v = 1])
          /\ SetVersion(Shelf, k, 1)
      BY <2>1, <2>2, <3>1
    <3> QED
      BY <1>1, <1>4, <2>3, <3>2, StartsVersion
  <2>4. CASE Latest[r.r] # 0
    <3>1. LocalVersion(r.p, k) = Latest[r.r]
      BY <1>2, <2>1, <2>4 DEF LocalVersion
    <3>2. version' = [version EXCEPT ![Shelf][k] = version[Shelf][k]]
      BY <1>2, <2>1, <2>2, <3>1 DEF SetVersion
    <3>3. k \in Key
      BY <1>1, KeyForType
    <3> HIDE DEF k
    <3>4. version' = version
      BY <3>2, <3>3, ReadTypes
    <3>5. Latest[r.r] > 0
      BY <1>2, <2>4
    <3>6. SetReader(q, [r EXCEPT !.pc = "get", !.v = Latest[r.r]])
      BY <2>2, <3>1
    <3> QED
      BY <1>1, <3>4, <3>5, <3>6, TakesLatest
  <2> QED
    BY <2>3, <2>4
<1> QED
  BY <1>3, <1>4

\* A reader that goes on with its version, its question and its floor.
LEMMA GoesOn ==
    ASSUME ReadInv, Calm, NEW q \in Reader, Going(reader[q]),
           NEW pc \in {"again", "load", "bypass"},
           ReaderAt(q, pc), UNCHANGED <<version, entries, writer, mix>>
    PROVE  Reads'
<1> DEFINE r == reader[q]  rec == [r EXCEPT !.pc = pc]
<1>1. r \in ReaderState /\ Sound(r) /\ r.v > 0
  BY ReadTypes DEF Sound, Going
<1>2. /\ rec.pc = pc /\ rec.v = r.v /\ rec.r = r.r /\ rec.floor = r.floor /\ rec.value = r.value
  BY <1>1 DEF ReaderState
<1>3. Sound(rec)
  BY <1>1, SoundAt DEF Going
<1>4. /\ r.floor \subseteq Seen[r.r] /\ r.v <= Latest[r.r]
      /\ \A e \in Held : e.r = r.r /\ e.v = r.v => r.floor \subseteq e.value
      /\ \A x \in Reader \ {q} : reader[x].pc = "set" /\ reader[x].r = r.r /\ reader[x].v = r.v
                                   => r.floor \subseteq reader[x].value
  BY DEF ReadInv, Reads, FloorsSettled, NoneAhead, FoundSettled, Going
<1>5. SetReader(q, rec)
  BY DEF ReaderAt
<1> HIDE DEF r, rec
<1> QED
  BY <1>2, <1>3, <1>4, <1>5, ReaderReads

LEMMA AnswerReads ==
    ASSUME ReadInv, Calm, NEW q \in Reader, reader[q].pc \in {"get", "again"},
           NEW pc \in {"again", "load", "bypass"}, AnswerOr(q, pc),
           UNCHANGED <<version, entries, writer, mix>>
    PROVE  Reads'
<1> DEFINE r == reader[q]
<1>1. CASE ReaderAt(q, pc)
  BY <1>1, GoesOn DEF Going
<1>2. ASSUME NEW e \in Hits(Home(r.p), r.r, r.v),
             SetReader(q, [r EXCEPT !.pc = "answer", !.value = e.value])
      PROVE  Reads'
  <2> DEFINE rec == [r EXCEPT !.pc = "answer", !.value = e.value]
  <2>1. r \in ReaderState /\ Sound(r) /\ Home(r.p) = Shelf /\ Going(r)
    BY ReadTypes DEF ReadInv, Placed, Going
  <2>2. e \in Held /\ e.r = r.r /\ e.v = r.v /\ e.value \in SUBSET Mutation
    BY <2>1, ReadTypes DEF Hits, Matches, Held, EntryState
  <2>3. rec.pc = "answer" /\ rec.r = r.r /\ rec.floor = r.floor /\ rec.value = e.value
    BY <2>1 DEF ReaderState
  <2>4. Sound(rec)
    BY <2>1, <2>2 DEF Sound, ReaderState, Going
  <2>5. r.floor \subseteq Seen[r.r] /\ r.floor \subseteq e.value
    BY <2>1, <2>2 DEF ReadInv, Reads, FloorsSettled, FoundSettled, Going
  <2>6. SetReader(q, rec)
    BY <1>2
  <2> HIDE DEF r, rec
  <2> QED
    BY <2>3, <2>4, <2>5, <2>6, ReaderReads DEF Going
<1> QED
  BY <1>1, <1>2 DEF AnswerOr

\* What is loaded has every mutation that invalidated the answer before.
LEMMA LoadReads ==
    ASSUME ReadInv, Calm, NEW q \in Reader, Load(q), UNCHANGED mix
    PROVE  Reads'
<1> DEFINE r == reader[q]
           rec == [r EXCEPT !.pc = IF @ = "load" THEN "set" ELSE "answer", !.value = Current(r.r)]
<1>1. r \in ReaderState /\ Sound(r) /\ r.r \in Resource /\ r.pc \in {"load", "bypass"}
  BY ReadTypes DEF Load, ReaderState
<1>2. Current(r.r) \subseteq Mutation /\ Seen[r.r] \subseteq Current(r.r)
  BY <1>1 DEF Current, Committed, Seen, Settled
<1>3. /\ rec.pc = IF r.pc = "load" THEN "set" ELSE "answer"
      /\ rec.v = r.v /\ rec.r = r.r /\ rec.floor = r.floor /\ rec.value = Current(r.r)
  BY <1>1 DEF ReaderState
<1>4. Sound(rec)
  BY <1>1, <1>2 DEF Sound, ReaderState
<1>5. r.floor \subseteq Seen[r.r]
  BY <1>1 DEF ReadInv, Reads, FloorsSettled
<1>6. r.pc = "load" =>
        /\ r.v <= Latest[r.r]
        /\ \A e \in Held : e.r = r.r /\ e.v = r.v => r.floor \subseteq e.value
        /\ \A x \in Reader \ {q} : reader[x].pc = "set" /\ reader[x].r = r.r /\ reader[x].v = r.v
                                     => r.floor \subseteq reader[x].value
  BY DEF ReadInv, Reads, NoneAhead, FoundSettled, Going
<1>7. SetReader(q, rec) /\ UNCHANGED <<version, entries, writer>>
  BY DEF Load
<1> HIDE DEF r, rec
<1> QED
  BY <1>1, <1>2, <1>3, <1>4, <1>5, <1>6, <1>7, ReaderReads DEF Going

LEMMA RespondReads ==
    ASSUME ReadInv, Calm, NEW q \in Reader, Respond(q), UNCHANGED mix
    PROVE  Reads'
<1>1. Sound(IdleReader) /\ IdleReader.pc = "idle"
  BY DEF Sound, IdleReader, ReaderState, Resource, Key
<1>2. SetReader(q, IdleReader) /\ UNCHANGED <<version, entries, writer>>
  BY DEF Respond
<1> QED
  BY <1>1, <1>2, ReaderReads DEF Going

\* Entries that stay or go, and perhaps the one that a reader has just kept.
LEMMA StoreReads ==
    ASSUME ReadInv, Calm, NEW q \in Reader, StoreEntry(q), UNCHANGED mix
    PROVE  Reads'
<1> DEFINE r == reader[q]  new == Entry(r.r, r.v, r.value)
<1>1. /\ r \in ReaderState /\ Sound(r) /\ r.pc = "set" /\ Going(r) /\ Home(r.p) = Shelf
      /\ UNCHANGED <<version, writer>>
  BY ReadTypes DEF StoreEntry, ReadInv, Placed, Going
<1>2. UNCHANGED <<Shelf, Latest, Seen>>
  BY <1>1, SeenSame DEF Shelf, Latest
<1>3. Held' \subseteq Held \cup {new}
  <2>1. entries' = entries \/ entries' = Kept(r)
    BY DEF StoreEntry
  <2> HIDE DEF new
  <2>2. entries' = Kept(r) => entries'[Shelf] = (entries[Shelf] \ Hits(Shelf, r.r, r.v)) \cup {new}
    BY <1>1, ReadTypes DEF Kept, new
  <2> QED
    BY <1>2, <2>1, <2>2 DEF Held
<1>4. new.r = r.r /\ new.v = r.v /\ new.value = r.value
  BY DEF Entry
<1>5. /\ VersionsSet /\ FloorsSettled /\ NoneAhead /\ LatestSettled /\ FoundSettled /\ AnswersSettled
      /\ \A x \in Reader : reader[x] \in ReaderState
  BY ReadTypes DEF ReadInv, Reads
<1> DEFINE rec == [r EXCEPT !.pc = "answer"]
<1>6. rec.pc = "answer" /\ rec.r = r.r /\ rec.floor = r.floor /\ rec.value = r.value
  BY <1>1 DEF ReaderState
<1>7. \A x \in Reader : reader'[x] = IF x = q THEN rec ELSE reader[x]
  BY ReadTypes DEF StoreEntry, ReaderAt, SetReader
<1>8. r.v <= Latest[r.r] /\ (r.v = Latest[r.r] => Seen[r.r] \subseteq r.value)
      /\ r.floor \subseteq r.value
  BY <1>1, <1>5 DEF NoneAhead, LatestSettled, FoundSettled
<1>9. \A y \in Reader : Going(reader[y]) /\ reader[y].r = r.r /\ reader[y].v = r.v
                           => reader[y].floor \subseteq r.value
  BY <1>1, <1>5 DEF FoundSettled
<1> HIDE DEF rec, new
<1>10. VersionsSet'
  BY <1>1, <1>5, <1>6, <1>7 DEF VersionsSet
<1>11. FloorsSettled'
  BY <1>1, <1>2, <1>5, <1>6, <1>7 DEF FloorsSettled
<1>12. NoneAhead'
  BY <1>2, <1>3, <1>4, <1>5, <1>6, <1>7, <1>8 DEF NoneAhead, Going
<1>13. LatestSettled'
  BY <1>2, <1>3, <1>4, <1>5, <1>6, <1>7, <1>8 DEF LatestSettled
<1>14. FoundSettled'
  <2> SUFFICES ASSUME NEW y \in Reader, Going(reader'[y])
               PROVE  /\ \A e \in Held' : e.r = reader'[y].r /\ e.v = reader'[y].v
                                           => reader'[y].floor \subseteq e.value
                      /\ \A x \in Reader : reader'[x].pc = "set" /\ reader'[x].r = reader'[y].r
                                /\ reader'[x].v = reader'[y].v => reader'[y].floor \subseteq reader'[x].value
    BY DEF FoundSettled, Going
  <2>1. y # q /\ reader'[y] = reader[y] /\ Going(reader[y])
    BY <1>6, <1>7 DEF Going
  <2>2. \A e \in Held' : e.r = reader[y].r /\ e.v = reader[y].v => reader[y].floor \subseteq e.value
    BY <1>3, <1>4, <1>5, <1>9, <2>1 DEF FoundSettled
  <2>3. \A x \in Reader : reader'[x].pc = "set" => reader'[x] = reader[x]
    BY <1>6, <1>7
  <2> QED
    BY <1>5, <2>1, <2>2, <2>3 DEF FoundSettled
<1>15. AnswersSettled'
  BY <1>5, <1>6, <1>7, <1>8 DEF AnswersSettled
<1> QED
  BY <1>10, <1>11, <1>12, <1>13, <1>14, <1>15 DEF Reads

\* Entries that expire, and steps that leave versions, readers and mutations alone.
LEMMA ExpiryReads ==
    ASSUME ReadInv, Calm, Held' \subseteq Held, UNCHANGED <<version, reader, mix, Seen>>
    PROVE  Reads'
<1>1. UNCHANGED <<Shelf, Latest>>
  BY DEF Shelf, Latest
<1>2. VersionsSet /\ FloorsSettled /\ NoneAhead /\ LatestSettled /\ FoundSettled /\ AnswersSettled
  BY DEF ReadInv, Reads
<1>3. VersionsSet' /\ FloorsSettled' /\ AnswersSettled'
  BY <1>2 DEF VersionsSet, FloorsSettled, AnswersSettled
<1>4. NoneAhead' /\ LatestSettled' /\ FoundSettled'
  BY <1>1, <1>2 DEF NoneAhead, LatestSettled, FoundSettled
<1> QED
  BY <1>3, <1>4 DEF Reads

\* A mutation that was just made has invalidated nothing.
LEMMA MutateSeen ==
    ASSUME ReadInv, NEW m \in Mutation, NEW p, NEW named, Mutate(m, p, named)
    PROVE  \A r \in Resource : Settled(r)' \subseteq Settled(r)
<1> SUFFICES ASSUME NEW r \in Resource, NEW n \in Settled(r)' PROVE n \in Settled(r)
  OBVIOUS
<1>1. /\ writer' = [writer EXCEPT ![m] = [p |-> p, todo |-> KeysToInvalidate(m, named), done |-> {}]]
      /\ writer \in [Mutation -> WriterState]
  BY DEF Mutate, ReadInv, CacheInv, CacheTyped
<1>2. r # Trail /\ n \in Mutation /\ r \in writer'[n].done /\ writer'[n].p # NoProcess
      /\ (r = Global \/ CompanyOf[n] = r)
  BY DEF Settled, Current, Committed
<1>3. n # m
  BY <1>1, <1>2
<1>4. writer'[n] = writer[n]
  BY <1>1, <1>3
<1> QED
  BY <1>2, <1>4 DEF Settled, Current, Committed

LEMMA MutateReads ==
    ASSUME ReadInv, Calm, NEW m \in Mutation, NEW p, NEW named, Mutate(m, p, named), UNCHANGED mix
    PROVE  Reads'
<1>1. \A r \in Resource : Settled(r)' = Settled(r)
  <2> SUFFICES ASSUME NEW r \in Resource PROVE Settled(r) \subseteq Settled(r)'
    BY MutateSeen
  <2>1. writer \in [Mutation -> WriterState] /\ m \notin Committed
    BY DEF ReadInv, CacheInv, CacheTyped, Mutate
  <2>2. \A n \in Settled(r) : n \in Mutation /\ n # m /\ writer'[n] = writer[n]
    BY <2>1 DEF Settled, Current, Committed, Mutate
  <2> QED
    BY <2>2 DEF Settled, Current, Committed
<1>2. UNCHANGED Seen
  BY <1>1 DEF Seen
<1>3. Held' \subseteq Held /\ UNCHANGED <<version, reader>>
  BY DEF Mutate, Held, Shelf
<1> QED
  BY <1>2, <1>3, ExpiryReads

\* An invalidation makes everything that is kept older than the latest version.
LEMMA BumpReads ==
    ASSUME ReadInv, Calm, NEW m \in Mutation, NEW k \in Key, BumpScopeVersion(m, k), UNCHANGED mix
    PROVE  Reads'
<1>1. /\ k \in writer[m].todo /\ writer[m].p \in mix.processes /\ Home(writer[m].p) = Shelf
      /\ writer \in [Mutation -> WriterState]
  BY ReadTypes DEF BumpScopeVersion, ReadInv, Placed, CacheInv, CacheTyped
<1>2. /\ version' = [version EXCEPT ![Shelf][k] = version[Shelf][k] + 1]
      /\ writer' = [writer EXCEPT ![m] = Invalidated(m, k)]
      /\ UNCHANGED <<entries, reader>>
  BY <1>1 DEF BumpScopeVersion, SetVersion
<1>3. UNCHANGED <<Shelf, Held>>
  BY <1>2 DEF Shelf, Held
<1>4. \A x \in Resource : Latest'[x] = IF KeyFor(x) = k THEN Latest[x] + 1 ELSE Latest[x]
  BY <1>2, <1>3, ReadTypes, KeyForType DEF Latest
<1>5. \A n \in Mutation : /\ writer'[n].p = writer[n].p
                          /\ writer[n].done \subseteq writer'[n].done
                          /\ writer'[n].done \subseteq writer[n].done \cup {k}
  BY <1>1, <1>2 DEF Invalidated, WriterState
<1>6. \A x \in Resource : /\ Seen[x] \subseteq Seen'[x]
                          /\ KeyFor(x) # k => Seen'[x] = Seen[x]
  <2> SUFFICES ASSUME NEW x \in Resource
               PROVE  /\ Settled(x) \subseteq Settled(x)'
                      /\ KeyFor(x) # k => Settled(x)' \subseteq Settled(x)
    BY DEF Seen
  <2>1. Settled(x) \subseteq Settled(x)'
    BY <1>5 DEF Settled, Current, Committed
  <2>2. ASSUME KeyFor(x) # k PROVE Settled(x)' \subseteq Settled(x)
    BY <1>5, <2>2 DEF Settled, Current, Committed, KeyFor
  <2> QED
    BY <2>1, <2>2
<1>7. /\ VersionsSet /\ FloorsSettled /\ NoneAhead /\ LatestSettled /\ FoundSettled /\ AnswersSettled
      /\ \A x \in Reader : reader[x].r \in Resource /\ reader[x].v \in Nat
      /\ \A e \in Held : e.r \in Resource /\ e.v \in Nat
      /\ \A x \in Resource : Latest[x] \in Nat
  BY ReadTypes DEF ReadInv, Reads, EntryState, ReaderState
<1>8. VersionsSet'
  <2>1. version \in [Store -> [Key -> Nat]] /\ Redis \in Store
    BY ReadTypes DEF Store
  <2>2. \A x \in Key : version'[Redis][x] = version[Redis][x] \/ version'[Redis][x] = version[Redis][x] + 1
    BY <1>2, <2>1, ReadTypes
  <2> QED
    BY <1>2, <1>7, <2>1, <2>2 DEF VersionsSet
<1>9. FloorsSettled'
  BY <1>2, <1>6, <1>7 DEF FloorsSettled
<1>10. NoneAhead'
  <2>1. \A x \in Resource : Latest[x] <= Latest'[x] /\ Latest'[x] \in Nat
    BY <1>4, <1>7
  <2>2. \A e \in Held : e.v <= Latest'[e.r]
    BY <1>7, <2>1 DEF NoneAhead
  <2>3. \A x \in Reader : Going(reader[x]) => reader[x].v <= Latest'[reader[x].r]
    BY <1>7, <2>1 DEF NoneAhead
  <2> QED
    BY <1>2, <1>3, <2>2, <2>3 DEF NoneAhead, Going
<1>11. LatestSettled'
  <2>1. \A e \in Held : e.v = Latest'[e.r] => KeyFor(e.r) # k
    BY <1>4, <1>7 DEF NoneAhead
  <2>2. \A x \in Reader : reader[x].pc = "set" /\ reader[x].v = Latest'[reader[x].r]
                            => KeyFor(reader[x].r) # k
    BY <1>4, <1>7 DEF NoneAhead, Going
  <2>3. \A e \in Held : e.v = Latest'[e.r] => Seen'[e.r] \subseteq e.value
    BY <1>4, <1>6, <1>7, <2>1 DEF LatestSettled
  <2>4. \A x \in Reader : reader[x].pc = "set" /\ reader[x].v = Latest'[reader[x].r]
                            => Seen'[reader[x].r] \subseteq reader[x].value
    BY <1>4, <1>6, <1>7, <2>2 DEF LatestSettled
  <2> QED
    BY <1>2, <1>3, <2>3, <2>4 DEF LatestSettled
<1>12. FoundSettled' /\ AnswersSettled'
  BY <1>2, <1>3, <1>7 DEF FoundSettled, AnswersSettled, Going
<1> QED
  BY <1>8, <1>9, <1>10, <1>11, <1>12 DEF Reads

\* A request or a mutation stays with its process until it ends.
LEMMA PlacedKept ==
    ASSUME ReadInv, UNCHANGED mix,
           \A q \in Reader : reader'[q].pc # "idle" =>
              (reader[q].pc # "idle" /\ reader'[q].p = reader[q].p) \/ reader'[q].p \in mix.processes,
           \A m \in Mutation : writer'[m].todo # {} =>
              (writer[m].todo # {} /\ writer'[m].p = writer[m].p) \/ writer'[m].p \in mix.processes
    PROVE  Placed'
  BY DEF ReadInv, Placed

LEMMA ReaderStaysPut ==
    ASSUME ReadInv, UNCHANGED <<writer, mix>>, NEW q \in Reader, NEW rec, SetReader(q, rec),
           reader[q].pc # "idle", rec.p = reader[q].p \/ rec.pc = "idle"
    PROVE  Placed'
<1>1. \A x \in Reader : reader'[x] = IF x = q THEN rec ELSE reader[x]
  BY DEF SetReader, ReadInv, CacheInv, CacheTyped
<1> QED
  BY <1>1, PlacedKept

LEMMA ReaderPlaced ==
    ASSUME ReadInv, UNCHANGED <<writer, mix>>, NEW q \in Reader,
           ReaderStep(q) \/ RedisFailsReader(q)
    PROVE  Placed'
<1> DEFINE r == reader[q]
<1>1. r \in ReaderState
  BY DEF ReadInv, CacheInv, CacheTyped
<1>2. ASSUME NEW pc, ReaderAt(q, pc), r.pc # "idle" PROVE Placed'
  <2>1. [r EXCEPT !.pc = pc].p = r.p
    BY <1>1 DEF ReaderState
  <2> QED
    BY <1>2, <2>1, ReaderStaysPut DEF ReaderAt
<1>3. ASSUME NEW pc, NEW v, SetReader(q, [r EXCEPT !.pc = pc, !.v = v]), r.pc # "idle" PROVE Placed'
  <2>1. [r EXCEPT !.pc = pc, !.v = v].p = r.p
    BY <1>1 DEF ReaderState
  <2> QED
    BY <1>3, <2>1, ReaderStaysPut
<1>4. ASSUME NEW pc, NEW v, SetReader(q, [r EXCEPT !.pc = pc, !.value = v]), r.pc # "idle" PROVE Placed'
  <2>1. [r EXCEPT !.pc = pc, !.value = v].p = r.p
    BY <1>1 DEF ReaderState
  <2> QED
    BY <1>4, <2>1, ReaderStaysPut
<1>5. ASSUME NEW pc, AnswerOr(q, pc), r.pc # "idle" PROVE Placed'
  <2>1. CASE ReaderAt(q, pc)
    BY <1>2, <1>5, <2>1
  <2>2. ASSUME NEW e, SetReader(q, [r EXCEPT !.pc = "answer", !.value = e.value]) PROVE Placed'
    BY <1>4, <1>5, <2>2
  <2> QED
    BY <1>5, <2>1, <2>2 DEF AnswerOr
<1>6. CASE ReadVersion(q)
  <2> DEFINE v == version[Redis][KeyFor(r.r)]
  <2>1. r.pc # "idle"
    BY <1>6 DEF ReadVersion
  <2>2. CASE SetReader(q, [r EXCEPT !.pc = "get", !.v = LocalVersion(r.p, KeyFor(r.r))])
    BY <1>3, <2>1, <2>2
  <2>3. CASE SetReader(q, [r EXCEPT !.pc = IF v = 0 THEN "init" ELSE "get", !.v = v])
    BY <1>3, <2>1, <2>3
  <2> QED
    BY <1>6, <2>2, <2>3 DEF ReadVersion, UseLocalVersion
<1>7. CASE InitVersion(q)
  <2>1. r.pc # "idle" /\ SetReader(q, [r EXCEPT !.pc = "get", !.v = 1])
    BY <1>7 DEF InitVersion
  <2> QED
    BY <1>3, <2>1
<1>8. CASE ReadEntry(q) \/ ReadAgain(q)
  <2>1. r.pc # "idle" /\ \E pc \in {"again", "load", "bypass"} : AnswerOr(q, pc)
    BY <1>8 DEF ReadEntry, ReadAgain
  <2> QED
    BY <1>5, <2>1
<1>9. CASE Load(q)
  <2>1. /\ r.pc # "idle"
        /\ SetReader(q, [r EXCEPT !.pc = IF r.pc = "load" THEN "set" ELSE "answer",
                                  !.value = Current(r.r)])
    BY <1>9 DEF Load
  <2> QED
    BY <1>4, <2>1
<1>10. CASE StoreEntry(q)
  BY <1>2, <1>10 DEF StoreEntry
<1>11. CASE Respond(q)
  <2>1. r.pc # "idle" /\ SetReader(q, IdleReader) /\ IdleReader.pc = "idle"
    BY <1>11 DEF Respond, IdleReader
  <2> QED
    BY <2>1, ReaderStaysPut
<1>12. CASE RedisFailsReader(q)
  <2>1. r.pc # "idle"
    BY <1>12 DEF RedisFailsReader
  <2>2. CASE SetReader(q, [r EXCEPT !.pc = "get", !.v = LocalVersion(r.p, KeyFor(r.r))])
    BY <1>3, <2>1, <2>2
  <2> QED
    BY <1>2, <1>12, <2>1, <2>2 DEF RedisFailsReader
<1> QED
  BY <1>6, <1>7, <1>8, <1>9, <1>10, <1>11, <1>12 DEF ReaderStep

LEMMA PlacedNext ==
    ASSUME ReadInv, Next
    PROVE  Placed'
<1>0. /\ UNCHANGED mix /\ mix \in Mixes
      /\ reader \in [Reader -> ReaderState] /\ writer \in [Mutation -> WriterState]
  BY DEF Next, ReadInv, CacheInv, OutboxInv, CacheTyped
<1>1. CASE UNCHANGED <<reader, writer>>
  BY <1>0, <1>1, PlacedKept
<1>2. ASSUME NEW q \in mix.readers, NEW p \in mix.processes, NEW r \in mix.asked, Get(q, p, r)
      PROVE  Placed'
  <2> DEFINE rec == [IdleReader EXCEPT !.pc = "version", !.p = p, !.r = r, !.floor = Settled(r)]
  <2>1. rec.p = p
    BY DEF IdleReader
  <2>2. reader' = [reader EXCEPT ![q] = rec] /\ UNCHANGED writer
    BY <1>2 DEF Get, SetReader
  <2> HIDE DEF rec
  <2>3. \A x \in Reader : reader'[x] = IF x = q THEN rec ELSE reader[x]
    BY <1>0, <2>2
  <2> QED
    BY <1>0, <2>1, <2>2, <2>3, PlacedKept
<1>3. ASSUME NEW q \in mix.readers, ReaderStep(q) \/ RedisFailsReader(q) PROVE Placed'
  <2>1. UNCHANGED writer
    BY <1>3 DEF ReaderStep, ReadVersion, InitVersion, ReadEntry, ReadAgain, Load, StoreEntry,
                Respond, RedisFailsReader
  <2> QED
    BY <1>0, <1>3, <2>1, CacheAssumption, ReaderPlaced
<1>4. ASSUME NEW m \in mix.mutations, NEW p \in mix.processes, NEW named, Mutate(m, p, named)
      PROVE  Placed'
  <2>1. \A n \in Mutation : writer'[n] = writer[n] \/ writer'[n].p = p
    BY <1>0, <1>4 DEF Mutate
  <2> QED
    BY <1>0, <1>4, <2>1, PlacedKept DEF Mutate
<1>5. ASSUME NEW m \in Mutation, NEW k \in Key, BumpScopeVersion(m, k) \/ RedisFailsWriter(m, k)
      PROVE  Placed'
  <2>1. /\ writer' = [writer EXCEPT ![m] = Invalidated(m, k)] /\ k \in writer[m].todo
        /\ UNCHANGED reader
    BY <1>5 DEF BumpScopeVersion, RedisFailsWriter
  <2>2. Invalidated(m, k).p = writer[m].p
    BY <2>1, ToInvalidate DEF ReadInv, CacheInv
  <2> QED
    BY <1>0, <2>1, <2>2, PlacedKept
<1>6. ASSUME NEW p, ApiDies(p) PROVE Placed'
  <2>1. /\ \A q \in Reader : reader'[q] = reader[q] \/ reader'[q].pc = "idle"
        /\ \A m \in Mutation : writer'[m] = writer[m] \/ writer'[m].todo = {}
    BY <1>0, <1>6 DEF ApiDies, IdleReader, WriterState
  <2> QED
    BY <1>0, <2>1, PlacedKept
<1> QED
  BY <1>1, <1>2, <1>3, <1>4, <1>5, <1>6
  DEF Next, cacheVars, ExpireStep, CloseBreaker, ExpireEntry

\* A calm state comes from a calm one: faults are counted and never taken back.
LEMMA CalmBefore ==
    ASSUME ReadInv, Next, Calm'
    PROVE  Calm /\ UNCHANGED faults
<1>1. faults \in Nat /\ UNCHANGED mix /\ faults' = 0
  BY DEF ReadInv, CacheInv, CacheTyped, Next, Calm
<1>2. faults' \in {faults, faults + 1}
  BY DEF Next, OutboxStep, RecordEvent, RecordFails, TickStep, TickFault, StartTick, SchemaReady,
         FindPending, NextRow, CopyRow, MarkRow, SaveStatus, EndTick, SchemaFails, TickFails,
         RedisFailsReader, RedisFailsWriter, ApiDies
<1> QED
  BY <1>1, <1>2 DEF Calm, OneMemory

LEMMA ReadsNext ==
    ASSUME ReadInv, Next, Calm'
    PROVE  Reads'
<1>0. Calm /\ UNCHANGED <<mix, faults>> /\ mix \in Mixes /\ faults \in Nat
  BY CalmBefore DEF Next, ReadInv, CacheInv, OutboxInv, CacheTyped
<1>1. CASE UNCHANGED cacheVars
  BY <1>0, <1>1, ExpiryReads, SeenSame DEF cacheVars, Held, Shelf
<1>2. ASSUME NEW q \in mix.readers, NEW p \in mix.processes, NEW r \in mix.asked, Get(q, p, r)
      PROVE  Reads'
  BY <1>0, <1>2, CacheAssumption, GetReads
<1>3. ASSUME NEW q \in mix.readers, ReaderStep(q) PROVE Reads'
  <2>1. q \in Reader
    BY <1>0, CacheAssumption
  <2>2. CASE InitVersion(q)
    BY <1>0, <2>1, <2>2 DEF InitVersion, ReadInv, Reads, VersionsSet
  <2>3. CASE ReadEntry(q)
    <3>1. PICK pc \in {"again", "load", "bypass"} : AnswerOr(q, pc)
      BY <2>3 DEF ReadEntry
    <3> QED
      BY <1>0, <2>1, <2>3, <3>1, AnswerReads DEF ReadEntry
  <2>4. CASE ReadAgain(q)
    BY <1>0, <2>1, <2>4, AnswerReads DEF ReadAgain
  <2> QED
    BY <1>0, <1>3, <2>1, <2>2, <2>3, <2>4, ReadVersionReads, LoadReads, StoreReads, RespondReads
    DEF ReaderStep
<1>4. ASSUME NEW q, RedisFailsReader(q) PROVE Reads'
  BY <1>0, <1>4 DEF RedisFailsReader
<1>5. ASSUME NEW m \in mix.mutations, NEW p, NEW named, Mutate(m, p, named) PROVE Reads'
  BY <1>0, <1>5, CacheAssumption, MutateReads
<1>6. ASSUME NEW m \in Mutation, NEW k \in Key, BumpScopeVersion(m, k) \/ RedisFailsWriter(m, k)
      PROVE  Reads'
  <2>1. BumpScopeVersion(m, k)
    BY <1>0, <1>6 DEF RedisFailsWriter
  <2> QED
    BY <1>0, <2>1, BumpReads
<1>7. ASSUME ExpireStep PROVE Reads'
  <2>1. Held' \subseteq Held /\ UNCHANGED <<version, reader, writer>>
    <3>1. entries \in [Store -> SUBSET EntryState]
      BY DEF ReadInv, CacheInv, CacheTyped
    <3>2. UNCHANGED Shelf /\ Shelf \in Store
      BY <1>0, OneShelf DEF Shelf
    <3> QED
      BY <1>7, <3>1, <3>2 DEF ExpireStep, CloseBreaker, ExpireEntry, Held
  <2> QED
    BY <1>0, <2>1, ExpiryReads, SeenSame
<1>8. ASSUME NEW p, ApiDies(p) PROVE Reads'
  BY <1>0, <1>8 DEF ApiDies
<1> QED
  BY <1>1, <1>2, <1>3, <1>4, <1>5, <1>6, <1>7, <1>8 DEF Next

LEMMA ReadInvInit == Init => ReadInv
<1> SUFFICES ASSUME Init PROVE Placed /\ (Calm => Reads)
  BY CacheInvInit DEF ReadInv
<1>1. /\ \A q \in Reader : reader[q].pc = "idle"
      /\ \A m \in Mutation : writer[m].todo = {}
      /\ \A s \in Store : entries[s] = {}
  BY DEF Init, CacheInit, IdleReader, IdleWriter
<1>2. ASSUME Calm PROVE Reads
  <2>1. Held = {}
    BY <1>1, <1>2, OneShelf DEF Init, Held
  <2>2. mix.redis => \A k \in Key : version[Redis][k] > 0
    BY <1>2 DEF Init, CacheInit, Calm, OneMemory, Store
  <2>3. VersionsSet
    BY <1>1, <2>2 DEF VersionsSet
  <2>4. FloorsSettled /\ NoneAhead /\ LatestSettled /\ FoundSettled /\ AnswersSettled
    BY <1>1, <2>1 DEF FloorsSettled, NoneAhead, LatestSettled, FoundSettled, AnswersSettled, Going
  <2> QED
    BY <2>3, <2>4 DEF Reads
<1> QED
  BY <1>1, <1>2 DEF Placed

LEMMA ReadInvNext == ReadInv /\ [Next]_vars => ReadInv'
<1> SUFFICES ASSUME ReadInv, [Next]_vars PROVE ReadInv'
  OBVIOUS
<1>1. CacheInv'
  BY CacheInvNext DEF ReadInv
<1>2. CASE UNCHANGED vars
  <2>1. Placed'
    BY <1>2, PlacedKept DEF vars, cacheVars
  <2>2. ASSUME Calm' PROVE Reads'
    <3>1. Calm
      BY <1>2, <2>2 DEF vars, Calm, OneMemory
    <3> QED
      BY <1>2, <3>1, ExpiryReads, SeenSame DEF vars, cacheVars, Held, Shelf
  <2> QED
    BY <1>1, <2>1, <2>2 DEF ReadInv
<1>3. CASE Next
  BY <1>1, <1>3, PlacedNext, ReadsNext DEF ReadInv
<1> QED
  BY <1>2, <1>3

\* For any number of readers and mutations that share one memory: who asks after a
\* mutation invalidated the answer gets one that has the mutation, although readers that
\* loaded before it store their answers after it (getOrSet, bumpScopeVersion).
THEOREM ReadersSeeWhatSettled == Spec => []ReadsSettled
<1>1. ReadInv => ReadsSettled
  BY DEF ReadInv, Reads, AnswersSettled, ReadsSettled, Calm
<1> QED
  BY <1>1, ReadInvInit, ReadInvNext, PTL DEF Spec
=============================================================================
