----------------------------- MODULE AuthzProofs -----------------------------
(***************************************************************************)
(* A request that bypasses the caches is decided by the tables, and what   *)
(* tables, versions, caches and requests hold is well typed, for any       *)
(* number of companies, processes, administrators and requests.            *)
(***************************************************************************)
EXTENDS PermissionsClient, FiniteSetTheorems, TLAPS

OfCompany(c) == Allowed([part \in Part |-> Answered(db, c, part)])

Active == {"token", "lookup", "companies", "read", "persist"}

\* A request that bypasses the caches, at every step of its resolution.
Shape(r) ==
    /\ r.kind \in {"company", "all"}
    /\ r.company \in Company \/ (r.company = All /\ r.kind = "all")
    /\ r.todo \subseteq Company
    /\ r.any \in BOOLEAN /\ r.value \in BOOLEAN
    /\ r.part \in 1..6
    /\ r.pc # "read" => r.part = 1 /\ r.seen = Nothing
    /\ r.pc = "read" => r.company \in Company
    /\ r.pc = "companies" => r.company = All
    /\ r.pc \in {"token", "lookup", "companies"} /\ r.company = All => ~r.any

\* What it read so far is what the tables say, as long as nobody changes them: the parts
\* of its company, the companies before it, the value of the whole.
Accurate(r) ==
    /\ r.pc = "read" =>
          \A i \in 1..6 : i < r.part => r.seen[Parts[i]] = Answered(db, r.company, Parts[i])
    /\ r.pc \in Active /\ InnerOf(r) =>
          /\ r.company \in db.company /\ r.todo \subseteq db.company \ {r.company}
          /\ r.any <=> \E x \in db.company \ (r.todo \cup {r.company}) : OfCompany(x)
    /\ r.pc \in {"persist", "answer"} => (r.value <=> Effective(r.company))

Fields == {"pc", "p", "kind", "bypass", "company", "token", "create", "outer", "todo", "any",
           "seen", "part", "value", "calm"}

Sound(r) ==
    /\ DOMAIN r = Fields
    /\ r.bypass => Shape(r)
    /\ r.bypass /\ r.calm => Accurate(r)

\* The company the browser will ask about is one.
Asks(c) == DOMAIN c = {"company", "shown", "busy", "age", "last"} /\ c.company \in Company

\* The inductive invariant.
IInv ==
    /\ mix \in Mixes
    /\ db \in Db
    /\ Asks(client)
    /\ DOMAIN request = Request
    /\ \A q \in Request : Sound(request[q])
----------------------------------------------------------------------------
(* The parts and the companies *)

LEMMA TheParts ==
    /\ Len(Parts) = 6
    /\ Parts[1] = "company" /\ Parts[2] = "role" /\ Parts[3] = "grant"
    /\ Parts[4] = "active" /\ Parts[5] = "override" /\ Parts[6] = "denied"
    /\ Part = {"company", "role", "grant", "active", "override", "denied"}
<1>1. /\ Len(Parts) = 6
      /\ Parts[1] = "company" /\ Parts[2] = "role" /\ Parts[3] = "grant"
      /\ Parts[4] = "active" /\ Parts[5] = "override" /\ Parts[6] = "denied"
      /\ DOMAIN Parts = 1..6
  BY DEF Parts
<1>2. Part = {Parts[i] : i \in 1..6}
  BY <1>1 DEF Part, Range
<1>3. 1..6 = {1, 2, 3, 4, 5, 6}
  OBVIOUS
<1> QED
  BY <1>1, <1>2, <1>3

\* Who has no company is allowed nothing.
LEMMA OnlyOwnCompanies ==
    ASSUME NEW c, OfCompany(c) PROVE c \in db.company
<1>1. [part \in Part |-> Answered(db, c, part)].company = Answered(db, c, "company")
  BY TheParts
<1> QED
  BY <1>1 DEF OfCompany, Allowed, Answered

LEMMA EffectiveOfAll ==
    ASSUME db \in Db PROVE Effective(All) <=> \E x \in db.company : OfCompany(x)
<1>1. db.company \subseteq Company
  BY DEF Db
<1> QED
  BY <1>1, OnlyOwnCompanies DEF Effective, OfCompany

LEMMA EffectiveOfOne ==
    ASSUME NEW c \in Company PROVE Effective(c) <=> OfCompany(c)
  BY AuthzAssumption DEF Effective, OfCompany

\* Only what the six parts say decides.
LEMMA SameParts ==
    ASSUME NEW seen, NEW c,
           \A i \in 1..6 : seen[Parts[i]] = Answered(db, c, Parts[i])
    PROVE  Allowed(seen) <=> OfCompany(c)
<1>1. /\ seen.company = Answered(db, c, "company") /\ seen.role = Answered(db, c, "role")
      /\ seen.grant = Answered(db, c, "grant") /\ seen.active = Answered(db, c, "active")
      /\ seen.override = Answered(db, c, "override") /\ seen.denied = Answered(db, c, "denied")
  BY TheParts
<1>2. LET all == [part \in Part |-> Answered(db, c, part)] IN
      /\ all.company = Answered(db, c, "company") /\ all.role = Answered(db, c, "role")
      /\ all.grant = Answered(db, c, "grant") /\ all.active = Answered(db, c, "active")
      /\ all.override = Answered(db, c, "override") /\ all.denied = Answered(db, c, "denied")
  BY TheParts
<1> QED
  BY <1>1, <1>2 DEF OfCompany, Allowed

LEMMA LastOfStepInRange ==
    ASSUME NEW i \in 1..6 PROVE LastOfStep(i) \in i..6
<1> DEFINE S == {j \in i..Len(Parts) : j = Len(Parts) \/ Parts[j + 1] \in Changing}
<1>1. S \subseteq i..6 /\ 6 \in S
  BY TheParts
<1>2. \E x \in S : \A y \in S : x <= y
  <2> HIDE DEF S
  <2>1. S \subseteq 1..6
    BY <1>1
  <2>2. CASE 1 \in S
    BY <2>1, <2>2
  <2>3. CASE 1 \notin S /\ 2 \in S
    BY <2>1, <2>3
  <2>4. CASE 1 \notin S /\ 2 \notin S /\ 3 \in S
    BY <2>1, <2>4
  <2>5. CASE 1 \notin S /\ 2 \notin S /\ 3 \notin S /\ 4 \in S
    BY <2>1, <2>5
  <2>6. CASE 1 \notin S /\ 2 \notin S /\ 3 \notin S /\ 4 \notin S /\ 5 \in S
    BY <2>1, <2>6
  <2>7. CASE 1 \notin S /\ 2 \notin S /\ 3 \notin S /\ 4 \notin S /\ 5 \notin S
    BY <1>1, <2>1, <2>7
  <2> QED
    BY <2>2, <2>3, <2>4, <2>5, <2>6, <2>7
<1>3. Min(S) \in S
  BY <1>2 DEF Min
<1> QED
  BY <1>1, <1>3 DEF LastOfStep
----------------------------------------------------------------------------
(* Requests *)

\* A step of a request that leaves the tables alone keeps what the others know.
LEMMA RequestKeeps ==
    ASSUME IInv, NEW q \in Request, NEW x, SetRequest(q, x), Sound(x),
           Asks(client'), UNCHANGED <<db, mix>>
    PROVE  IInv'
<1>1. /\ DOMAIN request' = Request
      /\ \A y \in Request : request'[y] = IF y = q THEN x ELSE request[y]
  BY DEF IInv, SetRequest
<1>2. \A y \in Request : Sound(request'[y])
  BY <1>1 DEF IInv
<1>3. \A y : Sound(request'[y]) => Sound(request[y])'
  BY DEF Sound, Accurate, Effective, OfCompany
<1> QED
  BY <1>1, <1>2, <1>3 DEF IInv, Asks

LEMMA IdleSound == Sound(IdleRequest)
  BY DEF Sound, IdleRequest, Fields

LEMMA NewSound ==
    ASSUME NEW p, NEW kind, NEW c, NEW bypass \in BOOLEAN,
           bypass => (kind = "company" /\ c \in Company) \/ (kind = "all" /\ c = All)
    PROVE  Sound(NewRequest(p, kind, c, bypass))
<1> DEFINE r == NewRequest(p, kind, c, bypass)
<1>1. /\ DOMAIN r = Fields
      /\ r.pc = "token" /\ r.kind = kind /\ r.company = c /\ r.bypass = bypass
      /\ r.todo = {} /\ r.any = FALSE /\ r.value = FALSE /\ r.part = 1 /\ r.seen = Nothing
  BY DEF NewRequest, IdleRequest, Fields
<1> HIDE DEF r
<1>2. ASSUME r.bypass PROVE Shape(r)
  <2>1. r.any \in BOOLEAN /\ r.value \in BOOLEAN /\ ~r.any
    BY <1>1
  <2>2. \/ r.kind = "company" /\ r.company \in Company
        \/ r.kind = "all" /\ r.company = All
    BY <1>1, <1>2
  <2> QED
    BY <1>1, <2>1, <2>2 DEF Shape
<1>3. r.bypass => ~InnerOf(r)
  <2>1. r.bypass => (kind = "company" /\ c \in Company) \/ (kind = "all" /\ c = All)
    BY <1>1
  <2> QED
    BY <1>1, <2>1 DEF InnerOf
<1>4. r.bypass => Accurate(r)
  BY <1>1, <1>3 DEF Accurate
<1> QED
  BY <1>1, <1>2, <1>4 DEF Sound, r

\* A request that does not bypass the caches only has to stay one.
LEMMA OtherSound ==
    ASSUME NEW r, NEW x, Sound(r), ~r.bypass, DOMAIN x = DOMAIN r, x.bypass = r.bypass
    PROVE  Sound(x)
  BY DEF Sound

\* From one company of an answer for all to the next one, or to the end.
LEMMA NextFrame ==
    ASSUME NEW r, NEW value, DOMAIN r = Fields, NEW x \in NextCompany(r, value)
    PROVE  DOMAIN x = Fields /\ x.bypass = r.bypass
  BY DEF NextCompany, Fields

LEMMA ResolvedFrame ==
    ASSUME NEW r, NEW value, DOMAIN r = Fields, NEW x \in Resolved(r, value)
    PROVE  DOMAIN x = Fields /\ x.bypass = r.bypass
<1>1. CASE InnerOf(r)
  BY <1>1, NextFrame DEF Resolved
<1>2. CASE ~InnerOf(r)
  <2>1. x = [r EXCEPT !.pc = "answer", !.value = value]
    BY <1>2 DEF Resolved
  <2> QED
    BY <2>1 DEF Fields
<1> QED
  BY <1>1, <1>2

LEMMA NextSound ==
    ASSUME IInv, NEW r, NEW value \in BOOLEAN, NEW x \in NextCompany(r, value),
           DOMAIN r = Fields, r.bypass, r.kind = "all", r.todo \subseteq Company,
           r.any \in BOOLEAN, r.part = 1, r.seen = Nothing,
           r.calm => /\ r.todo \subseteq db.company
                     /\ (r.any \/ value) <=> \E c \in db.company \ r.todo : OfCompany(c)
    PROVE  Sound(x)
<1>0. DOMAIN x = Fields /\ x.bypass = r.bypass
  BY NextFrame
<1>1. CASE r.todo = {}
  <2>1. /\ x.pc = "persist" /\ x.company = All /\ x.kind = "all" /\ x.todo = {}
        /\ x.any \in BOOLEAN /\ x.part = 1 /\ x.seen = Nothing /\ x.calm = r.calm
        /\ x.value = (r.any \/ value)
    BY <1>1 DEF NextCompany, Fields
  <2>2. Shape(x)
    BY <2>1 DEF Shape
  <2>3. x.calm => Accurate(x)
    <3>1. ~InnerOf(x)
      BY <2>1 DEF InnerOf
    <3>2. x.calm => (x.value <=> Effective(All))
      BY <1>1, <2>1, EffectiveOfAll DEF IInv
    <3> QED
      BY <2>1, <3>1, <3>2 DEF Accurate
  <2> QED
    BY <1>0, <2>2, <2>3 DEF Sound
<1>2. CASE r.todo # {}
  <2>1. PICK c \in r.todo :
            x = [r EXCEPT !.pc = "token", !.company = c, !.token = Missing, !.todo = @ \ {c},
                          !.any = @ \/ value, !.value = FALSE]
    BY <1>2 DEF NextCompany
  <2>2. /\ x.pc = "token" /\ x.company = c /\ x.kind = "all" /\ x.todo = r.todo \ {c}
        /\ x.value = FALSE /\ x.part = 1 /\ x.seen = Nothing /\ x.calm = r.calm
        /\ x.any = (r.any \/ value)
    BY <2>1 DEF Fields
  <2>3. c \in Company /\ c # All
    BY AuthzAssumption
  <2>4. Shape(x)
    <3>1. x.any \in BOOLEAN /\ x.value \in BOOLEAN
      BY <2>2
    <3>2. x.todo \subseteq Company /\ x.company # All /\ x.company \in Company
      BY <2>2, <2>3
    <3> QED
      BY <2>2, <3>1, <3>2 DEF Shape
  <2>5. ASSUME x.calm PROVE Accurate(x)
    <3>1. x.company \in db.company /\ x.todo \subseteq db.company \ {x.company}
      BY <2>2, <2>5
    <3>2. db.company \ (x.todo \cup {x.company}) = db.company \ r.todo
      BY <2>2
    <3>3. x.any <=> \E y \in db.company \ (x.todo \cup {x.company}) : OfCompany(y)
      BY <2>2, <2>5, <3>2
    <3> QED
      BY <2>2, <3>1, <3>3 DEF Accurate
  <2> QED
    BY <1>0, <2>4, <2>5 DEF Sound
<1> QED
  BY <1>1, <1>2

\* What holds of a request that is resolved for one company of several.
LEMMA ResolvedSound ==
    ASSUME IInv, NEW r, Sound(r), r.bypass, r.pc = "persist", NEW x \in Resolved(r, r.value)
    PROVE  Sound(x)
<1>1. DOMAIN r = Fields /\ Shape(r) /\ (r.calm => Accurate(r))
  BY DEF Sound
<1>2. /\ r.kind \in {"company", "all"} /\ r.todo \subseteq Company /\ r.any \in BOOLEAN
      /\ r.value \in BOOLEAN /\ r.part = 1 /\ r.seen = Nothing
      /\ r.company \in Company \/ (r.company = All /\ r.kind = "all")
  BY <1>1 DEF Shape
<1>3. CASE InnerOf(r)
  <2>1. r.kind = "all" /\ r.company \in Company /\ x \in NextCompany(r, r.value)
    BY <1>2, <1>3 DEF InnerOf, Resolved
  <2>2. ASSUME r.calm
        PROVE  /\ r.todo \subseteq db.company
               /\ (r.any \/ r.value) <=> \E c \in db.company \ r.todo : OfCompany(c)
    <3>1. /\ r.company \in db.company /\ r.todo \subseteq db.company \ {r.company}
          /\ r.any <=> \E c \in db.company \ (r.todo \cup {r.company}) : OfCompany(c)
          /\ r.value <=> Effective(r.company)
      BY <1>1, <1>3, <2>2 DEF Accurate, Active
    <3>2. r.value <=> OfCompany(r.company)
      BY <2>1, <3>1, EffectiveOfOne
    <3> QED
      BY <3>1, <3>2
  <2> QED
    BY <1>1, <1>2, <2>1, <2>2, NextSound
<1>4. CASE ~InnerOf(r)
  <2>1. x = [r EXCEPT !.pc = "answer", !.value = r.value]
    BY <1>4 DEF Resolved
  <2>2. /\ DOMAIN x = Fields /\ x.pc = "answer" /\ x.value = r.value /\ x.kind = r.kind
        /\ x.company = r.company /\ x.todo = r.todo /\ x.any = r.any /\ x.part = r.part
        /\ x.seen = r.seen /\ x.bypass = r.bypass /\ x.calm = r.calm
    BY <1>1, <2>1 DEF Fields
  <2>3. Shape(x)
    BY <1>2, <2>2 DEF Shape
  <2>4. x.calm => Accurate(x)
    BY <1>1, <2>2 DEF Accurate, Active
  <2> QED
    BY <2>2, <2>3, <2>4 DEF Sound
<1> QED
  BY <1>3, <1>4
----------------------------------------------------------------------------
(* The steps of a resolution: each gives a sound request *)

\* The version says nothing about what a bypassing request may answer.
LEMMA TokenStep ==
    ASSUME IInv, NEW q \in Request, NEW v \in Row,
           FindNoVersion(q, v) \/ CreateVersion(q, v) \/ ReadVersion(q, v)
    PROVE  \E x : SetRequest(q, x) /\ Sound(x)
<1> DEFINE r == request[q]
<1>1. Sound(r)
  BY DEF IInv
<1>2. PICK x : /\ SetRequest(q, x) /\ DOMAIN x = Fields /\ x.bypass = r.bypass
               /\ \/ x.pc = r.pc
                  \/ r.pc = "token" /\ x.pc = "token"
                  \/ r.pc = "token" /\ x.pc = "lookup"
                  \/ r.pc = "token" /\ x.pc = "answer" /\ r.kind = "token"
               /\ x.kind = r.kind /\ x.company = r.company /\ x.todo = r.todo /\ x.any = r.any
               /\ x.value = r.value /\ x.part = r.part /\ x.seen = r.seen /\ x.calm = r.calm
  <2> HIDE DEF r
  <2>0. DOMAIN r = Fields
    BY <1>1 DEF Sound
  <2>1. CASE FindNoVersion(q, v)
    <3> DEFINE x == [r EXCEPT !.create = @ \cup {v}]
    <3>1. SetRequest(q, x)
      BY <2>1 DEF FindNoVersion, r
    <3> QED
      BY <2>0, <3>1 DEF Fields
  <2>2. CASE CreateVersion(q, v)
    <3> DEFINE x == [r EXCEPT !.create = @ \ {v}]
    <3>1. SetRequest(q, x)
      BY <2>2 DEF CreateVersion, r
    <3> QED
      BY <2>0, <3>1 DEF Fields
  <2>3. CASE ReadVersion(q, v)
    <3> DEFINE token == [r.token EXCEPT ![v] = version[v]]
               pc == IF \E y \in Row \ {v} : token[y] = 0 THEN "token"
                     ELSE IF r.kind = "token" THEN "answer" ELSE "lookup"
               x == [r EXCEPT !.token = token, !.pc = pc]
    <3>1. SetRequest(q, x) /\ r.pc = "token"
      BY <2>3 DEF ReadVersion, r
    <3>2. pc \in {"token", "lookup"} \/ (pc = "answer" /\ r.kind = "token")
      OBVIOUS
    <3> HIDE DEF token, pc
    <3>3. /\ DOMAIN x = Fields /\ x.bypass = r.bypass /\ x.pc = pc
          /\ x.kind = r.kind /\ x.company = r.company /\ x.todo = r.todo /\ x.any = r.any
          /\ x.value = r.value /\ x.part = r.part /\ x.seen = r.seen /\ x.calm = r.calm
      BY <2>0 DEF Fields
    <3> HIDE DEF x
    <3> QED
      BY <3>1, <3>2, <3>3
  <2> QED
    BY <2>1, <2>2, <2>3
<1> HIDE DEF r
<1>3. x.bypass => Shape(x)
  BY <1>1, <1>2 DEF Sound, Shape
<1>4. x.bypass /\ x.calm => Accurate(x)
  BY <1>1, <1>2 DEF Sound, Shape, Accurate, Active, InnerOf
<1> QED
  BY <1>2, <1>3, <1>4 DEF Sound

\* A bypassing request finds nothing.
LEMMA LookupStep ==
    ASSUME IInv, NEW q \in Request, Lookup(q)
    PROVE  \E x : SetRequest(q, x) /\ Sound(x)
<1>1. PICK r : r = request[q]
  OBVIOUS
<1>2. Sound(r) /\ DOMAIN r = Fields /\ r.pc = "lookup"
  BY <1>1 DEF IInv, Sound, Lookup
<1>3. CASE ~r.bypass
  <2>1. PICK x : SetRequest(q, x) /\ DOMAIN x = Fields /\ x.bypass = r.bypass
    <3>1. ASSUME NEW value \in Hits(r), NEW next \in Resolved(r, value), SetRequest(q, next)
          PROVE  \E y : SetRequest(q, y) /\ DOMAIN y = Fields /\ y.bypass = r.bypass
      BY <1>2, <3>1, ResolvedFrame
    <3>2. CASE SetRequest(q, [r EXCEPT !.pc = IF r.company = All THEN "companies" ELSE "read"])
      <4>1. PICK pc : SetRequest(q, [r EXCEPT !.pc = pc])
        BY <3>2
      <4> QED
        BY <1>2, <4>1 DEF Fields
    <3> QED
      BY <1>1, <3>1, <3>2 DEF Lookup
  <2> QED
    BY <1>2, <1>3, <2>1, OtherSound
<1>4. CASE r.bypass
  <2>1. Hits(r) = {}
    BY <1>4 DEF Hits
  <2> DEFINE pc == IF r.company = All THEN "companies" ELSE "read"
  <2>2. PICK x : x = [r EXCEPT !.pc = pc]
    OBVIOUS
  <2>3. SetRequest(q, x)
    BY <1>1, <2>1, <2>2 DEF Lookup
  <2>4. /\ DOMAIN x = Fields /\ x.bypass = r.bypass /\ x.pc = pc
        /\ x.kind = r.kind /\ x.company = r.company /\ x.todo = r.todo /\ x.any = r.any
        /\ x.value = r.value /\ x.part = r.part /\ x.seen = r.seen /\ x.calm = r.calm
    BY <1>2, <2>2 DEF Fields
  <2>5. Shape(r) /\ (r.calm => Accurate(r))
    BY <1>2, <1>4 DEF Sound
  <2>6. \/ x.pc = "companies" /\ x.company = All
        \/ x.pc = "read" /\ x.company \in Company /\ x.part = 1
    BY <1>2, <2>4, <2>5 DEF Shape
  <2>7. Shape(x)
    BY <1>2, <2>4, <2>5, <2>6 DEF Shape
  <2>8. x.calm => Accurate(x)
    BY <1>2, <2>4, <2>5, <2>6 DEF Accurate, Active, InnerOf
  <2> QED
    BY <2>3, <2>4, <2>7, <2>8 DEF Sound
<1> QED
  BY <1>3, <1>4

LEMMA CompaniesStep ==
    ASSUME IInv, NEW q \in Request, ReadCompanies(q)
    PROVE  \E x : SetRequest(q, x) /\ Sound(x)
<1>1. PICK r : r = request[q]
  OBVIOUS
<1>2. Sound(r) /\ DOMAIN r = Fields /\ r.pc = "companies"
  BY <1>1 DEF IInv, Sound, ReadCompanies
<1>3. PICK s : s = [r EXCEPT !.outer = r.token, !.todo = db.company]
  OBVIOUS
<1>4. /\ DOMAIN s = Fields /\ s.bypass = r.bypass /\ s.pc = r.pc
      /\ s.kind = r.kind /\ s.company = r.company /\ s.todo = db.company /\ s.any = r.any
      /\ s.value = r.value /\ s.part = r.part /\ s.seen = r.seen /\ s.calm = r.calm
  BY <1>2, <1>3 DEF Fields
<1>5. PICK x \in NextCompany(s, FALSE) : SetRequest(q, x)
  BY <1>1, <1>3 DEF ReadCompanies
<1>6. CASE ~r.bypass
  BY <1>2, <1>4, <1>5, <1>6, NextFrame, OtherSound
<1>7. CASE r.bypass
  <2>1. /\ r.company = All /\ r.kind = "all" /\ r.any \in BOOLEAN /\ ~r.any
        /\ r.part = 1 /\ r.seen = Nothing
    BY <1>2, <1>7, AuthzAssumption DEF Sound, Shape
  <2>2. s.todo \subseteq Company
    BY <1>4 DEF IInv, Db
  <2>3. (s.any \/ FALSE) <=> \E c \in db.company \ s.todo : OfCompany(c)
    BY <1>4, <2>1
  <2> QED
    BY <1>4, <1>5, <1>7, <2>1, <2>2, <2>3, NextSound
<1> QED
  BY <1>6, <1>7

LEMMA PersistStep ==
    ASSUME IInv, NEW q \in Request, Persist(q)
    PROVE  \E x : SetRequest(q, x) /\ Sound(x)
<1>1. PICK r : r = request[q]
  OBVIOUS
<1>2. Sound(r) /\ DOMAIN r = Fields /\ r.pc = "persist"
  BY <1>1 DEF IInv, Sound, Persist
<1>3. PICK x \in Resolved(r, r.value) : SetRequest(q, x)
  BY <1>1 DEF Persist
<1>4. CASE ~r.bypass
  BY <1>2, <1>3, <1>4, ResolvedFrame, OtherSound
<1>5. CASE r.bypass
  BY <1>2, <1>3, <1>5, ResolvedSound
<1> QED
  BY <1>4, <1>5

\* What a step that reads leaves of the request, when the queries of the parts lost failed.
LEMMA ReadFrame ==
    ASSUME NEW r, NEW lost, DOMAIN r = Fields, r.pc = "read"
    PROVE  LET x == AfterRead(r, lost) seen == SeenAfter(r, lost) last == LastOfStep(r.part) IN
           /\ DOMAIN x = Fields /\ x.bypass = r.bypass /\ x.kind = r.kind
           /\ x.company = r.company /\ x.todo = r.todo /\ x.any = r.any /\ x.calm = r.calm
           /\ \/ /\ last = 6 \/ ~seen.company
                 /\ x.pc = "persist" /\ x.seen = Nothing /\ x.part = 1
                 /\ x.value = Allowed(seen)
              \/ /\ last # 6 /\ x.pc = "read" /\ x.seen = seen /\ x.part = last + 1
                 /\ x.value = r.value
<1> DEFINE x == AfterRead(r, lost)
           seen == SeenAfter(r, lost)
           last == LastOfStep(r.part)
<1>1. x = IF last = 6 \/ ~seen.company
          THEN [r EXCEPT !.pc = "persist", !.seen = Nothing, !.part = 1, !.value = Allowed(seen)]
          ELSE [r EXCEPT !.seen = seen, !.part = last + 1]
  BY TheParts DEF AfterRead
<1> HIDE DEF x, seen, last
<1>2. CASE last = 6 \/ ~seen.company
  <2>1. x = [r EXCEPT !.pc = "persist", !.seen = Nothing, !.part = 1, !.value = Allowed(seen)]
    BY <1>1, <1>2
  <2>2. /\ DOMAIN x = Fields /\ x.bypass = r.bypass /\ x.kind = r.kind
        /\ x.company = r.company /\ x.todo = r.todo /\ x.any = r.any /\ x.calm = r.calm
        /\ x.pc = "persist" /\ x.seen = Nothing /\ x.part = 1 /\ x.value = Allowed(seen)
    BY <2>1 DEF Fields
  <2> QED
    BY <1>2, <2>2 DEF x, seen, last
<1>3. CASE ~(last = 6 \/ ~seen.company)
  <2>1. x = [r EXCEPT !.seen = seen, !.part = last + 1]
    BY <1>1, <1>3
  <2>2. /\ DOMAIN x = Fields /\ x.bypass = r.bypass /\ x.kind = r.kind
        /\ x.company = r.company /\ x.todo = r.todo /\ x.any = r.any /\ x.calm = r.calm
        /\ x.pc = "read" /\ x.seen = seen /\ x.part = last + 1 /\ x.value = r.value
    BY <2>1 DEF Fields
  <2> QED
    BY <1>3, <2>2 DEF x, seen, last
<1> QED
  BY <1>2, <1>3

\* After the last part, or without the company, the parts decide.
LEMMA PartsStep ==
    ASSUME IInv, NEW q \in Request, ReadParts(q)
    PROVE  \E x : SetRequest(q, x) /\ Sound(x)
<1>1. PICK r : r = request[q]
  OBVIOUS
<1>2. Sound(r) /\ DOMAIN r = Fields /\ r.pc = "read"
  BY <1>1 DEF IInv, Sound, ReadParts
<1> DEFINE last == LastOfStep(r.part)
           seen == [part \in Part |-> IF part \in ReadNow(r) THEN Answered(db, r.company, part)
                                      ELSE r.seen[part]]
<1>6. seen = SeenAfter(r, {})
  BY DEF SeenAfter
<1>3. PICK x : /\ SetRequest(q, x) /\ DOMAIN x = Fields /\ x.bypass = r.bypass /\ x.kind = r.kind
               /\ x.company = r.company /\ x.todo = r.todo /\ x.any = r.any /\ x.calm = r.calm
               /\ \/ /\ last = 6 \/ ~seen.company
                     /\ x.pc = "persist" /\ x.seen = Nothing /\ x.part = 1
                     /\ x.value = Allowed(seen)
                  \/ /\ last # 6 /\ x.pc = "read" /\ x.seen = seen /\ x.part = last + 1
                     /\ x.value = r.value
  <2>1. PICK x : x = AfterRead(r, {})
    OBVIOUS
  <2>2. SetRequest(q, x)
    BY <1>1, <2>1 DEF ReadParts
  <2> HIDE DEF last, seen
  <2> QED
    BY <1>2, <1>6, <2>1, <2>2, ReadFrame DEF last
<1>4. CASE ~r.bypass
  BY <1>2, <1>3, <1>4, OtherSound
<1>5. CASE r.bypass
  <2>1. Shape(r) /\ (r.calm => Accurate(r)) /\ r.part \in 1..6 /\ r.company \in Company
    BY <1>2, <1>5 DEF Sound, Shape
  <2>2. last \in r.part..6
    BY <2>1, LastOfStepInRange
  <2>3. ASSUME r.calm, NEW i \in 1..6, i <= last
        PROVE  seen[Parts[i]] = Answered(db, r.company, Parts[i])
    <3>1. Parts[i] \in Part
      BY TheParts
    <3>2. CASE i < r.part
      BY <2>1, <2>3, <3>1, <3>2, <1>2 DEF Accurate
    <3>3. CASE i >= r.part
      <4>1. i \in r.part..last
        BY <2>1, <2>2, <2>3, <3>3
      <4> QED
        BY <3>1, <4>1 DEF ReadNow
    <3> QED
      BY <2>1, <3>2, <3>3
  <2>4. CASE x.pc = "persist"
    <3>1. x.value = Allowed(seen) /\ x.part = 1 /\ x.seen = Nothing /\ (last = 6 \/ ~seen.company)
      BY <1>3, <2>4
    <3>2. x.value \in BOOLEAN
      BY <3>1 DEF Allowed
    <3>3. Shape(x)
      BY <1>3, <2>1, <2>4, <3>1, <3>2 DEF Shape
    <3>4. ASSUME r.calm PROVE x.value <=> Effective(r.company)
      <4>1. CASE last = 6
        <5>1. \A i \in 1..6 : seen[Parts[i]] = Answered(db, r.company, Parts[i])
          BY <2>3, <3>4, <4>1
        <5> HIDE DEF seen, last
        <5> QED
          BY <5>1, <3>1, <2>1, SameParts, EffectiveOfOne
      <4>2. CASE ~seen.company
        <5>1. Parts[1] = "company" /\ 1 <= last /\ 1 \in 1..6
          BY TheParts, <2>1, <2>2
        <5>2. seen["company"] = Answered(db, r.company, "company")
          BY <2>3, <3>4, <5>1
        <5>3. ~OfCompany(r.company)
          BY <4>2, <5>2, OnlyOwnCompanies DEF Answered
        <5>4. ~Allowed(seen)
          BY <4>2 DEF Allowed
        <5> QED
          BY <3>1, <5>3, <5>4, <2>1, EffectiveOfOne
      <4> QED
        BY <3>1, <4>1, <4>2
    <3>5. x.calm => Accurate(x)
      BY <1>2, <1>3, <2>1, <2>4, <3>4 DEF Accurate, Active, InnerOf
    <3> QED
      BY <1>2, <1>3, <3>3, <3>5 DEF Sound
  <2>5. CASE x.pc = "read"
    <3>1. last # 6 /\ x.seen = seen /\ x.part = last + 1 /\ x.value = r.value
      BY <1>3, <2>5
    <3>2. x.part \in 1..6
      BY <2>1, <2>2, <3>1
    <3>3. Shape(x)
      BY <1>3, <2>1, <2>5, <3>1, <3>2 DEF Shape
    <3>4. ASSUME r.calm, NEW i \in 1..6, i < x.part
          PROVE  x.seen[Parts[i]] = Answered(db, r.company, Parts[i])
      <4>1. i <= last
        BY <2>1, <2>2, <3>1, <3>4
      <4> QED
        BY <2>3, <3>1, <3>4, <4>1
    <3>5. x.calm => Accurate(x)
      BY <1>2, <1>3, <2>1, <2>5, <3>4 DEF Accurate, Active, InnerOf
    <3> QED
      BY <1>2, <1>3, <3>3, <3>5 DEF Sound
  <2> QED
    BY <1>3, <2>4, <2>5
<1> QED
  BY <1>4, <1>5
----------------------------------------------------------------------------
LEMMA InitInductive == Init => IInv
<1> SUFFICES ASSUME Init PROVE IInv
  OBVIOUS
<1>1. db \in Db /\ mix \in Mixes /\ request = [q \in Request |-> IdleRequest]
  BY DEF Init, AuthzInit, Db
<1>2. Asks(client)
  BY DEF Init, Asks
<1> QED
  BY <1>1, <1>2, IdleSound DEF IInv

\* A change of the tables ends the calm of every request.
LEMMA ChangeInductive ==
    ASSUME IInv, NEW a, NEW p, NEW part \in Part, NEW value \in NewValues(part),
           Change(a, p, part, value), UNCHANGED <<client, mix>>
    PROVE  IInv'
<1>1. db' \in Db
  <2>1. db' = [db EXCEPT ![part] = value] /\ db \in Db
    BY DEF Change, IInv
  <2>2. CASE part = "company"
    BY <2>1, <2>2 DEF NewValues, Db
  <2>3. CASE part = "override"
    BY <2>1, <2>3 DEF NewValues, Db
  <2>4. CASE part \in {"role", "grant", "active", "denied"}
    <3>1. value \in BOOLEAN
      BY <2>4 DEF NewValues
    <3> QED
      BY <2>1, <2>4, <3>1 DEF Db
  <2> QED
    BY <2>2, <2>3, <2>4, TheParts
<1>2. ASSUME NEW q \in Request PROVE Sound(request[q])'
  <2>1. PICK r : r = request[q]
    OBVIOUS
  <2>2. Sound(r)
    BY <2>1 DEF IInv
  <2>3. PICK x : x = [r EXCEPT !.calm = FALSE]
    OBVIOUS
  <2>4. /\ DOMAIN x = Fields /\ x.bypass = r.bypass /\ x.pc = r.pc /\ x.calm = FALSE
        /\ x.kind = r.kind /\ x.company = r.company /\ x.todo = r.todo /\ x.any = r.any
        /\ x.value = r.value /\ x.part = r.part /\ x.seen = r.seen
    BY <2>2, <2>3 DEF Sound, Fields
  <2>5. x.bypass => Shape(x)
    BY <2>2, <2>4 DEF Sound, Shape
  <2>6. request'[q] = x
    BY <2>1, <2>3 DEF Change
  <2> QED
    BY <2>4, <2>5, <2>6 DEF Sound
<1>3. DOMAIN request' = Request
  BY DEF Change
<1> QED
  BY <1>1, <1>2, <1>3 DEF IInv, Asks

\* A request whose queries failed says so: nothing is claimed of its answer.
LEMMA LessStep ==
    ASSUME IInv, NEW q \in Request, ReadLess(q)
    PROVE  \E x : SetRequest(q, x) /\ Sound(x)
<1>1. PICK r : r = request[q]
  OBVIOUS
<1>2. Sound(r) /\ DOMAIN r = Fields /\ r.pc = "read"
  BY <1>1 DEF IInv, Sound, ReadLess
<1>3. PICK lost : SetRequest(q, [AfterRead(r, lost) EXCEPT !.calm = FALSE])
  BY <1>1 DEF ReadLess
<1>4. PICK y : y = AfterRead(r, lost)
  OBVIOUS
<1>5. PICK x : x = [y EXCEPT !.calm = FALSE]
  OBVIOUS
<1>6. PICK seen, last : seen = SeenAfter(r, lost) /\ last = LastOfStep(r.part)
  OBVIOUS
<1>7. /\ DOMAIN y = Fields /\ y.bypass = r.bypass /\ y.kind = r.kind
      /\ y.company = r.company /\ y.todo = r.todo /\ y.any = r.any
      /\ \/ y.pc = "persist" /\ y.seen = Nothing /\ y.part = 1 /\ y.value = Allowed(seen)
         \/ last # 6 /\ y.pc = "read" /\ y.part = last + 1 /\ y.value = r.value
  BY <1>2, <1>4, <1>6, ReadFrame
<1>8. /\ DOMAIN x = Fields /\ x.bypass = r.bypass /\ x.kind = r.kind
      /\ x.company = r.company /\ x.todo = r.todo /\ x.any = r.any /\ ~x.calm
      /\ \/ x.pc = "persist" /\ x.seen = Nothing /\ x.part = 1 /\ x.value = Allowed(seen)
         \/ last # 6 /\ x.pc = "read" /\ x.part = last + 1 /\ x.value = r.value
  BY <1>5, <1>7 DEF Fields
<1>9. CASE ~r.bypass
  BY <1>2, <1>3, <1>4, <1>5, <1>8, <1>9, OtherSound
<1>10. CASE r.bypass
  <2>1. Shape(r) /\ r.part \in 1..6
    BY <1>2, <1>10 DEF Sound, Shape
  <2>2. last \in r.part..6
    BY <1>6, <2>1, LastOfStepInRange
  <2>3. CASE x.pc = "persist" /\ x.seen = Nothing /\ x.part = 1 /\ x.value = Allowed(seen)
    <3>1. x.value \in BOOLEAN
      BY <2>3 DEF Allowed
    <3>2. Shape(x)
      BY <1>8, <2>1, <2>3, <3>1 DEF Shape
    <3> QED
      BY <1>3, <1>4, <1>5, <1>8, <3>2 DEF Sound
  <2>4. CASE last # 6 /\ x.pc = "read" /\ x.part = last + 1 /\ x.value = r.value
    <3>1. x.part \in 1..6
      BY <2>1, <2>2, <2>4
    <3>2. Shape(x)
      BY <1>2, <1>8, <2>1, <2>4, <3>1 DEF Shape
    <3> QED
      BY <1>3, <1>4, <1>5, <1>8, <3>2 DEF Sound
  <2> QED
    BY <1>8, <2>3, <2>4
<1> QED
  BY <1>9, <1>10

LEMMA ResolveInductive ==
    ASSUME IInv, NEW q \in Request, Resolve(q) \/ ReadLess(q), UNCHANGED <<client, mix>>
    PROVE  IInv'
<1>1. \E x : SetRequest(q, x) /\ Sound(x)
  BY TokenStep, LookupStep, CompaniesStep, PartsStep, PersistStep, LessStep DEF Resolve
<1>2. UNCHANGED db
  BY DEF Resolve, FindNoVersion, CreateVersion, ReadVersion, Lookup, ReadCompanies, ReadParts,
         ReadLess, Persist, tables
<1> QED
  BY <1>1, <1>2, RequestKeeps DEF IInv

\* Steps of administrators, streams and caches leave requests and tables alone.
LEMMA StreamKeeps ==
    ASSUME IInv, Asks(client'), UNCHANGED <<db, request, mix>> PROVE IInv'
<1>1. \A q \in Request : Sound(request[q])'
  BY DEF IInv, Sound, Accurate, Effective, OfCompany
<1> QED
  BY <1>1 DEF IInv, Asks

\* The browser asks about its company, bypassing the caches.
LEMMA RefreshInductive ==
    ASSUME IInv, NEW c, Asks(c), Refresh(c), UNCHANGED <<db, mix>> PROVE IInv'
<1>1. CASE MayRefresh
  <2>1. Sound(NewRequest(NoProcess, "company", client.company, TRUE))
    BY NewSound DEF IInv, Asks
  <2>2. Asks(client')
    BY <1>1 DEF Refresh, SetClient, Asks
  <2>3. "refresh" \in Request
    BY ClientAssumption
  <2> QED
    BY <1>1, <2>1, <2>2, <2>3, RequestKeeps DEF Refresh
<1>2. CASE ~MayRefresh
  <2>1. Asks(client') /\ UNCHANGED request
    BY <1>2 DEF Refresh, SetClient
  <2> QED
    BY <2>1, StreamKeeps
<1> QED
  BY <1>1, <1>2

LEMMA PollAnsweredInductive ==
    ASSUME IInv, PollAnswered PROVE IInv'
<1>0. UNCHANGED <<db, mix>> /\ "poll" \in Request /\ "refresh" \in Request
  BY ClientAssumption DEF PollAnswered, server, tables
<1>1. PICK known : known = [client EXCEPT !.last = request["poll"].token]
  OBVIOUS
<1>2. Asks(known) /\ Asks([known EXCEPT !.busy = TRUE])
  BY <1>1 DEF IInv, Asks
<1>3. CASE SetClient(known) /\ SetRequest("poll", IdleRequest)
  BY <1>0, <1>2, <1>3, IdleSound, RequestKeeps DEF SetClient
<1>4. CASE /\ SetClient([known EXCEPT !.busy = TRUE])
           /\ request' = [request EXCEPT !["poll"] = IdleRequest,
                 !["refresh"] = NewRequest(NoProcess, "company", client.company, TRUE)]
  <2>1. PICK new : new = NewRequest(NoProcess, "company", client.company, TRUE)
    OBVIOUS
  <2>2. Sound(new)
    BY <2>1, NewSound DEF IInv, Asks
  <2>3. ASSUME NEW q \in Request PROVE Sound(request'[q])
    BY <1>4, <2>1, <2>2, IdleSound DEF IInv
  <2>4. \A y : Sound(request'[y]) => Sound(request[y])'
    BY <1>0 DEF Sound, Accurate, Effective, OfCompany
  <2>5. DOMAIN request' = Request
    BY <1>4 DEF IInv
  <2>6. Asks(client')
    BY <1>2, <1>4 DEF SetClient
  <2> QED
    BY <1>0, <2>3, <2>4, <2>5, <2>6 DEF IInv, Asks
<1> QED
  BY <1>1, <1>3, <1>4 DEF PollAnswered

LEMMA BrowserInductive ==
    ASSUME IInv,
           EventArrives \/ Reconnect \/ Focus \/ RefreshAnswered \/ Older \/ Poll
    PROVE  IInv'
<1>0. UNCHANGED <<db, mix>> /\ "poll" \in Request /\ "refresh" \in Request /\ Asks(client)
  BY ClientAssumption
  DEF EventArrives, Reconnect, Focus, RefreshAnswered, Older, Poll, server, tables, IInv
<1>1. CASE EventArrives \/ Focus
  BY <1>0, <1>1, RefreshInductive DEF EventArrives, Focus
<1>2. CASE Reconnect
  BY <1>0, <1>2, StreamKeeps DEF Reconnect, Asks
<1>3. CASE RefreshAnswered
  <2>1. Asks(client')
    BY <1>0, <1>3 DEF RefreshAnswered, SetClient, AfterRefresh, Asks
  <2> QED
    BY <1>0, <1>3, <2>1, IdleSound, RequestKeeps DEF RefreshAnswered
<1>4. CASE Older
  <2>1. Asks(client')
    BY <1>0, <1>4 DEF Older, SetClient, Asks
  <2> QED
    BY <1>0, <1>4, <2>1, StreamKeeps DEF Older
<1>5. CASE Poll
  <2>1. Sound(NewRequest(NoProcess, "token", NoCompany, FALSE))
    BY NewSound
  <2> QED
    BY <1>0, <1>5, <2>1, RequestKeeps DEF Poll, Asks
<1> QED
  BY <1>1, <1>2, <1>3, <1>4, <1>5

LEMMA RequestsInductive ==
    ASSUME IInv, NEW q \in Request,
           \/ BrowserRequestFails(q) \/ LoadAnswered(q) \/ Decided(q)
           \/ \E c \in Company : Switch(q, c)
           \/ \E c \in Company \cup {All}, bypass \in BOOLEAN :
                 \E p \in mix.processes : CanActivate(q, p, c, bypass)
    PROVE  IInv'
<1>0. Asks(client)
  BY DEF IInv
<1>1. CASE BrowserRequestFails(q)
  <2>1. Asks(client') /\ UNCHANGED <<db, mix>>
    BY <1>0, <1>1 DEF BrowserRequestFails, SetClient, AfterRefresh, Asks, server, tables
  <2> QED
    BY <1>1, <2>1, IdleSound, RequestKeeps DEF BrowserRequestFails
<1>2. CASE LoadAnswered(q)
  <2>1. Asks(client') /\ UNCHANGED <<db, mix>>
    BY <1>0, <1>2 DEF LoadAnswered, SetClient, Asks, server, tables
  <2> QED
    BY <1>2, <2>1, IdleSound, RequestKeeps DEF LoadAnswered
<1>3. CASE Decided(q)
  BY <1>0, <1>3, IdleSound, RequestKeeps DEF Decided, server, tables, Asks
<1>4. ASSUME NEW c \in Company, Switch(q, c) PROVE IInv'
  <2>1. Asks(client') /\ UNCHANGED <<db, mix>>
    BY <1>0, <1>4 DEF Switch, SetClient, Asks, server, tables
  <2>2. Sound(NewRequest(NoProcess, "company", c, TRUE))
    BY NewSound
  <2> QED
    BY <1>4, <2>1, <2>2, RequestKeeps DEF Switch
<1>5. ASSUME NEW c \in Company \cup {All}, NEW bypass \in BOOLEAN, NEW p \in mix.processes,
             CanActivate(q, p, c, bypass)
      PROVE  IInv'
  <2>1. Sound(NewRequest(p, IF c = All THEN "all" ELSE "company", c, bypass))
    BY NewSound
  <2> QED
    BY <1>0, <1>5, <2>1, RequestKeeps DEF CanActivate, server, tables, Asks
<1> QED
  BY <1>1, <1>2, <1>3, <1>4, <1>5
----------------------------------------------------------------------------
LEMMA NextInductive == IInv /\ [Next]_vars => IInv'
<1> SUFFICES ASSUME IInv, [Next]_vars PROVE IInv'
  OBVIOUS
<1>0. /\ mix.parts \subseteq Part /\ mix.guarded \subseteq Guarded
      /\ mix.asked \subseteq Company \cup {All} /\ Asks(client)
      /\ Load \subseteq Request /\ Guarded \subseteq Request
      /\ "refresh" \in Request /\ "poll" \in Request
  BY ClientAssumption DEF IInv
<1>1. CASE UNCHANGED vars
  BY <1>0, <1>1, StreamKeeps DEF vars, Asks
<1>2. ASSUME NEW a \in mix.admins, NEW p \in mix.processes, NEW part \in mix.parts,
             NEW value \in NewValues(part), Change(a, p, part, value) /\ KeepClient
      PROVE  IInv'
  BY <1>0, <1>2, ChangeInductive DEF KeepClient
<1>3. ASSUME NEW a \in mix.admins,
             ((EnsureRows(a) \/ Increment(a) \/ AdminFails(a)) /\ KeepClient) \/ Notify(a)
      PROVE  IInv'
  BY <1>0, <1>3, StreamKeeps
  DEF EnsureRows, Increment, AdminFails, Notify, KeepClient, tables, Asks
<1>4. ASSUME NEW q \in Request, (Resolve(q) \/ ReadLess(q)) /\ KeepClient PROVE IInv'
  BY <1>4, ResolveInductive DEF KeepClient
<1>5. ASSUME NEW p \in Process, Expire(p) /\ KeepClient PROVE IInv'
  BY <1>0, <1>5, StreamKeeps DEF Expire, KeepClient, tables, Asks
<1>6. CASE mix.browser /\ (\/ EventArrives \/ Reconnect \/ PollAnswered
                          \/ Focus \/ RefreshAnswered \/ Older)
  BY <1>6, BrowserInductive, PollAnsweredInductive
<1>7. CASE mix.polls /\ Poll
  BY <1>7, BrowserInductive
<1>8. ASSUME NEW q \in Browser, BrowserRequestFails(q) PROVE IInv'
  <2>1. q \in Request
    BY <1>0 DEF Browser
  <2> QED
    BY <1>8, <2>1, RequestsInductive
<1>9. ASSUME NEW q \in Browser \cap Load, NEW c \in Company, Switch(q, c) PROVE IInv'
  BY <1>0, <1>9, RequestsInductive
<1>10. ASSUME NEW q \in Load, LoadAnswered(q) PROVE IInv'
  BY <1>0, <1>10, RequestsInductive
<1>11. ASSUME NEW q \in mix.guarded, NEW p \in mix.processes, NEW c \in mix.asked,
              NEW bypass \in BOOLEAN, CanActivate(q, p, c, bypass)
       PROVE  IInv'
  BY <1>0, <1>11, RequestsInductive
<1>12. ASSUME NEW q \in Guarded, Decided(q) PROVE IInv'
  BY <1>0, <1>12, RequestsInductive
<1> QED
  BY <1>1, <1>2, <1>3, <1>4, <1>5, <1>6, <1>7, <1>8, <1>9, <1>10, <1>11, <1>12 DEF Next

\* A request that bypasses the caches (refreshAuthz, x-authz-refresh), meets no change on
\* its way and none of whose queries failed is decided by the tables, for one company or
\* all of them, whatever the caches and versions say, and however many answers were kept
\* that lack what the failed query of another request hid (resolvePermissions).
THEOREM BypassFresh == Spec => []BypassIsFresh
<1>1. ASSUME IInv PROVE BypassIsFresh
  <2> SUFFICES ASSUME NEW q \in Request, request[q].pc = "answer", request[q].bypass,
                      request[q].calm
               PROVE  request[q].value = Effective(request[q].company)
    BY DEF BypassIsFresh
  <2>1. Sound(request[q])
    BY <1>1 DEF IInv
  <2>2. request[q].value \in BOOLEAN
    BY <2>1 DEF Sound, Shape
  <2>3. request[q].value <=> Effective(request[q].company)
    BY <2>1 DEF Sound, Accurate
  <2>4. Effective(request[q].company) \in BOOLEAN
    BY DEF Effective, Allowed
  <2> QED
    BY <2>2, <2>3, <2>4
<1> QED
  BY <1>1, InitInductive, NextInductive, PTL DEF Spec
----------------------------------------------------------------------------
(* What the tables, the caches and the requests hold *)

\* The highest value of a version: each administrator adds one to what an upsert left.
Highest == Cardinality(Admin) + 1

CacheEntry == [company : Company \cup {All}, token : Existing, value : BOOLEAN]
AdminRow == [pc : {"idle", "changed", "ensured", "bumped"}, p : Process \cup {NoProcess},
             rows : SUBSET Row]
SeenRow == [company : BOOLEAN, role : BOOLEAN, grant : BOOLEAN, active : BOOLEAN,
            override : {"NONE", "ALLOW", "DENY"}, denied : BOOLEAN]
RequestRow == [pc : {"idle", "token", "lookup", "companies", "read", "persist", "answer"},
               p : Process \cup {NoProcess}, kind : {"none", "token", "company", "all"},
               bypass : BOOLEAN, company : Company \cup {All, NoCompany}, token : Token,
               create : SUBSET Row, outer : Token, todo : SUBSET Company, any : BOOLEAN,
               seen : SeenRow, part : 1..Len(Parts), value : BOOLEAN, calm : BOOLEAN]
ClientRow == [company : Company, shown : BOOLEAN, busy : BOOLEAN,
              age : {"fresh", "second", "minute"}, last : Existing \cup {NoToken}]

\* Past its token a request has read both rows: it creates none, and only such a token
\* is looked for, kept or remembered.
Valid(r) ==
    /\ r \in RequestRow
    /\ r.pc # "idle" => r.kind # "none"
    /\ r.create # {} => r.pc = "token"
    /\ \A x \in r.create : r.token[x] = 0
    /\ r.pc \in {"lookup", "companies", "read", "persist", "answer"} => r.token \in Existing
    /\ r.pc \in {"lookup", "companies", "read", "persist"} => r.kind \in {"company", "all"}
    /\ r.kind \in {"company", "all"} => /\ r.company \in Company \cup {All}
                                        /\ r.bypass \/ r.p \in Process
    /\ InnerOf(r) => r.outer \in Existing

\* The administrators that will add one to a row.
Bumping(x) == {a \in Admin : admin[a].pc = "ensured" /\ x \in admin[a].rows}

\* A version has room for what is still to be added to it.
Versions ==
    /\ admin \in [Admin -> AdminRow]
    /\ version \in [Row -> Nat]
    /\ \A x \in Row : version[x] + Cardinality(Bumping(x)) <= Highest

Requests == /\ request \in [Request -> RequestRow]
            /\ \A q \in Request : Valid(request[q])

ClientTypes ==
    /\ Versions
    /\ cache \in [Process -> Seq(CacheEntry)]
    /\ Requests
    /\ client \in ClientRow
    /\ stream \in [p : Process, event : BOOLEAN]
----------------------------------------------------------------------------
LEMMA HighestNat == Highest \in Nat /\ Cardinality(Admin) \in Nat /\ Highest = Cardinality(Admin) + 1
<1>1. Cardinality(Admin) \in Nat
  BY AuthzAssumption, FS_CardinalityType
<1> QED
  BY <1>1 DEF Highest

LEMMA BumpingBounds ==
    ASSUME NEW x
    PROVE  /\ IsFiniteSet(Bumping(x)) /\ Cardinality(Bumping(x)) \in Nat
           /\ Cardinality(Bumping(x)) <= Cardinality(Admin)
<1>1. Bumping(x) \subseteq Admin
  BY DEF Bumping
<1> QED
  BY <1>1, AuthzAssumption, FS_Subset, FS_CardinalityType

\* A version with room is one that a token may hold.
LEMMA VersionsInToken ==
    ASSUME Versions, NEW x \in Row
    PROVE  version[x] \in 0..Highest
<1>1. version[x] \in Nat /\ version[x] + Cardinality(Bumping(x)) <= Highest
  BY DEF Versions
<1> QED
  BY <1>1, HighestNat, BumpingBounds

LEMMA TokenIs == Token = [Row -> 0..Highest] /\ Existing = [Row -> 1..Highest] /\ Existing \subseteq Token
<1>1. Token = [Row -> 0..Highest] /\ Existing = [Row -> 1..Highest]
  BY DEF Token, Existing, Highest
<1> QED
  BY <1>1, HighestNat

LEMMA MissingToken == Missing \in Token /\ \A x \in Row : Missing[x] = 0
  BY TokenIs, HighestNat DEF Missing
----------------------------------------------------------------------------
(* Requests keep their shape *)

LEMMA NewValid ==
    ASSUME NEW p \in Process \cup {NoProcess}, NEW kind \in {"token", "company", "all"},
           NEW c \in Company \cup {All, NoCompany}, NEW bypass \in BOOLEAN,
           kind \in {"company", "all"} => c \in Company \cup {All} /\ (bypass \/ p \in Process),
           kind = "all" => c = All
    PROVE  Valid(NewRequest(p, kind, c, bypass))
<1>1. Nothing \in SeenRow /\ 1 \in 1..Len(Parts)
  BY TheParts DEF Nothing, SeenRow
<1>2. IdleRequest \in RequestRow
  BY <1>1, MissingToken DEF IdleRequest, RequestRow
<1>3. PICK r : r = [IdleRequest EXCEPT !.pc = "token", !.p = p, !.kind = kind, !.company = c,
                                       !.bypass = bypass]
  OBVIOUS
<1>4. r \in RequestRow
  BY <1>2, <1>3 DEF RequestRow
<1>5. /\ r.pc = "token" /\ r.create = IdleRequest.create /\ r.kind = kind /\ r.company = c
      /\ r.bypass = bypass /\ r.p = p
  BY <1>2, <1>3 DEF RequestRow
<1>6. IdleRequest.create = {}
  BY DEF IdleRequest
<1>7. Valid(r)
  BY <1>4, <1>5, <1>6 DEF Valid, InnerOf
<1> QED
  BY <1>3, <1>7 DEF NewRequest

LEMMA IdleValid == Valid(IdleRequest)
<1>1. Nothing \in SeenRow /\ 1 \in 1..Len(Parts)
  BY TheParts DEF Nothing, SeenRow
<1>2. IdleRequest \in RequestRow
  BY <1>1, MissingToken DEF IdleRequest, RequestRow
<1>3. IdleRequest.pc = "idle" /\ IdleRequest.create = {} /\ IdleRequest.kind = "none"
  BY DEF IdleRequest
<1> QED
  BY <1>2, <1>3 DEF Valid, InnerOf

\* From one company of an answer for all to the next one, or to the end.
LEMMA NextValid ==
    ASSUME NEW r \in RequestRow, NEW value \in BOOLEAN, NEW x \in NextCompany(r, value),
           r.create = {}, r.kind \in {"company", "all"}, r.outer \in Existing,
           r.bypass \/ r.p \in Process
    PROVE  Valid(x)
<1>1. CASE r.todo = {}
  <2>1. x = [r EXCEPT !.pc = "persist", !.company = All, !.token = r.outer,
                      !.value = r.any \/ value]
    BY <1>1 DEF NextCompany
  <2>2. x \in RequestRow
    BY <2>1 DEF RequestRow
  <2>3. /\ x.pc = "persist" /\ x.company = All /\ x.token = r.outer /\ x.create = {}
        /\ x.kind = r.kind /\ x.outer = r.outer /\ x.bypass = r.bypass /\ x.p = r.p
    BY <2>1 DEF RequestRow
  <2> QED
    BY <2>2, <2>3 DEF Valid, InnerOf
<1>2. CASE r.todo # {}
  <2>1. PICK c \in r.todo :
            x = [r EXCEPT !.pc = "token", !.company = c, !.token = Missing, !.todo = @ \ {c},
                          !.any = @ \/ value, !.value = FALSE]
    BY <1>2 DEF NextCompany
  <2>2. c \in Company
    BY DEF RequestRow
  <2>3. x \in RequestRow
    BY <2>1, <2>2, MissingToken DEF RequestRow
  <2>4. /\ x.pc = "token" /\ x.company = c /\ x.create = {} /\ x.kind = r.kind
        /\ x.outer = r.outer /\ x.bypass = r.bypass /\ x.p = r.p
    BY <2>1 DEF RequestRow
  <2> QED
    BY <2>2, <2>3, <2>4 DEF Valid, InnerOf
<1> QED
  BY <1>1, <1>2

\* A request with a token and a value answers, or goes on with the next company.
LEMMA ResolvedValid ==
    ASSUME NEW r, Valid(r), r.pc \in {"lookup", "persist"}, NEW value \in BOOLEAN,
           NEW x \in Resolved(r, value)
    PROVE  Valid(x)
<1>1. /\ r \in RequestRow /\ r.create = {} /\ r.kind \in {"company", "all"}
      /\ r.token \in Existing /\ (r.bypass \/ r.p \in Process)
      /\ r.company \in Company \cup {All} /\ (InnerOf(r) => r.outer \in Existing)
  BY DEF Valid
<1>2. CASE InnerOf(r)
  BY <1>1, <1>2, NextValid DEF Resolved
<1>3. CASE ~InnerOf(r)
  <2>1. x = [r EXCEPT !.pc = "answer", !.value = value]
    BY <1>3 DEF Resolved
  <2>2. x \in RequestRow
    BY <1>1, <2>1 DEF RequestRow
  <2>3. /\ x.pc = "answer" /\ x.company = r.company /\ x.create = {} /\ x.kind = r.kind
        /\ x.outer = r.outer /\ x.bypass = r.bypass /\ x.p = r.p /\ x.token = r.token
    BY <1>1, <2>1 DEF RequestRow
  <2> QED
    BY <1>1, <1>3, <2>2, <2>3 DEF Valid, InnerOf
<1> QED
  BY <1>2, <1>3
----------------------------------------------------------------------------
(* The steps of a resolution *)

LEMMA FindsNoVersion ==
    ASSUME ClientTypes, NEW q \in Request, NEW v \in Row, FindNoVersion(q, v)
    PROVE  \E x : SetRequest(q, x) /\ Valid(x)
<1>1. PICK r : r = request[q]
  OBVIOUS
<1>2. Valid(r) /\ r \in RequestRow /\ r.pc = "token" /\ r.token[v] = 0
  BY <1>1 DEF ClientTypes, Requests, Valid, FindNoVersion
<1>3. PICK x : x = [r EXCEPT !.create = @ \cup {v}]
  OBVIOUS
<1>4. SetRequest(q, x)
  BY <1>1, <1>3 DEF FindNoVersion
<1>5. x \in RequestRow
  BY <1>2, <1>3 DEF RequestRow
<1>6. /\ x.pc = r.pc /\ x.company = r.company /\ x.create = r.create \cup {v} /\ x.kind = r.kind
      /\ x.outer = r.outer /\ x.bypass = r.bypass /\ x.p = r.p /\ x.token = r.token
  BY <1>2, <1>3 DEF RequestRow
<1> QED
  BY <1>2, <1>4, <1>5, <1>6 DEF Valid, InnerOf

LEMMA CreatesVersion ==
    ASSUME ClientTypes, NEW q \in Request, NEW v \in Row, CreateVersion(q, v)
    PROVE  \E x : SetRequest(q, x) /\ Valid(x)
<1>1. PICK r : r = request[q]
  OBVIOUS
<1>2. Valid(r) /\ r \in RequestRow
  BY <1>1 DEF ClientTypes, Requests, Valid
<1>3. PICK x : x = [r EXCEPT !.create = @ \ {v}]
  OBVIOUS
<1>4. SetRequest(q, x)
  BY <1>1, <1>3 DEF CreateVersion
<1>5. x \in RequestRow
  BY <1>2, <1>3 DEF RequestRow
<1>6. /\ x.pc = r.pc /\ x.company = r.company /\ x.create = r.create \ {v} /\ x.kind = r.kind
      /\ x.outer = r.outer /\ x.bypass = r.bypass /\ x.p = r.p /\ x.token = r.token
  BY <1>2, <1>3 DEF RequestRow
<1> QED
  BY <1>2, <1>4, <1>5, <1>6 DEF Valid, InnerOf

\* With both rows the token is one of existing rows.
LEMMA ReadsVersion ==
    ASSUME ClientTypes, NEW q \in Request, NEW v \in Row, ReadVersion(q, v)
    PROVE  \E x : SetRequest(q, x) /\ Valid(x)
<1>1. PICK r : r = request[q]
  OBVIOUS
<1>2. Valid(r) /\ r \in RequestRow /\ r.pc = "token" /\ v \notin r.create /\ version[v] # 0
  BY <1>1 DEF ClientTypes, Requests, Valid, ReadVersion, MustExist
<1>3. r.kind \in {"none", "token", "company", "all"} /\ r.token \in Token
  BY <1>2 DEF RequestRow
<1>4. version[v] \in 1..Highest
  BY <1>2, VersionsInToken, HighestNat DEF ClientTypes
<1>5. PICK token : token = [r.token EXCEPT ![v] = version[v]]
  OBVIOUS
<1>6. token \in Token /\ token[v] # 0 /\ \A y \in Row \ {v} : token[y] = r.token[y]
  BY <1>3, <1>4, <1>5, TokenIs, HighestNat
<1>7. PICK pc : pc = IF \E y \in Row \ {v} : token[y] = 0 THEN "token"
                     ELSE IF r.kind = "token" THEN "answer" ELSE "lookup"
  OBVIOUS
<1>8. PICK x : x = [r EXCEPT !.token = token, !.pc = pc]
  OBVIOUS
<1>9. SetRequest(q, x)
  BY <1>1, <1>5, <1>7, <1>8 DEF ReadVersion
<1>10. pc \in {"token", "answer", "lookup"}
  BY <1>7
<1>11. x \in RequestRow
  BY <1>2, <1>6, <1>8, <1>10 DEF RequestRow
<1>12. /\ x.pc = pc /\ x.company = r.company /\ x.create = r.create /\ x.kind = r.kind
       /\ x.outer = r.outer /\ x.bypass = r.bypass /\ x.p = r.p /\ x.token = token
  BY <1>2, <1>8 DEF RequestRow
<1>13. \A y \in x.create : x.token[y] = 0
  <2>1. r.create \subseteq Row \ {v}
    BY <1>2 DEF RequestRow
  <2> QED
    BY <1>2, <1>6, <1>12, <2>1 DEF Valid
<1>14. pc # "token" => token \in Existing /\ r.create = {}
  <2> SUFFICES ASSUME pc # "token" PROVE token \in Existing /\ r.create = {}
    OBVIOUS
  <2>1. \A y \in Row : token[y] # 0
    BY <1>6, <1>7
  <2>2. token \in Existing
    BY <1>6, <2>1, TokenIs, HighestNat
  <2>3. \A y \in r.create : y \in Row /\ token[y] = 0
    BY <1>2, <1>12, <1>13 DEF RequestRow
  <2> QED
    BY <2>1, <2>2, <2>3
<1>15. pc = "lookup" => r.kind \in {"company", "all"}
  BY <1>2, <1>3, <1>7 DEF Valid
<1> QED
  BY <1>2, <1>9, <1>10, <1>11, <1>12, <1>13, <1>14, <1>15 DEF Valid, InnerOf

\* What the cache of a process answers is a value.
LEMMA HitsAreValues ==
    ASSUME cache \in [Process -> Seq(CacheEntry)], NEW r,
           r.bypass \in BOOLEAN, r.bypass \/ r.p \in Process
    PROVE  Hits(r) \subseteq BOOLEAN
<1>1. CASE r.bypass
  BY <1>1 DEF Hits
<1>2. CASE ~r.bypass
  <2>1. PICK s \in Seq(CacheEntry) : s = cache[r.p]
    BY <1>2
  <2>2. \A i \in DOMAIN s : s[i] \in CacheEntry
    OBVIOUS
  <2>3. \A i \in DOMAIN s : s[i].value \in BOOLEAN
    BY <2>2 DEF CacheEntry
  <2> QED
    BY <1>2, <2>1, <2>3 DEF Hits, Kept
<1> QED
  BY <1>1, <1>2

LEMMA LooksUp ==
    ASSUME ClientTypes, NEW q \in Request, Lookup(q)
    PROVE  \E x : SetRequest(q, x) /\ Valid(x)
<1>1. PICK r : r = request[q]
  OBVIOUS
<1>2. Valid(r) /\ r \in RequestRow /\ r.pc = "lookup"
  BY <1>1 DEF ClientTypes, Requests, Valid, Lookup
<1>3. r.bypass \in BOOLEAN /\ (r.bypass \/ r.p \in Process)
  BY <1>2 DEF Valid, RequestRow
<1>4. ASSUME NEW value \in Hits(r), NEW next \in Resolved(r, value), SetRequest(q, next)
      PROVE  \E x : SetRequest(q, x) /\ Valid(x)
  <2>1. value \in BOOLEAN
    BY <1>3, HitsAreValues DEF ClientTypes
  <2> QED
    BY <1>2, <1>4, <2>1, ResolvedValid
<1>5. CASE SetRequest(q, [r EXCEPT !.pc = IF r.company = All THEN "companies" ELSE "read"])
  <2>1. PICK pc \in {"companies", "read"} : SetRequest(q, [r EXCEPT !.pc = pc])
    BY <1>5
  <2>2. PICK x : x = [r EXCEPT !.pc = pc]
    OBVIOUS
  <2>3. x \in RequestRow
    BY <1>2, <2>2 DEF RequestRow
  <2>4. /\ x.pc = pc /\ x.company = r.company /\ x.create = r.create /\ x.kind = r.kind
        /\ x.outer = r.outer /\ x.bypass = r.bypass /\ x.p = r.p /\ x.token = r.token
    BY <1>2, <2>2 DEF RequestRow
  <2>5. Valid(x)
    BY <1>2, <2>3, <2>4 DEF Valid, InnerOf
  <2> QED
    BY <2>1, <2>2, <2>5
<1> QED
  BY <1>1, <1>4, <1>5 DEF Lookup

LEMMA ReadsCompanies ==
    ASSUME db \in Db, ClientTypes, NEW q \in Request, ReadCompanies(q)
    PROVE  \E x : SetRequest(q, x) /\ Valid(x)
<1>1. PICK r : r = request[q]
  OBVIOUS
<1>2. Valid(r) /\ r \in RequestRow /\ r.pc = "companies"
  BY <1>1 DEF ClientTypes, Requests, Valid, ReadCompanies
<1>3. PICK s : s = [r EXCEPT !.outer = r.token, !.todo = db.company]
  OBVIOUS
<1>4. s \in RequestRow
  <2>1. db.company \subseteq Company
    BY DEF Db
  <2> QED
    BY <1>2, <1>3, <2>1 DEF RequestRow
<1>5. /\ s.create = r.create /\ s.kind = r.kind /\ s.outer = r.token
      /\ s.bypass = r.bypass /\ s.p = r.p
  BY <1>2, <1>3 DEF RequestRow
<1>6. PICK x \in NextCompany(s, FALSE) : SetRequest(q, x)
  BY <1>1, <1>3 DEF ReadCompanies
<1>7. /\ s.create = {} /\ s.kind \in {"company", "all"} /\ s.outer \in Existing
      /\ s.bypass \/ s.p \in Process
  BY <1>2, <1>5 DEF Valid
<1> QED
  BY <1>4, <1>6, <1>7, NextValid

\* The answers of a step are answers of the parts.
LEMMA SeenTyped ==
    ASSUME db \in Db, NEW r, r.seen \in SeenRow, NEW lost
    PROVE  SeenAfter(r, lost) \in SeenRow
<1> DEFINE c == r.company
           old == r.seen
           read == ReadNow(r)
           seen == [part \in Part |-> IF part \in lost THEN Nothing[part]
                                      ELSE IF part \in read THEN Answered(db, c, part)
                                      ELSE old[part]]
<1>1. /\ old.company \in BOOLEAN /\ old.role \in BOOLEAN /\ old.grant \in BOOLEAN
      /\ old.active \in BOOLEAN /\ old.denied \in BOOLEAN
      /\ old.override \in {"NONE", "ALLOW", "DENY"}
  BY DEF SeenRow
<1>2. /\ db.role \in BOOLEAN /\ db.grant \in BOOLEAN
      /\ db.active \in BOOLEAN /\ db.denied \in BOOLEAN
      /\ db.override \in {"NONE", "ALLOW", "DENY"}
  BY DEF Db
<1>3. /\ Answered(db, c, "company") \in BOOLEAN /\ Answered(db, c, "role") \in BOOLEAN
      /\ Answered(db, c, "grant") \in BOOLEAN /\ Answered(db, c, "active") \in BOOLEAN
      /\ Answered(db, c, "denied") \in BOOLEAN
      /\ Answered(db, c, "override") \in {"NONE", "ALLOW", "DENY"}
  BY <1>2 DEF Answered
<1>7. /\ Nothing["company"] \in BOOLEAN /\ Nothing["role"] \in BOOLEAN
      /\ Nothing["grant"] \in BOOLEAN /\ Nothing["active"] \in BOOLEAN
      /\ Nothing["denied"] \in BOOLEAN /\ Nothing["override"] \in {"NONE", "ALLOW", "DENY"}
  BY DEF Nothing
<1> HIDE DEF c, old, read
<1>4. /\ seen.company \in BOOLEAN /\ seen.role \in BOOLEAN /\ seen.grant \in BOOLEAN
      /\ seen.active \in BOOLEAN /\ seen.denied \in BOOLEAN
      /\ seen.override \in {"NONE", "ALLOW", "DENY"}
  BY <1>1, <1>3, <1>7, TheParts DEF old
<1>5. seen = [company |-> seen.company, role |-> seen.role, grant |-> seen.grant,
              active |-> seen.active, override |-> seen.override, denied |-> seen.denied]
  BY TheParts
<1> HIDE DEF seen
<1>6. seen \in SeenRow
  BY <1>4, <1>5 DEF SeenRow
<1> QED
  BY <1>6 DEF seen, SeenAfter, c, old, read

LEMMA ReadsParts ==
    ASSUME db \in Db, ClientTypes, NEW q \in Request, ReadParts(q) \/ ReadLess(q)
    PROVE  \E x : SetRequest(q, x) /\ Valid(x)
<1>1. PICK r : r = request[q]
  OBVIOUS
<1>2. Valid(r) /\ r \in RequestRow /\ r.pc = "read"
  BY <1>1 DEF ClientTypes, Requests, Valid, ReadParts, ReadLess
<1>3. r.seen \in SeenRow /\ r.part \in 1..6
  BY <1>2, TheParts DEF RequestRow
<1>4. PICK last \in r.part..6 : last = LastOfStep(r.part)
  BY <1>3, LastOfStepInRange
<1>5. PICK lost, y : /\ y = AfterRead(r, lost)
                     /\ SetRequest(q, y) \/ SetRequest(q, [y EXCEPT !.calm = FALSE])
  BY <1>1 DEF ReadParts, ReadLess
<1>6. PICK seen \in SeenRow : seen = SeenAfter(r, lost)
  BY <1>3, SeenTyped
<1>7. \/ y = [r EXCEPT !.pc = "persist", !.seen = Nothing, !.part = 1, !.value = Allowed(seen)]
      \/ last # 6 /\ y = [r EXCEPT !.seen = seen, !.part = last + 1]
  BY <1>4, <1>5, <1>6, TheParts DEF AfterRead
<1>8. y \in RequestRow /\ y.pc \in {"read", "persist"}
  <2>1. PICK value \in BOOLEAN : value = Allowed(seen)
    BY DEF Allowed
  <2>2. Nothing \in SeenRow /\ 1 \in 1..Len(Parts)
    BY TheParts DEF Nothing, SeenRow
  <2>3. CASE y = [r EXCEPT !.pc = "persist", !.seen = Nothing, !.part = 1, !.value = value]
    BY <1>2, <2>2, <2>3 DEF RequestRow
  <2>4. CASE last # 6 /\ y = [r EXCEPT !.seen = seen, !.part = last + 1]
    <3>1. PICK part \in 1..Len(Parts) : part = last + 1
      BY <1>3, <2>4, TheParts
    <3>2. y = [r EXCEPT !.seen = seen, !.part = part]
      BY <2>4, <3>1
    <3> QED
      BY <1>2, <3>2 DEF RequestRow
  <2> QED
    BY <1>7, <2>1, <2>3, <2>4
<1>9. /\ y.company = r.company /\ y.create = r.create /\ y.kind = r.kind
      /\ y.outer = r.outer /\ y.bypass = r.bypass /\ y.p = r.p /\ y.token = r.token
  BY <1>2, <1>7 DEF RequestRow
<1>10. PICK x : SetRequest(q, x) /\ (x = y \/ x = [y EXCEPT !.calm = FALSE])
  BY <1>5
<1>11. /\ x \in RequestRow /\ x.pc \in {"read", "persist"}
       /\ x.company = r.company /\ x.create = r.create /\ x.kind = r.kind
       /\ x.outer = r.outer /\ x.bypass = r.bypass /\ x.p = r.p /\ x.token = r.token
  BY <1>8, <1>9, <1>10 DEF RequestRow
<1>12. Valid(x)
  BY <1>2, <1>11 DEF Valid, InnerOf
<1> QED
  BY <1>10, <1>12

\* The entry that is kept has the key of the request and its value.
LEMMA Persists ==
    ASSUME ClientTypes, NEW q \in Request, Persist(q)
    PROVE  /\ \E x : SetRequest(q, x) /\ Valid(x)
           /\ cache' \in [Process -> Seq(CacheEntry)]
<1>1. PICK r : r = request[q]
  OBVIOUS
<1>2. Valid(r) /\ r \in RequestRow /\ r.pc = "persist"
  BY <1>1 DEF ClientTypes, Requests, Valid, Persist
<1>3. /\ r.token \in Existing /\ r.company \in Company \cup {All} /\ r.value \in BOOLEAN
      /\ r.bypass \in BOOLEAN /\ (r.bypass \/ r.p \in Process)
  BY <1>2 DEF Valid, RequestRow
<1>4. \E x : SetRequest(q, x) /\ Valid(x)
  <2>1. PICK x \in Resolved(r, r.value) : SetRequest(q, x)
    BY <1>1 DEF Persist
  <2> QED
    BY <1>2, <1>3, <2>1, ResolvedValid
<1>5. CASE r.bypass
  <2>1. cache' = cache
    BY <1>1, <1>5 DEF Persist
  <2> QED
    BY <1>4, <2>1 DEF ClientTypes
<1>6. CASE ~r.bypass
  <2>1. PICK entry : entry = [company |-> r.company, token |-> r.token, value |-> r.value]
    OBVIOUS
  <2>2. entry \in CacheEntry
    BY <1>3, <2>1 DEF CacheEntry
  <2>3. PICK s \in Seq(CacheEntry) : s = cache[r.p]
    BY <1>3, <1>6 DEF ClientTypes
  <2>4. PICK others : others = IF Kept(r) = {} THEN s ELSE RemoveAt(s, CHOOSE i \in Kept(r) : TRUE)
    OBVIOUS
  <2>5. others \in Seq(CacheEntry)
    <3>1. CASE Kept(r) = {}
      BY <2>4, <3>1
    <3>2. CASE Kept(r) # {}
      <4>1. PICK i : i = CHOOSE j \in Kept(r) : TRUE
        OBVIOUS
      <4>2. i \in Kept(r)
        BY <3>2, <4>1
      <4>3. i \in 1..Len(s)
        BY <4>2, <2>3 DEF Kept
      <4>4. others = SubSeq(s, 1, i - 1) \o SubSeq(s, i + 1, Len(s))
        BY <2>4, <3>2, <4>1 DEF RemoveAt
      <4>5. SubSeq(s, 1, i - 1) \in Seq(CacheEntry) /\ SubSeq(s, i + 1, Len(s)) \in Seq(CacheEntry)
        BY <2>3, <4>3
      <4> QED
        BY <4>4, <4>5
    <3> QED
      BY <3>1, <3>2
  <2>6. cache' = [cache EXCEPT ![r.p] = Append(others, entry)]
    BY <1>1, <1>6, <2>1, <2>3, <2>4 DEF Persist
  <2>7. Append(others, entry) \in Seq(CacheEntry)
    BY <2>2, <2>5
  <2>8. cache' \in [Process -> Seq(CacheEntry)]
    BY <1>6, <2>6, <2>7 DEF ClientTypes
  <2> QED
    BY <1>4, <2>8
<1> QED
  BY <1>3, <1>5, <1>6
----------------------------------------------------------------------------
(* Versions *)

\* An upsert leaves room for every administrator.
LEMMA CreateRoom ==
    ASSUME Versions, NEW q \in Request, NEW v \in Row, CreateVersion(q, v)
    PROVE  Versions'
<1>1. version' = [version EXCEPT ![v] = 1] /\ admin' = admin
  BY DEF CreateVersion
<1>2. ASSUME NEW x \in Row PROVE (version[x] + Cardinality(Bumping(x)) <= Highest)'
  <2>1. Bumping(x)' = Bumping(x)
    BY <1>1 DEF Bumping
  <2>2. version'[x] = 1 \/ version'[x] = version[x]
    BY <1>1 DEF Versions
  <2> QED
    BY <2>1, <2>2, HighestNat, BumpingBounds DEF Versions
<1> QED
  BY <1>1, <1>2 DEF Versions

\* Who is not about to add to a row adds nothing.
LEMMA AdminRoom ==
    ASSUME Versions, NEW a \in Admin, NEW row \in AdminRow, SetAdmin(a, row), version' = version,
           row.pc # "ensured"
    PROVE  Versions'
<1>1. admin' \in [Admin -> AdminRow]
  BY DEF Versions, SetAdmin
<1>2. ASSUME NEW x \in Row PROVE (version[x] + Cardinality(Bumping(x)) <= Highest)'
  <2>1. Bumping(x)' \subseteq Bumping(x)
    BY DEF Bumping, SetAdmin, Versions
  <2>2. Cardinality(Bumping(x)') <= Cardinality(Bumping(x)) /\ Cardinality(Bumping(x)') \in Nat
    BY <2>1, BumpingBounds, FS_Subset, FS_CardinalityType
  <2> QED
    BY <2>2, BumpingBounds, HighestNat DEF Versions
<1> QED
  BY <1>1, <1>2 DEF Versions

LEMMA EnsureRoom ==
    ASSUME Versions, NEW a \in Admin, EnsureRows(a) PROVE Versions'
<1>1. PICK r \in AdminRow : r = admin[a]
  BY DEF Versions
<1>2. PICK row : row = [r EXCEPT !.pc = "ensured"]
  OBVIOUS
<1>3. row \in AdminRow /\ row.pc = "ensured" /\ row.rows = r.rows /\ r.pc = "changed"
  BY <1>1, <1>2 DEF AdminRow, EnsureRows
<1>4. /\ admin' = [admin EXCEPT ![a] = row]
      /\ version' = [x \in Row |-> IF x \in r.rows THEN 1 ELSE version[x]]
  BY <1>1, <1>2 DEF EnsureRows, SetAdmin
<1>5. admin' \in [Admin -> AdminRow] /\ version' \in [Row -> Nat]
  BY <1>3, <1>4 DEF Versions
<1>6. ASSUME NEW x \in Row PROVE (version[x] + Cardinality(Bumping(x)) <= Highest)'
  <2>1. CASE x \in r.rows
    <3>1. Bumping(x)' \subseteq Admin
      BY DEF Bumping
    <3>2. Cardinality(Bumping(x)') <= Cardinality(Admin) /\ Cardinality(Bumping(x)') \in Nat
      BY <3>1, AuthzAssumption, FS_Subset, FS_CardinalityType
    <3>3. version'[x] = 1
      BY <1>4, <2>1
    <3> QED
      BY <3>2, <3>3, HighestNat
  <2>2. CASE x \notin r.rows
    <3>1. Bumping(x)' = Bumping(x)
      BY <1>1, <1>3, <1>4, <2>2 DEF Bumping, Versions
    <3>2. version'[x] = version[x]
      BY <1>4, <2>2
    <3> QED
      BY <3>1, <3>2 DEF Versions
  <2> QED
    BY <2>1, <2>2
<1> QED
  BY <1>5, <1>6 DEF Versions

\* What is added was one of what was to be added.
LEMMA IncrementRoom ==
    ASSUME Versions, NEW a \in Admin, Increment(a) PROVE Versions'
<1>1. PICK r \in AdminRow : r = admin[a]
  BY DEF Versions
<1>2. PICK row : row = [r EXCEPT !.pc = "bumped"]
  OBVIOUS
<1>3. row \in AdminRow /\ row.pc = "bumped" /\ row.rows = r.rows /\ r.pc = "ensured"
  BY <1>1, <1>2 DEF AdminRow, Increment
<1>4. /\ admin' = [admin EXCEPT ![a] = row]
      /\ version' = [x \in Row |-> IF x \in r.rows THEN version[x] + 1 ELSE version[x]]
  BY <1>1, <1>2 DEF Increment, SetAdmin
<1>5. admin' \in [Admin -> AdminRow] /\ version' \in [Row -> Nat]
  BY <1>3, <1>4 DEF Versions
<1>6. ASSUME NEW x \in Row PROVE (version[x] + Cardinality(Bumping(x)) <= Highest)'
  <2>1. Bumping(x)' = Bumping(x) \ {a}
    BY <1>1, <1>3, <1>4 DEF Bumping, Versions
  <2>2. x \in r.rows => a \in Bumping(x)
    BY <1>1, <1>3 DEF Bumping
  <2>3. Cardinality(Bumping(x) \ {a}) =
            IF a \in Bumping(x) THEN Cardinality(Bumping(x)) - 1 ELSE Cardinality(Bumping(x))
    BY BumpingBounds, FS_RemoveElement
  <2> QED
    BY <1>4, <2>1, <2>2, <2>3, BumpingBounds, HighestNat DEF Versions
<1> QED
  BY <1>5, <1>6 DEF Versions
----------------------------------------------------------------------------
(* Every step keeps the types *)

LEMMA OneRequest ==
    ASSUME Requests, NEW q \in Request, NEW x, SetRequest(q, x), Valid(x)
    PROVE  Requests'
<1>1. x \in RequestRow
  BY DEF Valid
<1>2. request' \in [Request -> RequestRow]
  BY <1>1 DEF Requests, SetRequest
<1>3. \A y \in Request : Valid(request'[y])
  BY DEF Requests, SetRequest
<1> QED
  BY <1>2, <1>3 DEF Requests

LEMMA SameVersions ==
    ASSUME Versions, UNCHANGED <<version, admin>> PROVE Versions'
<1>1. \A x \in Row : Bumping(x)' = Bumping(x)
  BY DEF Bumping
<1> QED
  BY <1>1 DEF Versions

LEMMA ResolveTypes ==
    ASSUME db \in Db, ClientTypes, NEW q \in Request, Resolve(q) \/ ReadLess(q), KeepClient
    PROVE  ClientTypes'
<1>0. UNCHANGED <<admin, client, stream>>
  BY DEF Resolve, FindNoVersion, CreateVersion, ReadVersion, Lookup, ReadCompanies, ReadParts, ReadLess,
         Persist, KeepClient
<1>1. Requests'
  <2>1. \E x : SetRequest(q, x) /\ Valid(x)
    BY FindsNoVersion, CreatesVersion, ReadsVersion, LooksUp, ReadsCompanies, ReadsParts, Persists
    DEF Resolve
  <2> QED
    BY <2>1, OneRequest DEF ClientTypes
<1>2. Versions'
  <2>1. CASE version' = version
    BY <1>0, <2>1, SameVersions DEF ClientTypes
  <2>2. CASE \E v \in Row : CreateVersion(q, v)
    BY <2>2, CreateRoom DEF ClientTypes
  <2> QED
    BY <2>1, <2>2
    DEF Resolve, FindNoVersion, ReadVersion, Lookup, ReadCompanies, ReadParts, ReadLess, Persist, tables
<1>3. cache' \in [Process -> Seq(CacheEntry)]
  <2>1. CASE cache' = cache
    BY <2>1 DEF ClientTypes
  <2>2. CASE Persist(q)
    BY <2>2, Persists
  <2> QED
    BY <2>1, <2>2
    DEF Resolve, FindNoVersion, CreateVersion, ReadVersion, Lookup, ReadCompanies, ReadParts,
        ReadLess
<1> QED
  BY <1>0, <1>1, <1>2, <1>3 DEF ClientTypes

\* A change of the tables tells every request.
LEMMA ChangeTypes ==
    ASSUME ClientTypes, NEW a \in Admin, NEW p \in Process, NEW part, NEW value,
           Change(a, p, part, value), KeepClient
    PROVE  ClientTypes'
<1>1. PICK r \in AdminRow : r = admin[a]
  BY DEF ClientTypes, Versions
<1>2. PICK row : row = [pc |-> "changed", p |-> p, rows |-> r.rows \cup RowsOf(part)]
  OBVIOUS
<1>3. RowsOf(part) \subseteq Row
  BY DEF RowsOf, Row
<1>4. row \in AdminRow /\ row.pc = "changed"
  BY <1>1, <1>2, <1>3 DEF AdminRow
<1>5. Versions'
  BY <1>1, <1>2, <1>4, AdminRoom DEF Change, ClientTypes
<1>6. ASSUME NEW q \in Request PROVE Valid(request[q])'
  <2>1. PICK o : o = request[q]
    OBVIOUS
  <2>2. Valid(o) /\ o \in RequestRow
    BY <2>1 DEF ClientTypes, Requests, Valid
  <2>3. PICK x : x = [o EXCEPT !.calm = FALSE]
    OBVIOUS
  <2>4. request'[q] = x
    BY <2>1, <2>3 DEF Change
  <2>5. x \in RequestRow
    BY <2>2, <2>3 DEF RequestRow
  <2>6. /\ x.pc = o.pc /\ x.company = o.company /\ x.create = o.create /\ x.kind = o.kind
        /\ x.outer = o.outer /\ x.bypass = o.bypass /\ x.p = o.p /\ x.token = o.token
    BY <2>2, <2>3 DEF RequestRow
  <2>7. Valid(x)
    BY <2>2, <2>5, <2>6 DEF Valid, InnerOf
  <2> QED
    BY <2>4, <2>7
<1>7. Requests'
  <2>1. \A q \in Request : request'[q] \in RequestRow
    BY <1>6 DEF Valid
  <2>2. request' = [q \in Request |-> request'[q]]
    BY DEF Change
  <2>3. request' \in [Request -> RequestRow]
    BY <2>1, <2>2
  <2> QED
    BY <1>6, <2>3 DEF Requests
<1> QED
  BY <1>5, <1>7 DEF ClientTypes, Change, KeepClient

LEMMA IdleAdminRow == IdleAdmin \in AdminRow /\ IdleAdmin.pc = "idle"
  BY DEF IdleAdmin, AdminRow

LEMMA AdminTypes ==
    ASSUME ClientTypes, NEW a \in Admin,
           \/ (EnsureRows(a) \/ Increment(a) \/ AdminFails(a)) /\ KeepClient
           \/ Notify(a)
    PROVE  ClientTypes'
<1>1. Versions'
  <2>1. CASE EnsureRows(a)
    BY <2>1, EnsureRoom DEF ClientTypes
  <2>2. CASE Increment(a)
    BY <2>2, IncrementRoom DEF ClientTypes
  <2>3. CASE AdminFails(a)
    BY <2>3, IdleAdminRow, AdminRoom DEF AdminFails, ClientTypes, tables
  <2>4. CASE Notify(a)
    BY <2>4, IdleAdminRow, AdminRoom DEF Notify, ClientTypes, tables
  <2> QED
    BY <2>1, <2>2, <2>3, <2>4
<1>2. UNCHANGED <<cache, request, client>>
  BY DEF EnsureRows, Increment, AdminFails, Notify, KeepClient
<1>3. stream' \in [p : Process, event : BOOLEAN]
  BY DEF EnsureRows, Increment, AdminFails, Notify, KeepClient, ClientTypes
<1>4. Requests'
  BY <1>2 DEF Requests, ClientTypes
<1> QED
  BY <1>1, <1>2, <1>3, <1>4 DEF ClientTypes

\* The steps of the browser and of the guard leave what the server keeps alone.
LEMMA ServerSame ==
    ASSUME ClientTypes, server' = server, Requests', client' \in ClientRow,
           stream' \in [p : Process, event : BOOLEAN]
    PROVE  ClientTypes'
<1>1. UNCHANGED <<version, admin, cache>>
  BY DEF server, tables
<1> QED
  BY <1>1, SameVersions DEF ClientTypes

LEMMA RefreshValid ==
    ASSUME ClientTypes
    PROVE  Valid(NewRequest(NoProcess, "company", client.company, TRUE))
<1>1. client.company \in Company
  BY DEF ClientTypes, ClientRow
<1> QED
  BY <1>1, AuthzAssumption, NewValid

LEMMA RefreshTypes ==
    ASSUME ClientTypes, Refresh(client) PROVE Requests' /\ client' \in ClientRow
<1>0. "refresh" \in Request
  BY ClientAssumption
<1>1. CASE MayRefresh
  <2>1. Requests'
    BY <1>0, <1>1, RefreshValid, OneRequest DEF Refresh, ClientTypes
  <2> QED
    BY <1>1, <2>1 DEF Refresh, SetClient, ClientTypes, ClientRow
<1>2. CASE ~MayRefresh
  BY <1>2 DEF Refresh, SetClient, ClientTypes, Requests
<1> QED
  BY <1>1, <1>2

LEMMA BrowserTypes ==
    ASSUME mix \in Mixes, ClientTypes,
           EventArrives \/ Reconnect \/ Focus \/ RefreshAnswered \/ Older \/ Poll
    PROVE  ClientTypes'
<1>0. /\ server' = server /\ "poll" \in Request /\ "refresh" \in Request
      /\ mix.processes \subseteq Process
  BY ClientAssumption
  DEF EventArrives, Reconnect, Focus, RefreshAnswered, Older, Poll, server, tables
<1>1. stream' \in [p : Process, event : BOOLEAN]
  <2>1. CASE EventArrives
    BY <2>1 DEF EventArrives, ClientTypes
  <2>2. CASE Reconnect
    BY <1>0, <2>2 DEF Reconnect, ClientTypes
  <2>3. CASE Focus \/ RefreshAnswered \/ Older \/ Poll
    BY <2>3 DEF Focus, RefreshAnswered, Older, Poll, ClientTypes
  <2> QED
    BY <2>1, <2>2, <2>3
<1>2. CASE EventArrives \/ Focus
  <2>1. Requests' /\ client' \in ClientRow
    BY <1>2, RefreshTypes DEF EventArrives, Focus
  <2> QED
    BY <1>0, <1>1, <2>1, ServerSame
<1>3. CASE RefreshAnswered
  <2>1. request["refresh"].value \in BOOLEAN
    BY <1>0 DEF ClientTypes, Requests, Valid, RequestRow
  <2>2. PICK value \in BOOLEAN : value = request["refresh"].value
    BY <2>1
  <2>3. client' \in ClientRow
    BY <1>3, <2>2 DEF RefreshAnswered, SetClient, AfterRefresh, ClientTypes, ClientRow
  <2>4. Requests'
    BY <1>0, <1>3, IdleValid, OneRequest DEF RefreshAnswered, ClientTypes
  <2> QED
    BY <1>0, <1>1, <2>3, <2>4, ServerSame
<1>4. CASE Reconnect \/ Older
  <2>1. client' \in ClientRow
    BY <1>4 DEF Reconnect, Older, SetClient, ClientTypes, ClientRow
  <2>2. Requests'
    BY <1>4 DEF Reconnect, Older, Requests, ClientTypes
  <2> QED
    BY <1>0, <1>1, <2>1, <2>2, ServerSame
<1>5. CASE Poll
  <2>1. Valid(NewRequest(NoProcess, "token", NoCompany, FALSE))
    BY NewValid
  <2>2. Requests'
    BY <1>0, <1>5, <2>1, OneRequest DEF Poll, ClientTypes
  <2> QED
    BY <1>0, <1>1, <1>5, <2>2, ServerSame DEF Poll, ClientTypes
<1> QED
  BY <1>2, <1>3, <1>4, <1>5

\* The token that is remembered is one of existing rows.
LEMMA PollTypes ==
    ASSUME ClientTypes, PollAnswered PROVE ClientTypes'
<1>0. /\ server' = server /\ stream' = stream /\ "poll" \in Request /\ "refresh" \in Request
  BY ClientAssumption DEF PollAnswered, server, tables
<1>1. PICK token : token = request["poll"].token
  OBVIOUS
<1>2. token \in Existing
  BY <1>0, <1>1 DEF PollAnswered, ClientTypes, Requests, Valid
<1>3. PICK known : known = [client EXCEPT !.last = token]
  OBVIOUS
<1>4. known \in ClientRow /\ [known EXCEPT !.busy = TRUE] \in ClientRow
  BY <1>2, <1>3 DEF ClientTypes, ClientRow
<1>5. CASE SetClient(known) /\ SetRequest("poll", IdleRequest)
  <2>1. Requests'
    BY <1>0, <1>5, IdleValid, OneRequest DEF ClientTypes
  <2> QED
    BY <1>0, <1>4, <1>5, <2>1, ServerSame DEF SetClient, ClientTypes
<1>6. CASE /\ SetClient([known EXCEPT !.busy = TRUE])
           /\ request' = [request EXCEPT !["poll"] = IdleRequest,
                 !["refresh"] = NewRequest(NoProcess, "company", client.company, TRUE)]
  <2>1. PICK new : new = NewRequest(NoProcess, "company", client.company, TRUE)
    OBVIOUS
  <2>2. Valid(new)
    BY <2>1, RefreshValid
  <2>3. ASSUME NEW q \in Request PROVE Valid(request'[q])
    BY <1>6, <2>1, <2>2, IdleValid DEF ClientTypes, Requests
  <2>4. Requests'
    <3>1. \A q \in Request : request'[q] \in RequestRow
      BY <2>3 DEF Valid
    <3>2. DOMAIN request' = Request
      BY <1>6 DEF ClientTypes, Requests
    <3>3. request' = [q \in Request |-> request'[q]]
      BY <1>6, <3>2 DEF ClientTypes, Requests
    <3>4. request' \in [Request -> RequestRow]
      BY <3>1, <3>3
    <3> QED
      BY <2>3, <3>4 DEF Requests
  <2> QED
    BY <1>0, <1>4, <1>6, <2>4, ServerSame DEF SetClient, ClientTypes
<1> QED
  BY <1>1, <1>3, <1>5, <1>6 DEF PollAnswered

LEMMA RequestTypes ==
    ASSUME mix \in Mixes, ClientTypes, NEW q \in Request,
           \/ BrowserRequestFails(q) \/ LoadAnswered(q) \/ Decided(q)
           \/ \E c \in Company : Switch(q, c)
           \/ \E c \in Company \cup {All}, bypass \in BOOLEAN :
                 \E p \in mix.processes : CanActivate(q, p, c, bypass)
    PROVE  ClientTypes'
<1>0. /\ server' = server /\ mix.processes \subseteq Process
      /\ client \in ClientRow /\ stream \in [p : Process, event : BOOLEAN]
  BY ClientAssumption
  DEF BrowserRequestFails, LoadAnswered, Decided, Switch, CanActivate, ClientTypes, server, tables
<1>1. CASE BrowserRequestFails(q)
  <2>1. client' \in ClientRow
    BY <1>0, <1>1 DEF BrowserRequestFails, SetClient, AfterRefresh, ClientRow
  <2>2. Requests'
    BY <1>1, IdleValid, OneRequest DEF BrowserRequestFails, ClientTypes
  <2> QED
    BY <1>0, <1>1, <2>1, <2>2, ServerSame DEF BrowserRequestFails
<1>2. CASE LoadAnswered(q)
  <2>1. PICK value \in BOOLEAN : value = request[q].value
    BY DEF ClientTypes, Requests, Valid, RequestRow
  <2>2. client' \in ClientRow
    BY <1>0, <1>2, <2>1 DEF LoadAnswered, SetClient, ClientRow
  <2>3. Requests'
    BY <1>2, IdleValid, OneRequest DEF LoadAnswered, ClientTypes
  <2> QED
    BY <1>0, <1>2, <2>2, <2>3, ServerSame DEF LoadAnswered
<1>3. CASE Decided(q)
  <2>1. Requests'
    BY <1>3, IdleValid, OneRequest DEF Decided, ClientTypes
  <2> QED
    BY <1>0, <1>3, <2>1, ServerSame DEF Decided
<1>4. ASSUME NEW c \in Company, Switch(q, c) PROVE ClientTypes'
  <2>1. Valid(NewRequest(NoProcess, "company", c, TRUE))
    BY NewValid
  <2>2. Requests'
    BY <1>4, <2>1, OneRequest DEF Switch, ClientTypes
  <2>3. client' \in ClientRow
    BY <1>0, <1>4 DEF Switch, SetClient, ClientRow
  <2>4. stream' \in [p : Process, event : BOOLEAN]
    BY <1>0, <1>4 DEF Switch
  <2> QED
    BY <1>0, <2>2, <2>3, <2>4, ServerSame
<1>5. ASSUME NEW c \in Company \cup {All}, NEW bypass \in BOOLEAN, NEW p \in mix.processes,
             CanActivate(q, p, c, bypass)
      PROVE  ClientTypes'
  <2>1. PICK kind \in {"all", "company"} : kind = IF c = All THEN "all" ELSE "company"
    OBVIOUS
  <2>2. p \in Process
    BY <1>0
  <2>3. Valid(NewRequest(p, kind, c, bypass))
    BY <2>1, <2>2, NewValid
  <2>4. Requests'
    BY <1>5, <2>1, <2>3, OneRequest DEF CanActivate, ClientTypes
  <2> QED
    BY <1>0, <1>5, <2>4, ServerSame DEF CanActivate
<1> QED
  BY <1>1, <1>2, <1>3, <1>4, <1>5

\* The oldest entry of a process is dropped.
LEMMA ExpireTypes ==
    ASSUME ClientTypes, NEW p \in Process, Expire(p), KeepClient PROVE ClientTypes'
<1>1. PICK s \in Seq(CacheEntry) : s = cache[p] /\ s # <<>>
  BY DEF ClientTypes, Expire
<1>2. Tail(s) \in Seq(CacheEntry)
  BY <1>1
<1>3. cache' \in [Process -> Seq(CacheEntry)]
  BY <1>1, <1>2 DEF ClientTypes, Expire
<1>4. Versions'
  BY SameVersions DEF ClientTypes, Expire, tables
<1>5. Requests'
  BY DEF ClientTypes, Expire, Requests
<1> QED
  BY <1>3, <1>4, <1>5 DEF ClientTypes, Expire, KeepClient
----------------------------------------------------------------------------
LEMMA InitTypes == Init => ClientTypes
<1> SUFFICES ASSUME Init PROVE ClientTypes
  OBVIOUS
<1>0. mix \in Mixes /\ mix.processes \subseteq Process
  BY ClientAssumption DEF Init, AuthzInit
<1>1. Versions
  <2>1. admin = [a \in Admin |-> IdleAdmin]
    BY DEF Init, AuthzInit
  <2>2. \A x \in Row : version[x] \in {0, 1}
    BY DEF Init, AuthzInit, Missing
  <2>3. version \in [Row -> Nat]
    BY DEF Init, AuthzInit, Missing
  <2>4. ASSUME NEW x \in Row PROVE version[x] + Cardinality(Bumping(x)) <= Highest
    <3>1. Bumping(x) = {}
      BY <2>1, IdleAdminRow DEF Bumping
    <3> QED
      BY <2>2, <3>1, FS_EmptySet, HighestNat
  <2> QED
    BY <2>1, <2>3, <2>4, IdleAdminRow DEF Versions
<1>2. Requests
  <2>1. request = [q \in Request |-> IdleRequest]
    BY DEF Init, AuthzInit
  <2>2. IdleRequest \in RequestRow
    BY IdleValid DEF Valid
  <2> QED
    BY <2>1, <2>2, IdleValid DEF Requests
<1>3. cache \in [Process -> Seq(CacheEntry)]
  <2>1. cache = [p \in Process |-> <<>>] /\ <<>> \in Seq(CacheEntry)
    BY DEF Init, AuthzInit
  <2> QED
    BY <2>1
<1>4. client \in ClientRow
  <2>1. ASSUME NEW c \in Company PROVE Effective(c) \in BOOLEAN
    BY DEF Effective, Allowed
  <2> QED
    BY <2>1 DEF Init, ClientRow
<1>5. stream \in [p : Process, event : BOOLEAN]
  BY <1>0 DEF Init
<1> QED
  BY <1>1, <1>2, <1>3, <1>4, <1>5 DEF ClientTypes

LEMMA NextTypes == IInv /\ ClientTypes /\ [Next]_vars => ClientTypes'
<1> SUFFICES ASSUME IInv, ClientTypes, [Next]_vars PROVE ClientTypes'
  OBVIOUS
<1>0. /\ mix \in Mixes /\ db \in Db
      /\ mix.admins \subseteq Admin /\ mix.processes \subseteq Process
      /\ mix.parts \subseteq Part /\ mix.guarded \subseteq Guarded
      /\ mix.asked \subseteq Company \cup {All}
      /\ Load \subseteq Request /\ Guarded \subseteq Request
      /\ "refresh" \in Request /\ "poll" \in Request
  BY ClientAssumption DEF IInv
<1>1. CASE UNCHANGED vars
  <2>1. server' = server /\ UNCHANGED <<request, client, stream>>
    BY <1>1 DEF vars, server, tables
  <2> QED
    BY <2>1, ServerSame DEF ClientTypes, Requests
<1>2. ASSUME NEW a \in mix.admins, NEW p \in mix.processes, NEW part \in mix.parts,
             NEW value \in NewValues(part), Change(a, p, part, value) /\ KeepClient
      PROVE  ClientTypes'
  BY <1>0, <1>2, ChangeTypes
<1>3. ASSUME NEW a \in mix.admins,
             ((EnsureRows(a) \/ Increment(a) \/ AdminFails(a)) /\ KeepClient) \/ Notify(a)
      PROVE  ClientTypes'
  BY <1>0, <1>3, AdminTypes
<1>4. ASSUME NEW q \in Request, (Resolve(q) \/ ReadLess(q)) /\ KeepClient PROVE ClientTypes'
  BY <1>0, <1>4, ResolveTypes
<1>5. ASSUME NEW p \in Process, Expire(p) /\ KeepClient PROVE ClientTypes'
  BY <1>5, ExpireTypes
<1>6. CASE mix.browser /\ (\/ EventArrives \/ Reconnect \/ PollAnswered
                          \/ Focus \/ RefreshAnswered \/ Older)
  BY <1>0, <1>6, BrowserTypes, PollTypes
<1>7. CASE mix.polls /\ Poll
  BY <1>0, <1>7, BrowserTypes
<1>8. ASSUME NEW q \in Browser, BrowserRequestFails(q) PROVE ClientTypes'
  <2>1. q \in Request
    BY <1>0 DEF Browser
  <2> QED
    BY <1>0, <1>8, <2>1, RequestTypes
<1>9. ASSUME NEW q \in Browser \cap Load, NEW c \in Company, Switch(q, c) PROVE ClientTypes'
  BY <1>0, <1>9, RequestTypes
<1>10. ASSUME NEW q \in Load, LoadAnswered(q) PROVE ClientTypes'
  BY <1>0, <1>10, RequestTypes
<1>11. ASSUME NEW q \in mix.guarded, NEW p \in mix.processes, NEW c \in mix.asked,
              NEW bypass \in BOOLEAN, CanActivate(q, p, c, bypass)
       PROVE  ClientTypes'
  BY <1>0, <1>11, RequestTypes
<1>12. ASSUME NEW q \in Guarded, Decided(q) PROVE ClientTypes'
  BY <1>0, <1>12, RequestTypes
<1> QED
  BY <1>1, <1>2, <1>3, <1>4, <1>5, <1>6, <1>7, <1>8, <1>9, <1>10, <1>11, <1>12 DEF Next

\* Tables, versions, caches and requests hold what they may; a version never gets past
\* what the administrators can add to one, and no answer is kept, and no token remembered
\* by a browser, for a row that does not exist (getToken, resolvePermissions).
THEOREM AuthzTyped == Spec => []TypeOK
<1>1. ASSUME IInv, ClientTypes PROVE TypeOK
  <2>1. version \in Token
    <3>1. \A x \in Row : version[x] \in 0..Highest
      BY <1>1, VersionsInToken DEF ClientTypes
    <3> QED
      BY <1>1, <3>1, TokenIs DEF ClientTypes, Versions
  <2>2. \A p \in Process : \A i \in DOMAIN cache[p] :
            cache[p][i] \in [company : Company \cup {All}, token : Existing, value : BOOLEAN]
    <3> SUFFICES ASSUME NEW p \in Process, NEW i \in DOMAIN cache[p]
                 PROVE  cache[p][i] \in CacheEntry
      BY DEF CacheEntry
    <3>1. PICK s \in Seq(CacheEntry) : s = cache[p]
      BY <1>1 DEF ClientTypes
    <3> QED
      BY <3>1
  <2>3. admin \in [Admin -> [pc : {"idle", "changed", "ensured", "bumped"},
                             p : Process \cup {NoProcess}, rows : SUBSET Row]]
    BY <1>1 DEF ClientTypes, Versions, AdminRow
  <2>4. request \in [Request ->
          [pc : {"idle", "token", "lookup", "companies", "read", "persist", "answer"},
           p : Process \cup {NoProcess}, kind : {"none", "token", "company", "all"}, bypass : BOOLEAN,
           company : Company \cup {All, NoCompany}, token : Token, create : SUBSET Row,
           outer : Token, todo : SUBSET Company, any : BOOLEAN,
           seen : [company : BOOLEAN, role : BOOLEAN, grant : BOOLEAN, active : BOOLEAN,
                   override : {"NONE", "ALLOW", "DENY"}, denied : BOOLEAN],
           part : 1..Len(Parts), value : BOOLEAN, calm : BOOLEAN]]
    BY <1>1 DEF ClientTypes, Requests, RequestRow, SeenRow
  <2> QED
    BY <1>1, <2>1, <2>2, <2>3, <2>4 DEF TypeOK, IInv, ClientTypes, ClientRow
<1> QED
  BY <1>1, InitInductive, NextInductive, InitTypes, NextTypes, PTL DEF Spec
=============================================================================
