---------------------------- MODULE AuthzService ----------------------------
(***************************************************************************)
(* What a user may do, as the API resolves it: auth.service.ts reads five  *)
(* tables one after the other and keeps the answer for a minute in a map   *)
(* of its process, under a key that holds the version of the authorization *)
(* (authz-version.service.ts).  Administrators change the tables           *)
(* (user-assignment, roles, permissions services) and bump the version     *)
(* when they are done.                                                     *)
(*                                                                         *)
(* One user, one application and one permission are followed; the          *)
(* companies, processes, requests and administrators are many.             *)
(***************************************************************************)
EXTENDS Naturals, Sequences, SequencesExt, FiniteSetsExt

CONSTANTS
    Company,
    Process,     \* API processes: each has a cache and its event streams
    Admin,       \* requests of administrators
    Request,     \* requests of the user
    All,         \* the key of the answer for all companies together (0 in the code)
    NoCompany, NoProcess,
    Mixes        \* bound: what is at work together, and how often

ASSUME AuthzAssumption ==
    /\ All \notin Company /\ NoCompany \notin Company \cup {All} /\ NoProcess \notin Process
    /\ IsFiniteSet(Admin)

VARIABLES
    db,          \* what the tables say about the user and the permission
    version,     \* sys_authz_version: a row for the system and one for the user, 0 when missing
    cache,       \* PermissionsCacheService of each process, the oldest entry first
    admin, request,
    changes, faults,
    mix          \* the chosen mix: the administrators, the parts they change, the processes,
                 \* whether rows of versions may be missing, the requests of the guard and what
                 \* they ask about, whether the browser is open and polls, and the number of
                 \* changes, faults and switches of company

tables == <<db, version>>
----------------------------------------------------------------------------
Row == {"global", "user"}
Missing == [r \in Row |-> 0]

\* The parts of the authorization, in the order in which they are read.
Parts == <<"company", "role", "grant", "active", "override", "denied">>
Part == Range(Parts)

Db == [company  : SUBSET Company,               \* companies of the user
       role     : BOOLEAN,                      \* the user has the role
       grant    : BOOLEAN,                      \* the role has the permission
       active   : BOOLEAN,                      \* the permission is active
       override : {"NONE", "ALLOW", "DENY"},    \* the user's own exception
       denied   : BOOLEAN]                      \* the permission is denied to the user everywhere

\* One query about company c: exceptions and denials are joined with the active permission.
Answered(d, c, part) ==
    CASE part = "company"  -> c \in d.company
      [] part = "override" -> IF d.active THEN d.override ELSE "NONE"
      [] part = "denied"   -> d.denied /\ d.active
      [] OTHER             -> d[part]

Nothing == [company |-> FALSE, role |-> FALSE, grant |-> FALSE, active |-> FALSE,
            override |-> "NONE", denied |-> FALSE]

Allowed(seen) ==
    /\ seen.company
    /\ seen.override # "DENY" /\ ~seen.denied
    /\ (seen.role /\ seen.grant /\ seen.active) \/ seen.override = "ALLOW"

\* What the tables say now.
Effective(c) ==
    IF c = All THEN \E x \in Company : Allowed([part \in Part |-> Answered(db, x, part)])
    ELSE Allowed([part \in Part |-> Answered(db, c, part)])

IdleAdmin == [pc |-> "idle", p |-> NoProcess, rows |-> {}]

\* company: the one that is being resolved; outer and todo: the token and the companies
\* left of an answer for all of them; calm: nothing was changed, and no query of the
\* request failed, since it came.
IdleRequest == [pc |-> "idle", p |-> NoProcess, kind |-> "none", bypass |-> FALSE,
                company |-> NoCompany, token |-> Missing, create |-> {}, outer |-> Missing, todo |-> {},
                any |-> FALSE, seen |-> Nothing, part |-> 1, value |-> FALSE, calm |-> TRUE]

SetAdmin(a, r) == admin' = [admin EXCEPT ![a] = r]
SetRequest(q, r) == request' = [request EXCEPT ![q] = r]
----------------------------------------------------------------------------
(* Administrators *)

NewValues(part) == IF part = "company" THEN SUBSET Company
                   ELSE IF part = "override" THEN {"NONE", "ALLOW", "DENY"} ELSE BOOLEAN

\* The rows a service bumps: assignments to a user that user's, permissions of a role the
\* users that have it, the catalogue of permissions the system's.
RowsOf(part) == CASE part = "active" -> {"global"}
                  [] part = "grant"  -> IF db.role THEN {"user"} ELSE {}
                  [] OTHER           -> {"user"}

\* One row is saved; an operation that replaces several saves them one by one.
Change(a, p, part, value) ==
    LET r == admin[a] IN
    /\ r.pc = "idle" \/ (r.pc = "changed" /\ r.p = p /\ part # "active")
    /\ changes < mix.changes
    /\ db[part] # value
    /\ changes' = changes + 1
    /\ db' = [db EXCEPT ![part] = value]
    /\ SetAdmin(a, [pc |-> "changed", p |-> p, rows |-> r.rows \cup RowsOf(part)])
    /\ request' = [q \in Request |-> [request[q] EXCEPT !.calm = FALSE]]
    /\ UNCHANGED <<version, cache, faults>>

\* bumpUsers first upserts the rows: one that exists is set back to 1.
EnsureRows(a) ==
    LET r == admin[a] IN
    /\ r.pc = "changed"
    /\ version' = [x \in Row |-> IF x \in r.rows THEN 1 ELSE version[x]]
    /\ SetAdmin(a, [r EXCEPT !.pc = "ensured"])
    /\ UNCHANGED <<db, cache, request, changes, faults>>

Increment(a) ==
    LET r == admin[a] IN
    /\ r.pc = "ensured"
    /\ version' = [x \in Row |-> IF x \in r.rows THEN version[x] + 1 ELSE version[x]]
    /\ SetAdmin(a, [r EXCEPT !.pc = "bumped"])
    /\ UNCHANGED <<db, cache, request, changes, faults>>

\* A query fails, or the process dies, before the version is bumped.
AdminFails(a) ==
    /\ admin[a].pc \in {"changed", "ensured"}
    /\ faults < mix.faults
    /\ faults' = faults + 1
    /\ SetAdmin(a, IdleAdmin)
    /\ UNCHANGED <<tables, cache, request, changes>>
----------------------------------------------------------------------------
(* Requests of the user *)

\* kind "token": GET authz-token.  "company": the guard, or switch-company, with a company.
\* "all": the guard, or me, without one.
\* The process of a request of the browser does not matter: it does not use the cache.
NewRequest(p, kind, c, bypass) ==
    [IdleRequest EXCEPT !.pc = "token", !.p = p, !.kind = kind, !.company = c, !.bypass = bypass]

\* Mutant: a row that is missing is taken as it is.
MissingAsIs(r) == TRUE

\* getVersion creates a row that is missing, and reads it again.
MustExist(r) == version[r] # 0

FindNoVersion(q, x) ==
    /\ request[q].pc = "token"
    /\ request[q].token[x] = 0
    /\ ~MustExist(x)
    /\ SetRequest(q, [request[q] EXCEPT !.create = @ \cup {x}])
    /\ UNCHANGED <<tables, cache, admin, changes, faults>>

\* An upsert: it sets back what a bump wrote in between.
CreateVersion(q, x) ==
    /\ x \in request[q].create
    /\ version' = [version EXCEPT ![x] = 1]
    /\ SetRequest(q, [request[q] EXCEPT !.create = @ \ {x}])
    /\ UNCHANGED <<db, cache, admin, changes, faults>>

\* The rows are read in parallel; with both the cache is asked.
ReadVersion(q, x) ==
    LET r == request[q] IN
    /\ r.pc = "token"
    /\ r.token[x] = 0 /\ x \notin r.create
    /\ MustExist(x)
    /\ LET token == [r.token EXCEPT ![x] = version[x]] IN
       SetRequest(q, [r EXCEPT !.token = token,
                               !.pc = IF \E y \in Row \ {x} : token[y] = 0 THEN "token"
                                      ELSE IF r.kind = "token" THEN "answer" ELSE "lookup"])
    /\ UNCHANGED <<tables, cache, admin, changes, faults>>

\* The place of the entry under the key of the request.
Kept(r) == {i \in DOMAIN cache[r.p] : /\ cache[r.p][i].company = r.company
                                      /\ cache[r.p][i].token = r.token}

\* Mutant: the cache is asked whatever the request says.
HitsAlways(r) == IF r.p = NoProcess THEN {} ELSE {cache[r.p][i].value : i \in Kept(r)}

\* What the cache answers, unless the request asks for a refresh.
Hits(r) == IF r.bypass THEN {} ELSE {cache[r.p][i].value : i \in Kept(r)}

\* The company of an answer for all is resolved: on to the next.
NextCompany(r, value) ==
    IF r.todo = {} THEN {[r EXCEPT !.pc = "persist", !.company = All, !.token = r.outer,
                                   !.value = r.any \/ value]}
    ELSE {[r EXCEPT !.pc = "token", !.company = c, !.token = Missing, !.todo = @ \ {c},
                    !.any = @ \/ value, !.value = FALSE] : c \in r.todo}

InnerOf(r) == r.kind = "all" /\ r.company # All

\* The request has its value: it answers, or goes on with the next company.
Resolved(r, value) ==
    IF InnerOf(r) THEN NextCompany(r, value)
    ELSE {[r EXCEPT !.pc = "answer", !.value = value]}

Lookup(q) ==
    LET r == request[q] IN
    /\ r.pc = "lookup"
    /\ \/ \E value \in Hits(r) : \E next \in Resolved(r, value) : SetRequest(q, next)
       \/ /\ Hits(r) = {}
          /\ SetRequest(q, [r EXCEPT !.pc = IF r.company = All THEN "companies" ELSE "read"])
    /\ UNCHANGED <<tables, cache, admin, changes, faults>>

ReadCompanies(q) ==
    LET r == request[q] IN
    /\ r.pc = "companies"
    /\ \E next \in NextCompany([r EXCEPT !.outer = r.token, !.todo = db.company], FALSE) :
          SetRequest(q, next)
    /\ UNCHANGED <<tables, cache, admin, changes, faults>>

\* A step is one query and those after it whose answer no administrator of the mix changes.
Changing == mix.parts \cup (IF "active" \in mix.parts THEN {"override", "denied"} ELSE {})
LastOfStep(i) == Min({j \in i..Len(Parts) : j = Len(Parts) \/ Parts[j + 1] \in Changing})

\* The parts that a step of the request reads.
ReadNow(r) == {Parts[i] : i \in r.part..LastOfStep(r.part)}

\* What the request has seen after the step, when the queries of the parts lost failed.
SeenAfter(r, lost) ==
    [part \in Part |-> IF part \in lost THEN Nothing[part]
                       ELSE IF part \in ReadNow(r) THEN Answered(db, r.company, part)
                       ELSE r.seen[part]]

\* Without the company the rest is not read.
AfterRead(r, lost) ==
    LET last == LastOfStep(r.part) seen == SeenAfter(r, lost) IN
    IF last = Len(Parts) \/ ~seen.company
    THEN [r EXCEPT !.pc = "persist", !.seen = Nothing, !.part = 1, !.value = Allowed(seen)]
    ELSE [r EXCEPT !.seen = seen, !.part = last + 1]

ReadParts(q) ==
    /\ request[q].pc = "read"
    /\ SetRequest(q, AfterRead(request[q], {}))
    /\ UNCHANGED <<tables, cache, admin, changes, faults>>

\* The queries of the roles that hold for every company and of their exclusions, of the
\* exceptions and of the denials are caught when they fail ("no existe aun"): what they
\* would have answered counts as nothing, and the answer is kept like any other.
Caught == {"role", "override", "denied"}

ReadLess(q) ==
    LET r == request[q] IN
    /\ r.pc = "read"
    /\ faults < mix.faults
    /\ faults' = faults + 1
    /\ \E lost \in SUBSET (ReadNow(r) \cap Caught) \ {{}} :
          SetRequest(q, [AfterRead(r, lost) EXCEPT !.calm = FALSE])
    /\ UNCHANGED <<tables, cache, admin, changes>>

\* The answer is kept under the token that was read at the start, in the place of one that
\* is there already.
Persist(q) ==
    LET r == request[q]
        others == IF Kept(r) = {} THEN cache[r.p] ELSE RemoveAt(cache[r.p], CHOOSE i \in Kept(r) : TRUE)
        entry == [company |-> r.company, token |-> r.token, value |-> r.value] IN
    /\ r.pc = "persist"
    /\ cache' = IF r.bypass THEN cache ELSE [cache EXCEPT ![r.p] = Append(others, entry)]
    /\ \E next \in Resolved(r, r.value) : SetRequest(q, next)
    /\ UNCHANGED <<tables, admin, changes, faults>>

Resolve(q) ==
    \/ \E x \in Row : FindNoVersion(q, x) \/ CreateVersion(q, x) \/ ReadVersion(q, x)
    \/ Lookup(q) \/ ReadCompanies(q) \/ ReadParts(q) \/ Persist(q)

\* Mutant: an entry is served whatever its age.
NeverExpire(p) == FALSE /\ UNCHANGED <<tables, cache, admin, request, changes, faults>>

\* 60 seconds are over for the oldest entry.
Expire(p) ==
    /\ cache[p] # <<>>
    /\ cache' = [cache EXCEPT ![p] = Tail(@)]
    /\ UNCHANGED <<tables, admin, request, changes, faults>>
----------------------------------------------------------------------------
AuthzInit ==
    /\ mix \in Mixes
    /\ \E companies \in IF mix.switches = 0 THEN {Company} ELSE SUBSET Company :
          db = [company |-> companies, role |-> TRUE, grant |-> TRUE, active |-> TRUE,
                override |-> "NONE", denied |-> FALSE]
    /\ version \in {[x \in Row |-> 1]} \cup (IF mix.missing THEN {Missing} ELSE {})
    /\ cache = [p \in Process |-> <<>>]
    /\ admin = [a \in Admin |-> IdleAdmin]
    /\ request = [q \in Request |-> IdleRequest]
    /\ changes = 0 /\ faults = 0
=============================================================================
