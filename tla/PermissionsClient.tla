------------------------- MODULE PermissionsClient -------------------------
(***************************************************************************)
(* A browser of the user: usePermissionsRealtimeSync.ts refreshes what it  *)
(* shows when the event stream, the poll of the token or the focus say so; *)
(* companyChangeListener.ts loads the permissions of a company the user    *)
(* switches to.  Both talk to AuthzService.                                *)
(*                                                                         *)
(* Time is abstract: "age" is the age of the last refresh, younger than a  *)
(* second, younger than a minute, or older.                                *)
(***************************************************************************)
EXTENDS AuthzService

CONSTANTS
    Load,          \* requests of the listener in flight
    Guarded,       \* other requests, checked by the permissions guard
    NoToken

ASSUME ClientAssumption ==
    /\ Load \subseteq Request /\ Guarded \subseteq Request /\ Load \cap Guarded = {}
    /\ {"refresh", "poll"} \subseteq Request \ (Load \cup Guarded)
    /\ \A m \in Mixes : /\ m.admins \subseteq Admin /\ m.processes \subseteq Process
                        /\ m.parts \subseteq Part /\ m.guarded \subseteq Guarded
                        /\ m.asked \subseteq Company \cup {All}

VARIABLES
    client,   \* the store and the refs of the hook
    stream,   \* the process that holds the event stream, and the event on its way
    switches

vars == <<db, version, cache, admin, request, changes, faults, client, stream, switches, mix>>
server == <<tables, cache, admin, changes>>

SetClient(r) == client' = r

\* Mutant: refreshInFlightRef is only reset after an answer.
AfterFailure(c) == c

\* finally: whatever became of the refresh, the next one may start.
AfterRefresh(c) == [c EXCEPT !.busy = FALSE]

\* refreshPermissions does nothing while a refresh is in flight and for a second after one.
MayRefresh == ~client.busy /\ client.age # "fresh"

\* The rest of refreshPermissions, in a client that is otherwise c.
Refresh(c) ==
    IF MayRefresh
    THEN /\ SetClient([c EXCEPT !.busy = TRUE])
         /\ SetRequest("refresh", NewRequest(NoProcess, "company", client.company, TRUE))
    ELSE SetClient(c) /\ UNCHANGED request
----------------------------------------------------------------------------
\* notifyUsers writes to the connections of its own process; changes of the catalogue of
\* permissions are not announced.
Notify(a) ==
    LET r == admin[a] IN
    /\ r.pc = "bumped"
    /\ stream' = IF "user" \in r.rows /\ stream.p = r.p THEN [stream EXCEPT !.event = TRUE] ELSE stream
    /\ SetAdmin(a, IdleAdmin)
    /\ UNCHANGED <<tables, cache, request, changes, faults, client, switches, mix>>

EventArrives ==
    /\ stream.event
    /\ stream' = [stream EXCEPT !.event = FALSE]
    /\ Refresh(client)
    /\ UNCHANGED <<server, faults, switches, mix>>

\* The connection breaks, with what was on its way, and EventSource opens another one.
Reconnect ==
    /\ \E p \in mix.processes : stream' = [p |-> p, event |-> FALSE] /\ stream' # stream
    /\ faults < mix.faults
    /\ faults' = faults + 1
    /\ UNCHANGED <<server, request, client, switches, mix>>

Poll ==
    /\ request["poll"].pc = "idle"
    /\ SetRequest("poll", NewRequest(NoProcess, "token", NoCompany, FALSE))
    /\ UNCHANGED <<server, faults, client, stream, switches, mix>>

\* The token is remembered before the refresh, which may be skipped or fail.
PollAnswered ==
    LET r == request["poll"] known == [client EXCEPT !.last = r.token] IN
    /\ r.pc = "answer"
    /\ IF client.last \in {NoToken, r.token} \/ ~MayRefresh
       THEN SetClient(known) /\ SetRequest("poll", IdleRequest)
       ELSE /\ SetClient([known EXCEPT !.busy = TRUE])
            /\ request' = [request EXCEPT !["poll"] = IdleRequest,
                  !["refresh"] = NewRequest(NoProcess, "company", client.company, TRUE)]
    /\ UNCHANGED <<server, faults, stream, switches, mix>>

\* The window gets the focus, a minute or more after the last refresh.
Focus ==
    /\ client.age = "minute" /\ MayRefresh
    /\ Refresh(client)
    /\ UNCHANGED <<server, faults, stream, switches, mix>>

RefreshAnswered ==
    LET r == request["refresh"] IN
    /\ r.pc = "answer"
    /\ SetClient(AfterRefresh([client EXCEPT !.shown = r.value, !.age = "fresh"]))
    /\ SetRequest("refresh", IdleRequest)
    /\ UNCHANGED <<server, faults, stream, switches, mix>>

\* A request of the browser is lost or answered with an error.
BrowserRequestFails(q) ==
    /\ request[q].pc # "idle"
    /\ faults < mix.faults
    /\ faults' = faults + 1
    /\ SetRequest(q, IdleRequest)
    /\ SetClient(IF q = "refresh" THEN AfterRefresh(client) ELSE client)
    /\ UNCHANGED <<server, stream, switches, mix>>

\* The user selects a company: the listener loads its permissions, the hook opens a new stream.
Switch(q, c) ==
    /\ switches < mix.switches
    /\ request[q].pc = "idle"
    /\ c # client.company
    /\ switches' = switches + 1
    /\ SetClient([client EXCEPT !.company = c])
    /\ SetRequest(q, NewRequest(NoProcess, "company", c, TRUE))
    /\ \E p \in mix.processes : stream' = [p |-> p, event |-> FALSE]
    /\ UNCHANGED <<server, faults, mix>>

\* The answer is shown whatever company is selected by now.
LoadAnswered(q) ==
    LET r == request[q] IN
    /\ r.pc = "answer"
    /\ SetClient([client EXCEPT !.shown = r.value])
    /\ SetRequest(q, IdleRequest)
    /\ UNCHANGED <<server, faults, stream, switches, mix>>

Older ==
    /\ client.age # "minute"
    /\ SetClient([client EXCEPT !.age = IF @ = "fresh" THEN "second" ELSE "minute"])
    /\ UNCHANGED <<server, request, faults, stream, switches, mix>>
----------------------------------------------------------------------------
(* Other requests: permissions.guard.ts *)

CanActivate(q, p, c, bypass) ==
    /\ request[q].pc = "idle"
    /\ SetRequest(q, NewRequest(p, IF c = All THEN "all" ELSE "company", c, bypass))
    /\ UNCHANGED <<server, faults, client, stream, switches, mix>>

\* The handler runs or 403 is answered.
Decided(q) ==
    /\ request[q].pc = "answer"
    /\ SetRequest(q, IdleRequest)
    /\ UNCHANGED <<server, faults, client, stream, switches, mix>>
----------------------------------------------------------------------------
Browser == IF mix.browser THEN {"refresh", "poll"} \cup Load ELSE {}
KeepClient == UNCHANGED <<client, stream, switches, mix>>

Init ==
    /\ AuthzInit
    /\ \E c \in Company : client = [company |-> c, shown |-> Effective(c), busy |-> FALSE, age |-> "minute",
                                    last |-> NoToken]
    /\ \E p \in mix.processes : stream = [p |-> p, event |-> FALSE]
    /\ switches = 0

Next ==
    \/ \E a \in mix.admins, p \in mix.processes, part \in mix.parts : \E value \in NewValues(part) :
          Change(a, p, part, value) /\ KeepClient
    \/ \E a \in mix.admins : (EnsureRows(a) \/ Increment(a) \/ AdminFails(a)) /\ KeepClient
    \/ \E a \in mix.admins : Notify(a)
    \/ \E q \in Request : (Resolve(q) \/ ReadLess(q)) /\ KeepClient
    \/ \E p \in Process : Expire(p) /\ KeepClient
    \/ mix.browser /\ (EventArrives \/ Reconnect \/ PollAnswered \/ Focus \/ RefreshAnswered \/ Older)
    \/ mix.polls /\ Poll
    \/ \E q \in Browser : BrowserRequestFails(q)
    \/ \E q \in Browser \cap Load, c \in Company : Switch(q, c)
    \/ \E q \in Load : LoadAnswered(q)
    \/ \E q \in mix.guarded, p \in mix.processes, c \in mix.asked, bypass \in BOOLEAN :
          CanActivate(q, p, c, bypass)
    \/ \E q \in Guarded : Decided(q)

Spec == Init /\ [][Next]_vars

\* Requests are answered, entries expire, administrators finish, and the user comes back
\* to the window now and then.  The stream and the poll are not relied on.
FairSpec ==
    /\ Spec
    /\ \A a \in Admin : WF_vars((EnsureRows(a) \/ Increment(a)) /\ KeepClient) /\ WF_vars(Notify(a))
    /\ \A q \in Request : WF_vars(Resolve(q) /\ KeepClient)
    /\ \A q \in Load : WF_vars(LoadAnswered(q))
    /\ \A q \in Guarded : WF_vars(Decided(q))
    /\ \A p \in Process : WF_vars(Expire(p) /\ KeepClient)
    /\ WF_vars(mix.browser /\ RefreshAnswered)
    /\ WF_vars(mix.browser /\ Older)
    /\ SF_vars(mix.browser /\ Focus)
----------------------------------------------------------------------------
Token == [Row -> 0..(Cardinality(Admin) + 1)]
Existing == [Row -> 1..(Cardinality(Admin) + 1)]

\* The tables, the caches and the requests hold what they may; in particular no answer is
\* kept under a token of a row that does not exist.
TypeOK ==
    /\ db \in Db
    /\ version \in Token
    /\ \A p \in Process : \A i \in DOMAIN cache[p] :
          cache[p][i] \in [company : Company \cup {All}, token : Existing, value : BOOLEAN]
    /\ admin \in [Admin -> [pc : {"idle", "changed", "ensured", "bumped"},
                            p : Process \cup {NoProcess}, rows : SUBSET Row]]
    /\ request \in [Request ->
          [pc : {"idle", "token", "lookup", "companies", "read", "persist", "answer"},
           p : Process \cup {NoProcess}, kind : {"none", "token", "company", "all"}, bypass : BOOLEAN,
           company : Company \cup {All, NoCompany}, token : Token, create : SUBSET Row,
           outer : Token, todo : SUBSET Company, any : BOOLEAN,
           seen : [company : BOOLEAN, role : BOOLEAN, grant : BOOLEAN, active : BOOLEAN,
                   override : {"NONE", "ALLOW", "DENY"}, denied : BOOLEAN],
           part : 1..Len(Parts), value : BOOLEAN, calm : BOOLEAN]]
    /\ client \in [company : Company, shown : BOOLEAN, busy : BOOLEAN,
                   age : {"fresh", "second", "minute"}, last : Existing \cup {NoToken}]
    /\ stream \in [p : Process, event : BOOLEAN]

\* A request that asks for a refresh (refreshAuthz, x-authz-refresh) is decided by the
\* tables when nothing was changed, and none of its queries failed, since it came:
\* whatever the caches hold, also of answers that lack what another request's failed
\* query hid, for one company and for all of them together.
BypassIsFresh ==
    \A q \in Request :
        LET r == request[q] IN
        (r.pc = "answer" /\ r.kind \in {"company", "all"} /\ r.bypass /\ r.calm) => r.value = Effective(r.company)

\* What the caches answer under the current version is what the tables say.
CurrentAreRight ==
    \A p \in Process : \A i \in DOMAIN cache[p] :
        cache[p][i].token = version => cache[p][i].value = Effective(cache[p][i].company)

\* When the administrators are done, what the caches answer becomes what the tables say,
\* although the version of the authorization comes back to the same value with every
\* change: an answer that was resolved before, during or between the changes, or without
\* the exceptions and denials of a failed query, lives on for a minute, one for all companies
\* that was made of it for another one, and no longer.
CacheCatchesUp == <>[]CurrentAreRight

\* A browser whose window gets the focus now and then shows what the user may do in the
\* selected company in the end, although events are lost, polls see the same token
\* before and after a change, refreshes are skipped, fail or miss a denial, and the answer of
\* a company the user left arrives after that of the company he went to.
ClientCatchesUp == mix.browser => <>[](client.shown = Effective(client.company))

\* Claim of authz-version.entity.ts:4, "Controla versionado de autorizacion para invalidar
\* cache de permisos": when every administrator is done, and nothing failed, no answer
\* from before the last change is kept under the current version.
VersionInvalidates == (\A a \in Admin : admin[a].pc = "idle") /\ faults = 0 => CurrentAreRight
=============================================================================
