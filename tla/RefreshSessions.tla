--------------------------- MODULE RefreshSessions ---------------------------
(***************************************************************************)
(* auth.service.ts with auth.controller.ts, and the web client's           *)
(* interceptors/httpInterceptor.ts and lib/auth.ts: the rows of            *)
(* sys_refresh_sessions, the cookies of a browser, the calls of a page     *)
(* that find the access token expired, and signing out.                    *)
(*                                                                         *)
(* Time is abstract: an access token may expire at any moment, a session   *)
(* at any moment after its access token, and a call may time out at any    *)
(* moment when the mix says so.                                            *)
(***************************************************************************)
EXTENDS UsersService

CONSTANTS
    Call,        \* calls that a page may have in flight
    MaxSession,  \* bound: rows of sys_refresh_sessions
    MaxExpiries  \* bound: how often an access token expires

ASSUME SessionsAssumption ==
    /\ IsFiniteSet(Call) /\ \A m \in Mixes : m.calls \subseteq Call
    /\ MaxSession \in Nat \ {0} /\ MaxExpiries \in Nat

VARIABLES
    sessions, \* sys_refresh_sessions by the order of the rows' creation
    browser,  \* the cookies and the page
    calls,    \* the calls of each page: the client's side and the server's
    expiries,
    faults

sessionVars == <<sessions, browser, calls, expiries, faults>>
vars == <<usersVars, sessionVars, mix>>
----------------------------------------------------------------------------
Session == 1..MaxSession
NoSession == 0

\* root is the session of the sign-in that a chain of rotations starts with.
\* A session that is not revoked is "live" until expires_at, and "expired" then.
SessionRow == [state : {"free", "named", "live", "expired", "revoked"}, root : Session \cup {NoSession}]

\* A jti that nobody uses (randomUUID).
Unused == {s \in Session : sessions[s].state = "free"}

UnderWay(c) == c.client # "idle" \/ c.server # "none"

\* Bound: every call under way finds a row to rotate to.
Room == LET underWay == {bk \in Browser \X Call : UnderWay(calls[bk[1]][bk[2]])}
        IN Cardinality(underWay) < Cardinality(Unused)

Live(s) == s \in Session /\ sessions[s].state = "live"

Expired(s) == s \in Session /\ sessions[s].state = "expired"

\* Nobody has revoked it.
Kept(s) == Live(s) \/ Expired(s)

IdleCall == [client |-> "idle", server |-> "none", sent |-> NoSession, new |-> NoSession,
             out |-> "none", leaves |-> NoSession, restores |-> FALSE]

\* What a page leaves of its calls when it ends: the server goes on.
Dropped(c) == [c EXCEPT !.client = "idle", !.out = "none", !.leaves = NoSession, !.restores = FALSE]

SetCall(b, k, r) == calls' = [calls EXCEPT ![b][k] = r]

Init ==
    /\ UsersInit
    /\ mix \in Mixes
    /\ sessions = [s \in Session |-> [state |-> "free", root |-> NoSession]]
    /\ browser = [b \in Browser |-> [cookie |-> NoSession, access |-> "none", page |-> "login"]]
    /\ calls = [b \in Browser |-> [k \in Call |-> IdleCall]]
    /\ expiries = 0
    /\ faults = 0
----------------------------------------------------------------------------
(* Signing in: issueSessionTokens and the answer with the cookies. *)

IssueSession(b) ==
    /\ login[b].pc = "issue" /\ Room
    /\ LET s == Min(Unused) IN
       /\ sessions' = [sessions EXCEPT ![s] = [state |-> "live", root |-> s]]
       /\ browser' = [browser EXCEPT ![b] = [cookie |-> s, access |-> "fresh", page |-> "app"]]
    /\ SetLogin(b, IdleLogin)
    /\ UNCHANGED <<accounts, clerk, wrong, calls, expiries, faults>>

ExpireAccess(b) ==
    /\ browser[b].access = "fresh" /\ expiries < MaxExpiries
    /\ browser' = [browser EXCEPT ![b].access = "expired"]
    /\ expiries' = expiries + 1
    /\ UNCHANGED <<usersVars, sessions, calls, faults>>

\* 30 days after its row was made; the access tokens issued with it lasted 8 hours.
ExpireSession(s) ==
    /\ mix.ages /\ Live(s)
    /\ \A b \in Browser : browser[b].cookie = s => browser[b].access # "fresh"
    /\ sessions' = [sessions EXCEPT ![s].state = "expired"]
    /\ UNCHANGED <<usersVars, browser, calls, expiries, faults>>
----------------------------------------------------------------------------
(* A call of the page whose access token is refused. *)

Denied(b, k) ==
    LET c == calls[b][k] IN
    /\ c.client = "idle" /\ c.server = "none" /\ Room
    /\ browser[b].access # "fresh" /\ browser[b].page = "app"
    /\ SetCall(b, k, [c EXCEPT !.client = "denied"])
    /\ UNCHANGED <<usersVars, sessions, browser, expiries, faults>>

\* useSessionRestore: the application is loaded anew and asks who is signed in.
Restore(b, k) ==
    LET c == calls[b][k] IN
    /\ c.client = "idle" /\ c.server = "none" /\ login[b].pc = "idle" /\ Room
    /\ browser[b].page # "app" /\ browser[b].cookie # NoSession
    /\ calls' = [calls EXCEPT ![b] = [j \in Call |->
                    IF j = k THEN [IdleCall EXCEPT !.client = "denied", !.restores = TRUE]
                    ELSE Dropped(calls[b][j])]]
    /\ UNCHANGED <<usersVars, sessions, browser, expiries, faults>>

\* Bug: the request is worked on without a refresh token.
SendRefreshUnchecked(b, k) ==
    LET c == calls[b][k] IN
    /\ c.client = "denied"
    /\ SetCall(b, k, [c EXCEPT !.client = "waiting", !.server = "find", !.sent = browser[b].cookie])
    /\ UNCHANGED <<usersVars, sessions, browser, expiries, faults>>

\* tryRefreshSession: each call for itself, with the cookie of this moment, unless there is
\* none or it is as old as its session and the browser has dropped it.
SendRefresh(b, k) ==
    LET c == calls[b][k]  cookie == browser[b].cookie IN
    /\ c.client = "denied"
    /\ \/ /\ cookie # NoSession
          /\ SetCall(b, k, [c EXCEPT !.client = "waiting", !.server = "find", !.sent = cookie])
       \/ /\ cookie = NoSession \/ Expired(cookie)
          /\ SetCall(b, k, [c EXCEPT !.client = "refused"])
    /\ UNCHANGED <<usersVars, sessions, browser, expiries, faults>>

\* Neither an expired token passes verifyRefreshToken nor an expired row the query.
FindSession(b, k) ==
    LET c == calls[b][k] IN
    /\ c.server = "find"
    /\ SetCall(b, k, [c EXCEPT !.server = IF Live(c.sent) THEN "rotate" ELSE "refuse"])
    /\ UNCHANGED <<usersVars, sessions, browser, expiries, faults>>

\* Bug: the row found is not saved.
RotateKeepingOld(b, k) ==
    LET c == calls[b][k]  n == Min(Unused) IN
    /\ c.server = "rotate"
    /\ sessions' = [sessions EXCEPT ![n] = [state |-> "named", root |-> sessions[c.sent].root]]
    /\ SetCall(b, k, [c EXCEPT !.server = "persist", !.new = n])
    /\ UNCHANGED <<usersVars, browser, expiries, faults>>

\* The row found is saved as revoked, whatever became of it since.
Rotate(b, k) ==
    LET c == calls[b][k]  n == Min(Unused) IN
    /\ c.server = "rotate"
    /\ sessions' = [sessions EXCEPT ![c.sent].state = "revoked",
                                    ![n] = [state |-> "named", root |-> sessions[c.sent].root]]
    /\ SetCall(b, k, [c EXCEPT !.server = "persist", !.new = n])
    /\ UNCHANGED <<usersVars, browser, expiries, faults>>

PersistSession(b, k) ==
    LET c == calls[b][k] IN
    /\ c.server = "persist"
    /\ sessions' = [sessions EXCEPT ![c.new].state = "live"]
    /\ SetCall(b, k, [c EXCEPT !.server = "answer"])
    /\ UNCHANGED <<usersVars, browser, expiries, faults>>

\* Bug: only the access cookie is set again.
AccessCookieOnly(b, c) == [browser[b] EXCEPT !.access = "fresh"]

NewCookies(b, c) == [browser[b] EXCEPT !.cookie = c.new, !.access = "fresh"]

\* An answer that nobody waits for any more sets no cookies.
Answer(b, k) ==
    LET c == calls[b][k]  waited == c.client = "waiting" IN
    /\ c.server \in {"answer", "refuse"}
    /\ browser' = IF waited /\ c.server = "answer" THEN [browser EXCEPT ![b] = NewCookies(b, c)]
                  ELSE browser
    /\ SetCall(b, k, [c EXCEPT !.server = "none", !.sent = NoSession, !.new = NoSession,
                               !.client = IF ~waited THEN @
                                          ELSE IF c.server = "answer" THEN "retry" ELSE "refused"])
    /\ UNCHANGED <<usersVars, sessions, expiries, faults>>

\* Bug: the page waits for the answer for ever.
NeverGivesUp(c) == FALSE

GivesUp(c) == c.client = "waiting" /\ (c.server = "none" \/ mix.slow)

\* REFRESH_TIMEOUT_MS, or the connection is gone.
Timeout(b, k) ==
    LET c == calls[b][k] IN
    /\ GivesUp(c)
    /\ SetCall(b, k, [c EXCEPT !.client = "refused"])
    /\ UNCHANGED <<usersVars, sessions, browser, expiries, faults>>

Retry(b, k) ==
    LET c == calls[b][k]  served == browser[b].access = "fresh" IN
    /\ c.client = "retry"
    /\ SetCall(b, k, IF served THEN Dropped(c) ELSE [c EXCEPT !.client = "refused"])
    /\ browser' = IF served /\ c.restores THEN [browser EXCEPT ![b].page = "app"] ELSE browser
    /\ UNCHANGED <<usersVars, sessions, expiries, faults>>
----------------------------------------------------------------------------
(* performLogout. *)

\* POST /auth/logout is not public: without a valid access token it is refused.
Leaving(b, c, client) ==
    [c EXCEPT !.client = client, !.leaves = browser[b].cookie,
              !.out = IF browser[b].access = "fresh" THEN "sent" ELSE "refused"]

\* On the page of the sign-in a refused call does nothing more.
GiveUp(b, k) ==
    LET c == calls[b][k] IN
    /\ c.client = "refused"
    /\ SetCall(b, k, IF browser[b].page = "app" THEN Leaving(b, c, "leaving")
                     ELSE Dropped(c))
    /\ UNCHANGED <<usersVars, sessions, browser, expiries, faults>>

SignOut(b, k) ==
    LET c == calls[b][k] IN
    /\ c.client = "idle" /\ browser[b].page = "app"
    /\ SetCall(b, k, Leaving(b, c, "signingOut"))
    /\ UNCHANGED <<usersVars, sessions, browser, expiries, faults>>

\* An expired token is not even looked up.
RevokeSession(b, k) ==
    LET c == calls[b][k] IN
    /\ c.out = "sent"
    /\ sessions' = IF Live(c.leaves) THEN [sessions EXCEPT ![c.leaves].state = "revoked"]
                   ELSE sessions
    /\ SetCall(b, k, [c EXCEPT !.out = "cleared"])
    /\ UNCHANGED <<usersVars, browser, expiries, faults>>

\* A redirection after a refused call ends the page and with it its other calls.
Left(b, k) ==
    LET c == calls[b][k] IN
    /\ c.client \in {"leaving", "signingOut"} /\ c.out \in {"cleared", "refused"}
    /\ browser' = [browser EXCEPT ![b] =
                     IF c.out = "cleared" THEN [cookie |-> NoSession, access |-> "none", page |-> "out"]
                     ELSE [@ EXCEPT !.page = "out"]]
    /\ calls' = [calls EXCEPT ![b] = [j \in Call |->
                     IF j = k \/ c.client = "leaving" THEN Dropped(calls[b][j]) ELSE calls[b][j]]]
    /\ UNCHANGED <<usersVars, sessions, expiries, faults>>

\* The process dies: what it was doing is lost, and nobody answers.
ApiDies ==
    /\ faults < mix.faults
    /\ \E b \in Browser, k \in Call : calls[b][k].server # "none"
    /\ faults' = faults + 1
    /\ calls' = [b \in Browser |-> [k \in Call |->
                   [calls[b][k] EXCEPT !.server = "none", !.sent = NoSession, !.new = NoSession,
                                       !.out = IF @ = "sent" THEN "refused" ELSE @]]]
    /\ login' = [b \in Browser |-> IdleLogin]
    /\ clerk' = [c \in Clerk |-> IdleClerk]
    /\ UNCHANGED <<accounts, wrong, sessions, browser, expiries>>
----------------------------------------------------------------------------
Administration == \E c \in mix.clerks :
    \/ \E op \in mix.ops, u \in mix.users : Request(c, op, u)
    \/ CheckAdmin(c) \/ CountOtherAdmins(c) \/ LoadUser(c) \/ ReloadUser(c) \/ SaveUser(c)
    \/ SaveAssignment(c)

\* App shows nothing but a spinner until the session is restored or refused.
Restoring(b) == \E k \in Call : calls[b][k].restores

SignIn(b) ==
    \/ \E u \in mix.users : browser[b].page # "app" /\ ~Restoring(b) /\ ValidateForLogin(b, u)
    \/ "wrong" \in mix.passwords /\ WrongPassword(b)
    \/ FindFailing(b) \/ ReloadLogin(b) \/ SaveLogin(b)
    \/ "right" \in mix.passwords /\ RegisterSuccess(b)

CallStep(b, k) ==
    \/ SendRefresh(b, k) \/ FindSession(b, k) \/ Rotate(b, k) \/ PersistSession(b, k) \/ Answer(b, k)
    \/ Timeout(b, k) \/ Retry(b, k) \/ GiveUp(b, k) \/ RevokeSession(b, k) \/ Left(b, k)

Next ==
    /\ UNCHANGED mix
    /\ \/ Administration /\ UNCHANGED sessionVars
       \/ \E b \in mix.browsers : SignIn(b) /\ UNCHANGED sessionVars
       \/ \E b \in mix.browsers : IssueSession(b) \/ ExpireAccess(b)
       \/ \E s \in Session : ExpireSession(s)
       \/ \E b \in mix.browsers, k \in mix.calls : Denied(b, k) \/ Restore(b, k) \/ SignOut(b, k) \/ CallStep(b, k)
       \/ ApiDies

Spec == Init /\ [][Next]_vars

\* The event loops of the API and of the page run what is ready; a fetch answers, fails or
\* reaches its timeout.
FairSpec == Spec /\ \A b \in Browser, k \in Call :
    WF_vars(k \in mix.calls /\ b \in mix.browsers /\ CallStep(b, k) /\ UNCHANGED mix)
----------------------------------------------------------------------------
TypeOK ==
    /\ UsersTypeOK
    /\ sessions \in [Session -> SessionRow]
    /\ \A b \in Browser :
         /\ browser[b].cookie \in Session \cup {NoSession}
         /\ browser[b].access \in {"none", "fresh", "expired"}
         /\ browser[b].page \in {"login", "app", "out"}
         /\ \A k \in Call :
              /\ calls[b][k].server = "rotate" => Unused # {}
              /\ (calls[b][k].server # "none") = (calls[b][k].sent \in Session)
              /\ (calls[b][k].new # NoSession) = (calls[b][k].server \in {"persist", "answer"})

\* A chain of rotations has one session at most that is not revoked, also when the process
\* dies between the two writes of a rotation or the session found expires meanwhile, as long
\* as its page makes one call at a time and waits for the answer.
OneLivePerChain ==
    Cardinality(mix.calls) = 1 /\ ~mix.slow =>
        \A s, t \in Session : Kept(s) /\ Kept(t) /\ sessions[s].root = sessions[t].root => s = t

\* A page that shows the application and has nothing under way holds the cookie of a session
\* that nobody has revoked, also when several of its calls refreshed, timed out or signed out
\* side by side: nothing but age, which an idle page does not notice, ends its session.
PageHasSession ==
    \A b \in Browser :
        browser[b].page = "app" /\ (\A k \in Call : calls[b][k].client = "idle")
            => Kept(browser[b].cookie)

\* A call that finds its token expired ends: served again, or on the page of the sign-in.
CallsEnd == \A b \in Browser, k \in Call : calls[b][k].client # "idle" ~> calls[b][k].client = "idle"

\* After a sign-out the browser keeps no session that could be refreshed:
\* docs/Doc Vieja/22-AuthReport.md:66 "Logout revoca refresh activo y limpia cookies".
LogoutRevokes == \A b \in Browser : browser[b].page = "out" => ~Live(browser[b].cookie)
=============================================================================
