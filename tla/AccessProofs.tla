---------------------------- MODULE AccessProofs ----------------------------
(***************************************************************************)
(* Proofs about RefreshSessions and its accounts, for any number of users, *)
(* administrative requests, browsers and calls: the accounts and the last  *)
(* administrator, the rows of the sessions and what the calls of a page    *)
(* know of them, the lock and the count of wrong passwords.                *)
(***************************************************************************)
EXTENDS RefreshSessions, FiniteSetTheorems, WellFoundedInduction, TLAPS

UserOps == Ops \ (Revokes \cup Assigns)

\* Only the operations of users.service.ts load and save an account.
Loads == \A c \in Clerk : clerk[c].pc \in {"load", "write"} => clerk[c].op \in UserOps

\* The inductive invariant of the accounts.
IInv == mix \in Mixes /\ UsersTypeOK /\ Loads
----------------------------------------------------------------------------
(* Rows *)

LEMMA MinOfTwo ==
    ASSUME NEW m \in Int, NEW n \in Int
    PROVE  Min({m, n}) \in {m, n} /\ Min({m, n}) <= m /\ Min({m, n}) <= n
<1>1. \E x \in {m, n} : \A y \in {m, n} : x <= y
  <2>1. CASE m <= n
    BY <2>1
  <2>2. CASE n <= m
    BY <2>2
  <2> QED BY <2>1, <2>2
<1>2. Min({m, n}) \in {m, n} /\ \A y \in {m, n} : Min({m, n}) <= y
  BY <1>1 DEF Min
<1> QED BY <1>2

\* A count never passes its limit.
LEMMA Capped ==
    ASSUME NEW a \in Nat, NEW limit \in Nat
    PROVE  Min({a + 1, limit}) \in 0..limit
<1> DEFINE n == a + 1
<1>1. n \in Int /\ n >= 0
  OBVIOUS
<1> HIDE DEF n
<1>2. Min({n, limit}) \in {n, limit} /\ Min({n, limit}) <= limit
  BY <1>1, MinOfTwo
<1>3. Min({n, limit}) \in 0..limit
  BY <1>1, <1>2
<1> QED BY <1>3 DEF n

LEMMA OneMore ==
    ASSUME NEW a \in Nat, NEW limit \in Nat
    PROVE  Min({a + 1, limit}) <= a + 1 /\ (a + 1 < limit => Min({a + 1, limit}) = a + 1)
<1> DEFINE n == a + 1
<1>1. n \in Int /\ n >= 0
  OBVIOUS
<1> HIDE DEF n
<1>2. Min({n, limit}) \in {n, limit} /\ Min({n, limit}) <= n /\ Min({n, limit}) <= limit
  BY <1>1, MinOfTwo
<1>3. Min({n, limit}) <= n /\ (n < limit => Min({n, limit}) = n)
  BY <1>1, <1>2
<1> QED BY <1>3 DEF n

LEMMA NewUserRow == NewUser \in UserRow /\ NewUser.estado = "ACTIVO" /\ NewUser.lockedUntil = NoLock
BY UsersAssumption DEF NewUser, UserRow, NoLock

\* What an administrator makes of the row he read.
LEMMA EditedRow ==
    ASSUME NEW op \in UserOps, NEW ent \in UserRow
    PROVE  /\ Edited(op, ent) \in UserRow
           /\ Edited(op, ent).lockedUntil \in {NoLock, ent.lockedUntil}
           /\ op \notin Restricts => Edited(op, ent).estado \in {"ACTIVO", ent.estado}
<1>1. CASE op = "inactivate"
  BY <1>1 DEF Edited, UserRow, Restricts
<1>2. CASE op = "block"
  BY <1>2 DEF Edited, UserRow, Restricts
<1>3. CASE op = "reactivate"
  BY <1>3, NewUserRow DEF Edited
<1>4. CASE op = "update"
  BY <1>4 DEF Edited
<1> QED BY <1>1, <1>2, <1>3, <1>4 DEF UserOps, Ops, Revokes, Assigns, Restricts

LEMMA ResetRow ==
    ASSUME NEW row \in UserRow
    PROVE  LET reset == [row EXCEPT !.failedAttempts = 0, !.lockedUntil = NoLock]
           IN /\ reset \in UserRow /\ reset.estado = row.estado
              /\ reset.failedAttempts = 0 /\ reset.lockedUntil = NoLock
<1> DEFINE reset == [row EXCEPT !.failedAttempts = 0, !.lockedUntil = NoLock]
<1>1. 0 \in 0..MaxAttempts /\ NoLock \in 0..MaxLocks
  BY UsersAssumption DEF NoLock
<1>2. reset \in UserRow
  BY <1>1, Zenon DEF UserRow
<1> QED BY <1>2 DEF UserRow

LEMMA UnlockedRow ==
    ASSUME NEW row \in UserRow
    PROVE  Unlocked(row) \in UserRow
<1>1. 0 \in 0..MaxAttempts /\ NoLock \in 0..MaxLocks
  BY UsersAssumption DEF NoLock
<1> QED BY <1>1, Zenon DEF UserRow, Unlocked

LEMMA FailedRow ==
    ASSUME NEW row \in UserRow, NEW time \in 1..MaxLocks
    PROVE  /\ AfterFailure(row, time) \in UserRow
           /\ \/ /\ AtLimit(row.failedAttempts + 1)
                 /\ AfterFailure(row, time).estado = "BLOQUEADO"
              \/ /\ ~AtLimit(row.failedAttempts + 1)
                 /\ AfterFailure(row, time).estado = row.estado
                 /\ AfterFailure(row, time).lockedUntil = row.lockedUntil
<1>1. row.failedAttempts \in Nat /\ MaxAttempts \in Nat /\ MaxLocks \in Nat
  BY UsersAssumption DEF UserRow
<1>2. Min({row.failedAttempts + 1, MaxAttempts}) \in 0..MaxAttempts
  BY <1>1, Capped
<1> QED BY <1>1, <1>2 DEF AfterFailure, UserRow

\* What the UPDATE of a save leaves, column by column.
LEMMA UpdatedRow ==
    ASSUME NEW row \in UserRow, NEW ent \in UserRow, NEW db \in UserRow
    PROVE  LET new == Updated(row, ent, db) IN
           /\ new \in UserRow
           /\ new.estado = IF ent.estado = db.estado THEN row.estado ELSE ent.estado
           /\ new.failedAttempts = IF ent.failedAttempts = db.failedAttempts THEN row.failedAttempts
                                   ELSE ent.failedAttempts
           /\ new.lockedUntil = IF ent.lockedUntil = db.lockedUntil THEN row.lockedUntil
                                ELSE ent.lockedUntil
BY DEF Updated, UserRow

\* The time of a new lock is one.
LEMMA LockTime ==
    ASSUME \E time \in 1..MaxLocks : Fresh(time)
    PROVE  (CHOOSE t \in 1..MaxLocks : Fresh(t)) \in 1..MaxLocks
OBVIOUS
----------------------------------------------------------------------------
(* The inductive invariant *)

LEMMA InitInductive == Init => IInv
BY NewUserRow, UsersAssumption
   DEF Init, IInv, UsersInit, UsersTypeOK, Loads, ClerkRow, LoginRow, IdleClerk, IdleLogin

LEMMA AdministrationInductive ==
    ASSUME IInv, UNCHANGED mix, Administration
    PROVE  IInv'
<1> USE DEF IInv
<1> PICK c \in mix.clerks :
        \/ \E op \in mix.ops, u \in mix.users : Request(c, op, u)
        \/ CheckAdmin(c) \/ CountOtherAdmins(c) \/ LoadUser(c) \/ ReloadUser(c) \/ SaveUser(c)
        \/ SaveAssignment(c)
  BY DEF Administration
<1> c \in Clerk /\ mix.ops \subseteq Ops /\ mix.users \subseteq User
  BY UsersAssumption
<1>1. ASSUME NEW op \in mix.ops, NEW u \in mix.users, Request(c, op, u) PROVE IInv'
  BY <1>1, NewUserRow DEF Request, SetClerk, IdleClerk, Unguarded, accounts,
     UsersTypeOK, Loads, UserOps, ClerkRow, LoginRow
<1>2. ASSUME CheckAdmin(c) PROVE IInv'
  BY <1>2 DEF CheckAdmin, ClerkAt, SetClerk, Unguarded, accounts,
     UsersTypeOK, Loads, UserOps, ClerkRow, LoginRow
<1>3. ASSUME CountOtherAdmins(c) PROVE IInv'
  BY <1>3, NewUserRow DEF CountOtherAdmins, ClerkAt, SetClerk, IdleClerk, Unguarded, accounts,
     UsersTypeOK, Loads, UserOps, ClerkRow, LoginRow
<1>4. ASSUME LoadUser(c) PROVE IInv'
  <2> DEFINE r == clerk[c]  row == Edited(r.op, users[r.u])
  <2>1. r.u \in User /\ r.op \in Ops /\ users[r.u] \in UserRow
    BY <1>4 DEF LoadUser, UsersTypeOK
  <2>2. r.op \in UserOps
    BY <1>4 DEF LoadUser, Loads
  <2>3. row \in UserRow
    BY <2>1, <2>2, EditedRow
  <2> HIDE DEF row
  <2>4. clerk' = [clerk EXCEPT ![c] = [clerk[c] EXCEPT !.pc = "save", !.ent = row]]
    BY <1>4 DEF LoadUser, SetClerk, row
  <2> QED BY <1>4, <2>1, <2>3, <2>4 DEF LoadUser, accounts, UsersTypeOK, Loads, UserOps, ClerkRow, LoginRow
<1>5. ASSUME ReloadUser(c) PROVE IInv'
  BY <1>5 DEF ReloadUser, SetClerk, accounts, UsersTypeOK, Loads, UserOps, ClerkRow, LoginRow
<1>6. ASSUME SaveUser(c) PROVE IInv'
  <2> DEFINE r == clerk[c]  row == Updated(users[r.u], r.ent, r.db)
  <2>1. r.u \in User /\ r.ent \in UserRow /\ r.db \in UserRow /\ users[r.u] \in UserRow
    BY <1>6 DEF SaveUser, UsersTypeOK, ClerkRow
  <2>2. row \in UserRow
    BY <2>1, UpdatedRow
  <2>3. users' = [users EXCEPT ![r.u] = row] /\ clerk' = [clerk EXCEPT ![c] = IdleClerk]
    BY <1>6, <2>1 DEF SaveUser, SetClerk, UsersTypeOK
  <2> HIDE DEF row
  <2>4. wrong' \in [User -> 0..MaxWrong]
    BY <1>6, <2>1, UsersAssumption DEF SaveUser, UsersTypeOK
  <2> QED BY <1>6, <2>1, <2>2, <2>3, <2>4, NewUserRow
          DEF SaveUser, IdleClerk, UsersTypeOK, Loads, ClerkRow, LoginRow
<1>7. ASSUME SaveAssignment(c) PROVE IInv'
  <2>1. clerk[c].u \in User
    BY <1>7 DEF SaveAssignment, UsersTypeOK
  <2>2. company' \subseteq User /\ role' \subseteq User
    BY <1>7, <2>1 DEF SaveAssignment, UsersTypeOK
  <2> QED BY <1>7, <2>2, NewUserRow DEF SaveAssignment, SetClerk, IdleClerk,
          UsersTypeOK, Loads, UserOps, ClerkRow, LoginRow
<1> QED BY <1>1, <1>2, <1>3, <1>4, <1>5, <1>6, <1>7

LEMMA SignInInductive ==
    ASSUME IInv, UNCHANGED mix, NEW b \in mix.browsers, SignIn(b)
    PROVE  IInv'
<1> USE DEF IInv
<1> b \in Browser /\ mix.users \subseteq User
  BY UsersAssumption
<1>1. ASSUME NEW u \in mix.users, ValidateForLogin(b, u) PROVE IInv'
  <2>1. Unlocked(users[u]) \in UserRow
    BY UnlockedRow DEF UsersTypeOK
  <2> QED BY <1>1, <2>1, NewUserRow DEF ValidateForLogin, SetLogin, IdleLogin, accounts,
          UsersTypeOK, Loads, UserOps, ClerkRow, LoginRow
<1>2. ASSUME WrongPassword(b) PROVE IInv'
  <2> DEFINE u == login[b].u
  <2>1. u \in User /\ wrong[u] \in 0..MaxWrong
    BY <1>2 DEF WrongPassword, UsersTypeOK
  <2>2. Min({wrong[u] + 1, MaxWrong}) \in 0..MaxWrong
    BY <2>1, UsersAssumption, Capped
  <2> QED BY <1>2, <2>1, <2>2 DEF WrongPassword, LoginAt, SetLogin, accounts,
          UsersTypeOK, Loads, UserOps, ClerkRow, LoginRow
<1>3. ASSUME FindFailing(b) PROVE IInv'
  <2> DEFINE t == CHOOSE t \in 1..MaxLocks : Fresh(t)
             row == AfterFailure(users[login[b].u], t)
  <2>1. login[b].u \in User /\ users[login[b].u] \in UserRow /\ t \in 1..MaxLocks
    BY <1>3, LockTime DEF FindFailing, UsersTypeOK
  <2> HIDE DEF t
  <2>2. row \in UserRow
    BY <2>1, FailedRow
  <2>3. login' = [login EXCEPT ![b] = [login[b] EXCEPT !.pc = "save", !.ent = row]]
    BY <1>3 DEF FindFailing, SetLogin, t
  <2> HIDE DEF row
  <2> QED BY <1>3, <2>1, <2>2, <2>3 DEF FindFailing, accounts, UsersTypeOK, Loads, UserOps, ClerkRow, LoginRow
<1>4. ASSUME ReloadLogin(b) PROVE IInv'
  BY <1>4 DEF ReloadLogin, SetLogin, accounts, UsersTypeOK, Loads, UserOps, ClerkRow, LoginRow
<1>5. ASSUME SaveLogin(b) PROVE IInv'
  <2> DEFINE r == login[b]  row == Updated(users[r.u], r.ent, r.db)
  <2>1. r.u \in User /\ r.ent \in UserRow /\ r.db \in UserRow /\ users[r.u] \in UserRow
    BY <1>5 DEF SaveLogin, UsersTypeOK, LoginRow
  <2>2. row \in UserRow
    BY <2>1, UpdatedRow
  <2>3. users' = [users EXCEPT ![r.u] = row]
    BY <1>5, <2>1 DEF SaveLogin, UsersTypeOK
  <2> HIDE DEF row
  <2> DEFINE next == IF r.pc = "clear" THEN [IdleLogin EXCEPT !.pc = "compare", !.u = r.u] ELSE IdleLogin
  <2>4. next \in LoginRow /\ (next.pc # "idle" => next.u \in User)
    BY <2>1, NewUserRow DEF IdleLogin, LoginRow
  <2>5. login' = [login EXCEPT ![b] = next] /\ UNCHANGED <<company, role, clerk, wrong>>
    BY <1>5 DEF SaveLogin, SetLogin
  <2> HIDE DEF next
  <2> QED BY <2>1, <2>2, <2>3, <2>4, <2>5 DEF UsersTypeOK, Loads
<1>6. ASSUME RegisterSuccess(b) PROVE IInv'
  <2> DEFINE u == login[b].u
  <2>1. u \in User
    BY <1>6 DEF RegisterSuccess, UsersTypeOK
  <2> DEFINE row == [users[u] EXCEPT !.failedAttempts = 0, !.lockedUntil = NoLock]
  <2>2. row \in UserRow
    BY <2>1, ResetRow DEF UsersTypeOK
  <2>3. users' = [users EXCEPT ![u] = row]
    BY <1>6, <2>1 DEF RegisterSuccess, UsersTypeOK, UserRow
  <2> HIDE DEF row
  <2>4. users' \in [User -> UserRow]
    BY <2>1, <2>2, <2>3 DEF UsersTypeOK
  <2>5. wrong' \in [User -> 0..MaxWrong] /\ login' = [login EXCEPT ![b].pc = "issue"]
    BY <1>6, <2>1, UsersAssumption DEF RegisterSuccess, UsersTypeOK, LoginAt, SetLogin
  <2>6. login' \in [Browser -> LoginRow]
    BY <2>5 DEF UsersTypeOK, LoginRow
  <2>7. \A d \in Browser : login'[d].pc # "idle" => login'[d].u \in User
    BY <1>6, <2>1, <2>5 DEF UsersTypeOK, LoginRow
  <2> QED BY <1>6, <2>4, <2>5, <2>6, <2>7 DEF RegisterSuccess, UsersTypeOK, Loads
<1> QED BY <1>1, <1>2, <1>3, <1>4, <1>5, <1>6 DEF SignIn

\* The steps of the sessions leave the accounts alone; two of them end requests.
LEMMA SessionsKeepAccounts ==
    ASSUME NEW b \in Browser, NEW k \in Call,
           \/ ExpireAccess(b) \/ Denied(b, k) \/ Restore(b, k) \/ SignOut(b, k) \/ CallStep(b, k)
    PROVE  UNCHANGED usersVars
BY DEF ExpireAccess, Denied, Restore, SignOut, CallStep, SendRefresh, FindSession, Rotate,
       PersistSession, Answer, Timeout, Retry, GiveUp, RevokeSession, Left

LEMMA UsersUnchanged ==
    ASSUME IInv, UNCHANGED <<usersVars, mix>>
    PROVE  IInv'
BY DEF IInv, usersVars, UsersTypeOK, Loads

LEMMA NextInductive == IInv /\ [Next]_vars => IInv'
<1> SUFFICES ASSUME IInv, [Next]_vars PROVE IInv'
  OBVIOUS
<1>1. CASE UNCHANGED vars
  BY <1>1, UsersUnchanged DEF vars
<1>2. CASE Next
  <2> mix.browsers \subseteq Browser /\ mix.calls \subseteq Call
    BY UsersAssumption, SessionsAssumption DEF IInv
  <2> UNCHANGED mix
    BY <1>2 DEF Next
  <2>1. ASSUME NEW b \in mix.browsers, IssueSession(b) PROVE IInv'
    BY <2>1, NewUserRow DEF IssueSession, SetLogin, IdleLogin, accounts,
       IInv, UsersTypeOK, Loads, LoginRow
  <2>2. ASSUME NEW b \in mix.browsers, ExpireAccess(b) PROVE IInv'
    BY <2>2, UsersUnchanged DEF ExpireAccess
  <2>3. ASSUME ApiDies PROVE IInv'
    BY <2>3, NewUserRow DEF ApiDies, IdleLogin, IdleClerk, accounts,
       IInv, UsersTypeOK, Loads, LoginRow, ClerkRow
  <2>4. ASSUME NEW b \in mix.browsers, NEW k \in mix.calls,
               Denied(b, k) \/ Restore(b, k) \/ SignOut(b, k) \/ CallStep(b, k)
        PROVE  IInv'
    BY <2>4, SessionsKeepAccounts, UsersUnchanged
  <2>5. ASSUME NEW s \in Session, ExpireSession(s) PROVE IInv'
    BY <2>5, UsersUnchanged DEF ExpireSession
  <2> QED BY <1>2, <2>1, <2>2, <2>3, <2>4, <2>5, AdministrationInductive, SignInInductive DEF Next
<1> QED BY <1>1, <1>2

\* The accounts and what requests hold of them keep their types, whatever is saved over
\* what (users.service.ts, user-assignment.service.ts).
THEOREM AccountsTyped == Spec => []UsersTypeOK
<1>1. IInv => UsersTypeOK
  BY DEF IInv
<1> QED BY <1>1, InitInductive, NextInductive, PTL DEF Spec
----------------------------------------------------------------------------
(* The last administrator *)

\* What AnAdminRemains asks of the requests.
OneRequestAtATime == (\A c, d \in mix.clerks : c = d) /\ "wrong" \notin mix.passwords

Unlocking(pc) == pc \in {"unlock", "clear", "find", "save", "write"}

NoLocks == \A u \in User : users[u].lockedUntil = NoLock

\* The request under way has seen another administrator if it is going to restrict one, and
\* otherwise it is going to save the state the account still has, or ACTIVO.
SeenAnother(c) ==
    /\ c \notin mix.clerks => clerk[c].pc = "idle"
    /\ clerk[c].ent.lockedUntil = NoLock /\ clerk[c].db.lockedUntil = NoLock
    /\ clerk[c].pc \in {"save", "write"} /\ clerk[c].op \in UserOps \ Restricts
         => clerk[c].ent.estado \in {"ACTIVO", users[clerk[c].u].estado}
    /\ clerk[c].pc = "write" => /\ clerk[c].op \in UserOps
                               /\ clerk[c].db.estado = users[clerk[c].u].estado
    /\ clerk[c].pc \in {"load", "save", "write"} /\ ProtectsLastAdmin(clerk[c].op)
       /\ CountsAsAdmin(clerk[c].u)
         => OtherAdmins(clerk[c].u) # {}

\* Nobody is locked, so no sign-in saves an account.
AdminInv ==
    /\ ConfigAdmins # {}
    /\ NoLocks /\ \A b \in Browser : ~Unlocking(login[b].pc)
    /\ \A c \in Clerk : SeenAnother(c)

AdminIInv == IInv /\ (OneRequestAtATime => AdminInv)

\* Who counts as an administrator depends on the states and the assignments alone.
LEMMA SameAdmins ==
    ASSUME \A u \in User : users'[u].estado = users[u].estado, UNCHANGED <<company, role>>
    PROVE  /\ \A u \in User : CountsAsAdmin(u)' = CountsAsAdmin(u)
           /\ ConfigAdmins' = ConfigAdmins
           /\ \A u \in User : OtherAdmins(u)' = OtherAdmins(u)
<1>1. \A u \in User : CountsAsAdmin(u)' = CountsAsAdmin(u)
  BY DEF CountsAsAdmin
<1>2. ConfigAdmins' = ConfigAdmins
  BY <1>1 DEF ConfigAdmins
<1> QED BY <1>1, <1>2 DEF OtherAdmins

LEMMA InitAdmins == Init => AdminInv
<1> SUFFICES ASSUME Init PROVE AdminInv
  OBVIOUS
<1>1. ConfigAdmins = User
  BY DEF Init, UsersInit, ConfigAdmins, CountsAsAdmin, NewUser
<1> QED BY <1>1, UsersAssumption
        DEF Init, UsersInit, AdminInv, SeenAnother, IdleClerk, IdleLogin, NewUser, NoLocks, Unlocking

\* A step that changes neither who is an administrator nor any request.
LEMMA RequestsUnchanged ==
    ASSUME IInv, AdminInv, UNCHANGED <<clerk, company, role, mix>>,
           \A u \in User : users'[u].estado = users[u].estado, NoLocks',
           \A b \in Browser : ~Unlocking(login'[b].pc)
    PROVE  AdminInv'
<1>1. ConfigAdmins' # {}
  BY SameAdmins DEF AdminInv
<1>2. ASSUME NEW c \in Clerk PROVE SeenAnother(c)'
  <2>1. CASE clerk[c].pc = "idle"
    BY <2>1 DEF SeenAnother, AdminInv
  <2>2. CASE clerk[c].pc # "idle"
    <3>1. clerk[c].u \in User
      BY <2>2 DEF IInv, UsersTypeOK
    <3> QED BY <2>2, <3>1, SameAdmins DEF AdminInv, SeenAnother, ProtectsLastAdmin
  <2> QED BY <2>1, <2>2
<1> QED BY <1>1, <1>2 DEF AdminInv

\* One step of one request: what holds of it afterwards is all there is to show, as the
\* others are idle.
LEMMA OneRequest ==
    ASSUME IInv, OneRequestAtATime, AdminInv, UNCHANGED <<login, mix>>,
           NEW c \in mix.clerks, NEW r, clerk' = [clerk EXCEPT ![c] = r],
           ConfigAdmins' # {}, NoLocks', SeenAnother(c)'
    PROVE  AdminInv'
<1> c \in Clerk /\ mix.clerks \subseteq Clerk
  BY UsersAssumption DEF IInv
<1>1. ASSUME NEW d \in Clerk, d # c PROVE SeenAnother(d)'
  <2>1. d \notin mix.clerks
    BY <1>1 DEF OneRequestAtATime
  <2>2. clerk'[d] = clerk[d] /\ clerk[d].pc = "idle" /\ SeenAnother(d)
    BY <1>1, <2>1 DEF AdminInv, SeenAnother, IInv, UsersTypeOK
  <2> QED BY <2>2 DEF SeenAnother
<1> QED BY <1>1 DEF AdminInv

LEMMA AdministrationKeepsAdmins ==
    ASSUME IInv, OneRequestAtATime, AdminInv, UNCHANGED mix, Administration
    PROVE  AdminInv'
<1> PICK c \in mix.clerks :
        \/ \E op \in mix.ops, u \in mix.users : Request(c, op, u)
        \/ CheckAdmin(c) \/ CountOtherAdmins(c) \/ LoadUser(c) \/ ReloadUser(c) \/ SaveUser(c)
        \/ SaveAssignment(c)
  BY DEF Administration
<1> c \in Clerk /\ mix.ops \subseteq Ops /\ mix.users \subseteq User
  BY UsersAssumption DEF IInv
<1> DEFINE r == clerk[c]
<1> r \in ClerkRow /\ SeenAnother(c) /\ clerk \in [Clerk -> ClerkRow] /\ NoLocks
    /\ users \in [User -> UserRow]
  BY DEF IInv, UsersTypeOK, AdminInv
<1>0. ASSUME UNCHANGED users PROVE NoLocks'
  BY <1>0 DEF NoLocks
<1>1. ASSUME NEW op \in mix.ops, NEW u \in mix.users, Request(c, op, u) PROVE AdminInv'
  <2>1. UNCHANGED accounts /\ UNCHANGED login
    BY <1>1 DEF Request, accounts
  <2>2. ConfigAdmins' # {}
    BY <2>1, SameAdmins DEF AdminInv, accounts
  <2> DEFINE new == [IdleClerk EXCEPT !.pc = IF ProtectsLastAdmin(op) THEN "check" ELSE Unguarded(op),
                                      !.op = op, !.u = u]
  <2>3. clerk' = [clerk EXCEPT ![c] = new] /\ clerk'[c] = new
    BY <1>1 DEF Request, SetClerk
  <2>4. /\ new.op = op /\ new.u = u /\ new.pc # "write"
        /\ new.ent.lockedUntil = NoLock /\ new.db.lockedUntil = NoLock
        /\ ProtectsLastAdmin(op) => new.pc = "check"
        /\ op \in UserOps => new.pc # "save"
    BY NewUserRow DEF IdleClerk, UserOps, Unguarded
  <2> HIDE DEF new
  <2>5. SeenAnother(c)'
    BY <2>3, <2>4 DEF SeenAnother, ProtectsLastAdmin
  <2> QED BY <1>0, <2>1, <2>2, <2>3, <2>5, OneRequest DEF accounts
<1>2. ASSUME CheckAdmin(c) PROVE AdminInv'
  <2>1. UNCHANGED accounts /\ UNCHANGED login /\ r.u \in User
    BY <1>2 DEF CheckAdmin, accounts, IInv, UsersTypeOK
  <2>2. ConfigAdmins' # {} /\ \A u \in User : CountsAsAdmin(u)' = CountsAsAdmin(u)
    BY <2>1, SameAdmins DEF AdminInv, accounts
  <2> DEFINE new == [r EXCEPT !.pc = IF CountsAsAdmin(r.u) THEN "count" ELSE Unguarded(r.op)]
  <2>3. clerk' = [clerk EXCEPT ![c] = new] /\ clerk'[c] = new
    BY <1>2 DEF CheckAdmin, ClerkAt, SetClerk
  <2>4. /\ new.op = r.op /\ new.u = r.u /\ new.ent = r.ent /\ new.db = r.db /\ new.pc # "write"
        /\ CountsAsAdmin(r.u) => new.pc = "count"
        /\ r.op \in UserOps => new.pc # "save"
    BY DEF ClerkRow, UserOps, Unguarded
  <2> HIDE DEF new
  <2>5. SeenAnother(c)'
    BY <2>1, <2>2, <2>3, <2>4 DEF SeenAnother
  <2> QED BY <1>0, <2>1, <2>2, <2>3, <2>5, OneRequest DEF accounts
<1>3. ASSUME CountOtherAdmins(c) PROVE AdminInv'
  <2>1. UNCHANGED accounts /\ UNCHANGED login /\ r.u \in User
    BY <1>3 DEF CountOtherAdmins, accounts, IInv, UsersTypeOK
  <2>2. ConfigAdmins' # {} /\ \A u \in User : OtherAdmins(u)' = OtherAdmins(u)
    BY <2>1, SameAdmins DEF AdminInv, accounts
  <2>3. CASE OtherAdmins(r.u) = {}
    <3>1. clerk' = [clerk EXCEPT ![c] = IdleClerk] /\ clerk'[c] = IdleClerk
      BY <1>3, <2>3 DEF CountOtherAdmins, SetClerk
    <3>2. SeenAnother(c)'
      BY <3>1, NewUserRow DEF SeenAnother, IdleClerk
    <3> QED BY <1>0, <2>1, <2>2, <3>1, <3>2, OneRequest DEF accounts
  <2>4. CASE OtherAdmins(r.u) # {}
    <3> DEFINE new == [r EXCEPT !.pc = Unguarded(r.op)]
    <3>1. clerk' = [clerk EXCEPT ![c] = new] /\ clerk'[c] = new
      BY <1>3, <2>4 DEF CountOtherAdmins, ClerkAt, SetClerk
    <3>2. /\ new.op = r.op /\ new.u = r.u /\ new.ent = r.ent /\ new.db = r.db /\ new.pc # "write"
          /\ r.op \in UserOps => new.pc # "save"
      BY DEF ClerkRow, UserOps, Unguarded
    <3> HIDE DEF new
    <3>3. SeenAnother(c)'
      BY <2>1, <2>2, <2>4, <3>1, <3>2 DEF SeenAnother
    <3> QED BY <1>0, <2>1, <2>2, <3>1, <3>3, OneRequest DEF accounts
  <2> QED BY <2>3, <2>4
<1>4. ASSUME LoadUser(c) PROVE AdminInv'
  <2> DEFINE row == Edited(r.op, users[r.u])
  <2>1. /\ UNCHANGED accounts /\ UNCHANGED login /\ r.u \in User /\ r.pc = "load"
        /\ r.op \in Ops /\ users[r.u] \in UserRow
    BY <1>4 DEF LoadUser, accounts, IInv, UsersTypeOK
  <2>2. /\ ConfigAdmins' # {} /\ \A u \in User : OtherAdmins(u)' = OtherAdmins(u)
        /\ \A u \in User : CountsAsAdmin(u)' = CountsAsAdmin(u)
    BY <2>1, SameAdmins DEF AdminInv, accounts
  <2>3. r.op \in UserOps
    BY <1>4 DEF LoadUser, IInv, Loads
  <2>4. row.lockedUntil = NoLock /\ (r.op \notin Restricts => row.estado \in {"ACTIVO", users[r.u].estado})
    BY <2>1, <2>3, EditedRow DEF NoLocks
  <2> DEFINE new == [r EXCEPT !.pc = "save", !.ent = row]
  <2> HIDE DEF row
  <2>5. clerk' = [clerk EXCEPT ![c] = new] /\ clerk'[c] = new
    BY <1>4 DEF LoadUser, SetClerk, row
  <2>6. new.op = r.op /\ new.u = r.u /\ new.ent = row /\ new.db = r.db /\ new.pc = "save"
    BY DEF ClerkRow
  <2> HIDE DEF new
  <2>7. SeenAnother(c)'
    BY <2>1, <2>2, <2>4, <2>5, <2>6 DEF SeenAnother, ProtectsLastAdmin, accounts
  <2> QED BY <1>0, <2>1, <2>2, <2>5, <2>7, OneRequest DEF accounts
<1>5. ASSUME ReloadUser(c) PROVE AdminInv'
  <2>1. /\ UNCHANGED accounts /\ UNCHANGED login /\ r.u \in User /\ r.pc = "save" /\ r.op \in UserOps
    BY <1>5 DEF ReloadUser, accounts, IInv, UsersTypeOK, UserOps
  <2>2. /\ ConfigAdmins' # {} /\ \A u \in User : OtherAdmins(u)' = OtherAdmins(u)
        /\ \A u \in User : CountsAsAdmin(u)' = CountsAsAdmin(u)
    BY <2>1, SameAdmins DEF AdminInv, accounts
  <2> DEFINE new == [r EXCEPT !.pc = "write", !.db = users[r.u]]
  <2>3. clerk' = [clerk EXCEPT ![c] = new] /\ clerk'[c] = new
    BY <1>5 DEF ReloadUser, SetClerk
  <2>4. new.op = r.op /\ new.u = r.u /\ new.ent = r.ent /\ new.db = users[r.u] /\ new.pc = "write"
    BY DEF ClerkRow
  <2> HIDE DEF new
  <2>5. SeenAnother(c)'
    BY <2>1, <2>2, <2>3, <2>4 DEF SeenAnother, ProtectsLastAdmin, accounts, NoLocks
  <2> QED BY <1>0, <2>1, <2>2, <2>3, <2>5, OneRequest DEF accounts
<1>6. ASSUME SaveUser(c) PROVE AdminInv'
  <2> DEFINE row == Updated(users[r.u], r.ent, r.db)
  <2>1. /\ r.pc = "write" /\ r.u \in User /\ r.op \in UserOps /\ r.db.estado = users[r.u].estado
        /\ r.ent \in UserRow /\ r.db \in UserRow /\ users[r.u] \in UserRow
    BY <1>6 DEF SaveUser, IInv, UsersTypeOK, SeenAnother, ClerkRow
  <2>2. /\ users' = [users EXCEPT ![r.u] = row] /\ UNCHANGED <<company, role, login>>
        /\ clerk' = [clerk EXCEPT ![c] = IdleClerk] /\ clerk'[c] = IdleClerk
    BY <1>6, <2>1 DEF SaveUser, SetClerk
  <2>3. row.estado = r.ent.estado /\ row.lockedUntil = NoLock
    BY <2>1, UpdatedRow DEF SeenAnother, NoLocks
  <2>4. row.estado \in {"ACTIVO", users[r.u].estado} \/ r.op \in Restricts
    BY <2>1, <2>3 DEF SeenAnother
  <2> HIDE DEF row
  <2>5. ConfigAdmins \ {r.u} \subseteq ConfigAdmins' /\ NoLocks'
    BY <2>1, <2>2, <2>3 DEF ConfigAdmins, CountsAsAdmin, NoLocks
  <2>6. SeenAnother(c)'
    BY <2>2, NewUserRow DEF SeenAnother, IdleClerk
  <2>7. CASE r.op \in Restricts /\ CountsAsAdmin(r.u)
    <3>1. OtherAdmins(r.u) # {}
      BY <2>1, <2>7 DEF SeenAnother, ProtectsLastAdmin
    <3> QED BY <2>1, <2>2, <2>5, <2>6, <3>1, OneRequest DEF OtherAdmins
  <2>8. CASE ~CountsAsAdmin(r.u)
    <3>1. r.u \notin ConfigAdmins /\ ConfigAdmins # {}
      BY <2>8 DEF ConfigAdmins, AdminInv
    <3> QED BY <2>1, <2>2, <2>5, <2>6, <3>1, OneRequest
  <2>9. CASE r.op \notin Restricts /\ CountsAsAdmin(r.u)
    <3> DEFINE u == r.u
    <3>1. users'[u].estado = "ACTIVO" /\ u \in company' /\ u \in role'
      BY <2>1, <2>2, <2>4, <2>9 DEF CountsAsAdmin
    <3>2. ConfigAdmins' # {}
      BY <2>1, <3>1 DEF ConfigAdmins, CountsAsAdmin
    <3> QED BY <2>2, <2>5, <2>6, <3>2, OneRequest
  <2> QED BY <2>7, <2>8, <2>9
<1>7. ASSUME SaveAssignment(c) PROVE AdminInv'
  <2>1. r.pc = "save" /\ r.u \in User /\ r.op \in Revokes \cup Assigns
    BY <1>7 DEF SaveAssignment, IInv, UsersTypeOK
  <2>2. /\ UNCHANGED <<users, login>>
        /\ clerk' = [clerk EXCEPT ![c] = IdleClerk] /\ clerk'[c] = IdleClerk
    BY <1>7 DEF SaveAssignment, SetClerk
  <2>3. company \ {r.u} \subseteq company' /\ role \ {r.u} \subseteq role'
    BY <1>7 DEF SaveAssignment
  <2>4. ConfigAdmins \ {r.u} \subseteq ConfigAdmins'
    BY <2>2, <2>3 DEF ConfigAdmins, CountsAsAdmin
  <2>8. SeenAnother(c)'
    BY <2>2, NewUserRow DEF SeenAnother, IdleClerk
  <2>5. CASE r.op \in Revokes /\ CountsAsAdmin(r.u)
    <3>1. OtherAdmins(r.u) # {}
      BY <2>1, <2>5 DEF SeenAnother, ProtectsLastAdmin
    <3> QED BY <1>0, <2>2, <2>4, <2>8, <3>1, OneRequest DEF OtherAdmins
  <2>6. CASE ~CountsAsAdmin(r.u)
    <3>1. r.u \notin ConfigAdmins /\ ConfigAdmins # {}
      BY <2>6 DEF ConfigAdmins, AdminInv
    <3> QED BY <1>0, <2>2, <2>4, <2>8, <3>1, OneRequest
  <2>7. CASE r.op \in Assigns
    <3>1. company \subseteq company' /\ role \subseteq role'
      BY <1>7, <2>7 DEF SaveAssignment, Assigns
    <3>2. ConfigAdmins \subseteq ConfigAdmins'
      BY <2>2, <3>1 DEF ConfigAdmins, CountsAsAdmin
    <3> QED BY <1>0, <2>2, <2>8, <3>2, OneRequest DEF AdminInv
  <2> QED BY <2>1, <2>5, <2>6, <2>7
<1> QED BY <1>1, <1>2, <1>3, <1>4, <1>5, <1>6, <1>7

LEMMA SignInKeepsAdmins ==
    ASSUME IInv, OneRequestAtATime, AdminInv, UNCHANGED mix, NEW b \in mix.browsers, SignIn(b)
    PROVE  AdminInv'
<1> b \in Browser /\ mix.users \subseteq User /\ login \in [Browser -> LoginRow] /\ NoLocks
  BY UsersAssumption DEF IInv, UsersTypeOK, AdminInv
<1>1. ASSUME NEW u \in mix.users, ValidateForLogin(b, u) PROVE AdminInv'
  <2>1. UNCHANGED <<users, company, role, clerk>> /\ NoLocks'
    BY <1>1 DEF ValidateForLogin, accounts, NoLocks
  <2>2. login' = [login EXCEPT ![b] = [IdleLogin EXCEPT !.pc = "compare", !.u = u]]
    BY <1>1 DEF ValidateForLogin, SetLogin, NoLocks
  <2>3. \A d \in Browser : ~Unlocking(login'[d].pc)
    BY <2>2 DEF IdleLogin, AdminInv, Unlocking
  <2> QED BY <2>1, <2>3, RequestsUnchanged
<1>2. CASE RegisterSuccess(b)
  <2> DEFINE u == login[b].u
  <2>1. u \in User
    BY <1>2 DEF RegisterSuccess, IInv, UsersTypeOK
  <2>2. users' = [users EXCEPT ![u] = [users[u] EXCEPT !.failedAttempts = 0, !.lockedUntil = NoLock]]
        /\ UNCHANGED <<company, role, clerk>>
    BY <1>2, <2>1 DEF RegisterSuccess, IInv, UsersTypeOK
  <2>3. \A v \in User : users'[v].estado = users[v].estado
    BY <2>1, <2>2, ResetRow DEF IInv, UsersTypeOK
  <2>4. NoLocks'
    BY <2>1, <2>2, ResetRow DEF IInv, UsersTypeOK, NoLocks
  <2>5. \A d \in Browser : ~Unlocking(login'[d].pc)
    BY <1>2 DEF RegisterSuccess, LoginAt, SetLogin, AdminInv, LoginRow, Unlocking
  <2> QED BY <2>2, <2>3, <2>4, <2>5, RequestsUnchanged
<1> QED BY <1>1, <1>2
        DEF SignIn, FindFailing, ReloadLogin, SaveLogin, OneRequestAtATime, AdminInv, Unlocking

LEMMA NextKeepsAdmins == AdminIInv /\ [Next]_vars => AdminIInv'
<1> SUFFICES ASSUME IInv, OneRequestAtATime, AdminInv, [Next]_vars PROVE AdminInv'
  BY NextInductive DEF AdminIInv, OneRequestAtATime, Next, vars
<1> UNCHANGED mix
  BY DEF Next, vars
<1>0. ASSUME UNCHANGED usersVars PROVE AdminInv'
  BY <1>0, RequestsUnchanged DEF usersVars, AdminInv, NoLocks
<1>1. CASE UNCHANGED vars
  BY <1>1, <1>0 DEF vars
<1>2. CASE Next
  <2> mix.browsers \subseteq Browser /\ mix.calls \subseteq Call
    BY UsersAssumption, SessionsAssumption DEF IInv
  <2>1. ASSUME NEW b \in mix.browsers, IssueSession(b) PROVE AdminInv'
    BY <2>1, RequestsUnchanged DEF IssueSession, SetLogin, IdleLogin, accounts, AdminInv,
       IInv, UsersTypeOK, NoLocks, Unlocking
  <2>2. ASSUME NEW b \in mix.browsers, ExpireAccess(b) PROVE AdminInv'
    BY <2>2, <1>0 DEF ExpireAccess
  <2>3. ASSUME ApiDies PROVE AdminInv'
    <3>1. ConfigAdmins' # {}
      BY <2>3, SameAdmins DEF ApiDies, accounts, AdminInv
    <3> QED BY <2>3, <3>1, NewUserRow
            DEF ApiDies, AdminInv, SeenAnother, IdleClerk, IdleLogin, NoLocks, Unlocking, accounts
  <2>4. ASSUME NEW b \in mix.browsers, NEW k \in mix.calls,
               Denied(b, k) \/ Restore(b, k) \/ SignOut(b, k) \/ CallStep(b, k)
        PROVE  AdminInv'
    BY <2>4, SessionsKeepAccounts, <1>0
  <2>5. ASSUME NEW s \in Session, ExpireSession(s) PROVE AdminInv'
    BY <2>5, <1>0 DEF ExpireSession
  <2> QED BY <1>2, <2>1, <2>2, <2>3, <2>4, <2>5, AdministrationKeepsAdmins, SignInKeepsAdmins DEF Next
<1> QED BY <1>1, <1>2

\* For any number of accounts: one administrative request at a time never removes the last
\* administrator of the configuration, whoever signs in between its read and its save
\* (assertCanRestrictUser, assertUserCanBeMutated).
THEOREM AdminRemains == Spec => []AnAdminRemains
<1>1. Init => AdminIInv
  BY InitInductive, InitAdmins DEF AdminIInv
<1>2. AdminIInv => AnAdminRemains
  BY DEF AdminIInv, AdminInv, AnAdminRemains, OneRequestAtATime
<1> QED BY <1>1, <1>2, NextKeepsAdmins, PTL DEF Spec
----------------------------------------------------------------------------
(* The rows of the sessions and of the calls *)

BrowserRow == [cookie : Session \cup {NoSession}, access : {"none", "fresh", "expired"},
               page : {"login", "app", "out"}]

CallRow == [client : {"idle", "denied", "waiting", "retry", "refused", "leaving", "signingOut"},
            server : {"none", "find", "rotate", "refuse", "persist", "answer"},
            sent : Session \cup {NoSession}, new : Session \cup {NoSession},
            out : {"none", "sent", "refused", "cleared"}, leaves : Session \cup {NoSession},
            restores : BOOLEAN]

\* Which of its fields a call has set where it is.
Shaped(c) ==
    /\ (c.server # "none") = (c.sent \in Session)
    /\ (c.new # NoSession) = (c.server \in {"persist", "answer"})
    /\ c.client \in {"denied", "retry"} => c.server = "none"
    /\ (c.out = "none") = (c.client \notin {"leaving", "signingOut"})

SessTypes ==
    /\ sessions \in [Session -> SessionRow]
    /\ browser \in [Browser -> BrowserRow]
    /\ calls \in [Browser -> [Call -> CallRow]]
    /\ \A b \in Browser, k \in Call : Shaped(calls[b][k])

\* A call of this browser needs a row to rotate to.
Needs(c) == c.client = "denied" \/ c.server \in {"find", "rotate"}

\* The sessions that a browser or the calls of its page know of.
Knows(b, s) ==
    \/ browser[b].cookie = s
    \/ \E k \in Call : s \in {calls[b][k].sent, calls[b][k].new, calls[b][k].leaves}

LEMMA SessionNumbers == NoSession \notin Session /\ Session \subseteq Int /\ IsFiniteSet(Session)
BY SessionsAssumption, FS_Interval DEF Session, NoSession

LEMMA CallSet ==
    ASSUME SessTypes, NEW b \in Browser, NEW k \in Call, NEW r \in CallRow, SetCall(b, k, r)
    PROVE  /\ calls' \in [Browser -> [Call -> CallRow]]
           /\ calls'[b][k] = r /\ \A j \in Call \ {k} : calls'[b][j] = calls[b][j]
           /\ \A d \in Browser \ {b} : calls'[d] = calls[d]
BY DEF SessTypes, SetCall

LEMMA IdleCallRow == IdleCall \in CallRow /\ Shaped(IdleCall)
BY SessionNumbers DEF IdleCall, CallRow, Shaped

LEMMA DroppedRow ==
    ASSUME NEW c \in CallRow, Shaped(c)
    PROVE  /\ Dropped(c) \in CallRow /\ Shaped(Dropped(c))
           /\ Dropped(c).client = "idle" /\ Dropped(c).server = c.server
           /\ Dropped(c).sent = c.sent /\ Dropped(c).new = c.new
           /\ Dropped(c).leaves = NoSession /\ ~Dropped(c).restores
BY DEF Dropped, CallRow, Shaped

LEMMA LeavingRow ==
    ASSUME SessTypes, NEW b \in Browser, NEW c \in CallRow, Shaped(c),
           NEW client \in {"leaving", "signingOut"}
    PROVE  /\ Leaving(b, c, client) \in CallRow /\ Shaped(Leaving(b, c, client))
           /\ Leaving(b, c, client).client = client /\ Leaving(b, c, client).server = c.server
           /\ Leaving(b, c, client).sent = c.sent /\ Leaving(b, c, client).new = c.new
           /\ Leaving(b, c, client).leaves = browser[b].cookie
           /\ Leaving(b, c, client).restores = c.restores
BY DEF SessTypes, BrowserRow, Leaving, CallRow, Shaped

LEMMA TypesSetCall ==
    ASSUME SessTypes, NEW b \in Browser, NEW k \in Call, NEW r \in CallRow, Shaped(r),
           SetCall(b, k, r), sessions' \in [Session -> SessionRow],
           browser' \in [Browser -> BrowserRow]
    PROVE  SessTypes'
<1>1. /\ calls' \in [Browser -> [Call -> CallRow]]
      /\ calls'[b][k] = r /\ \A j \in Call \ {k} : calls'[b][j] = calls[b][j]
      /\ \A d \in Browser \ {b} : calls'[d] = calls[d]
  BY CallSet
<1>2. \A d \in Browser, j \in Call : Shaped(calls'[d][j])
  BY <1>1 DEF SessTypes
<1> QED BY <1>1, <1>2 DEF SessTypes

\* What a step makes of a call that it does not give a new row.
Moves(b, c, x) ==
    /\ x.sent \in {c.sent, browser[b].cookie, NoSession}
    /\ x.new \in {c.new, NoSession}
    /\ x.leaves \in {c.leaves, browser[b].cookie, NoSession}

\* The cookies stay, are cleared, or come from the answer to a call.
CookieMoves(b, cookie) ==
    \/ cookie \in {browser[b].cookie, NoSession}
    \/ \E k \in Call : cookie = calls[b][k].new /\ calls[b][k].new # NoSession
                       /\ calls'[b][k].new = NoSession

\* A chain of rotations starts with a row that there is.
Rooted == \A s \in Session : sessions[s].state # "free" =>
              sessions[s].root \in Session /\ sessions[sessions[s].root].state # "free"

Known == \A b \in Browser, s \in Session : Knows(b, s) => sessions[s].state # "free"

\* The browsers' sessions are of different chains.
Apart == \A b, d \in Browser, s, t \in Session :
             b # d /\ Knows(b, s) /\ Knows(d, t) => sessions[s].root # sessions[t].root

\* Only the call that rotates knows of the new row, until the cookies are set.
OwnsNew(b, k) ==
    LET c == calls[b][k] IN
    /\ c.server = "persist" => sessions[c.new].state = "named"
    /\ c.server = "answer" => sessions[c.new].state \in {"live", "expired"}
    /\ c.new # NoSession =>
         /\ browser[b].cookie # c.new
         /\ \A j \in Call : /\ calls[b][j].sent # c.new /\ calls[b][j].leaves # c.new
                            /\ j # k => calls[b][j].new # c.new

Rows == Rooted /\ Known /\ Apart /\ \A b \in Browser, k \in Call : OwnsNew(b, k)

\* The chains stay apart when one browser learns of nothing but rows that were free.
LEMMA ChainsGrow ==
    ASSUME SessTypes, Rows, NEW b \in Browser,
           \A d \in Browser \ {b} : calls'[d] = calls[d] /\ browser'[d] = browser[d],
           \A s \in Session : Knows(b, s)' => Knows(b, s) \/ (sessions[s].state = "free" /\ sessions'[s].state # "free"),
           \A s \in Session : sessions[s].state # "free" =>
               sessions'[s].state # "free" /\ sessions'[s].root = sessions[s].root,
           \A s \in Session : sessions[s].state = "free" /\ sessions'[s].state # "free" =>
               sessions'[s].root = s \/ \E t \in Session : Knows(b, t) /\ sessions'[s].root = sessions[t].root
    PROVE  Rooted' /\ Known' /\ Apart'
<1>1. \A d \in Browser \ {b}, s \in Session : Knows(d, s)' => Knows(d, s)
  BY DEF Knows
<1>2. Rooted'
  <2> SUFFICES ASSUME NEW s \in Session, sessions'[s].state # "free"
               PROVE  sessions'[s].root \in Session /\ sessions'[sessions'[s].root].state # "free"
    BY DEF Rooted
  <2>1. CASE sessions[s].state # "free"
    BY <2>1 DEF Rows, Rooted
  <2>2. CASE sessions[s].state = "free"
    <3>1. CASE sessions'[s].root = s
      BY <3>1
    <3>2. ASSUME NEW t \in Session, Knows(b, t), sessions'[s].root = sessions[t].root PROVE sessions'[s].root \in Session /\ sessions'[sessions'[s].root].state # "free"
      BY <3>2 DEF Rows, Rooted, Known
    <3> QED BY <2>2, <3>1, <3>2
  <2> QED BY <2>1, <2>2
<1>3. \A d \in Browser, s \in Session : Knows(d, s)' => sessions'[s].state # "free"
  BY <1>1 DEF Rows, Known
<1>4. ASSUME NEW d \in Browser \ {b}, NEW s \in Session, NEW t \in Session, Knows(b, s)', Knows(d, t)'
      PROVE  sessions'[s].root # sessions'[t].root
  <2>1. Knows(d, t) /\ sessions[t].state # "free" /\ sessions'[t].root = sessions[t].root
    BY <1>1, <1>4 DEF Rows, Known
  <2>2. sessions[sessions[t].root].state # "free"
    BY <2>1 DEF Rows, Rooted
  <2>3. CASE Knows(b, s)
    BY <2>1, <2>3 DEF Rows, Apart, Known
  <2>4. CASE sessions[s].state = "free" /\ sessions'[s].state # "free"
    BY <2>1, <2>2, <2>4 DEF Rows, Apart
  <2> QED BY <1>4, <2>3, <2>4
<1>5. ASSUME NEW c \in Browser \ {b}, NEW d \in Browser \ {b}, c # d,
             NEW s \in Session, NEW t \in Session, Knows(c, s)', Knows(d, t)'
      PROVE  sessions'[s].root # sessions'[t].root
  BY <1>1, <1>5 DEF Rows, Apart, Known
<1>6. Apart'
  BY <1>4, <1>5 DEF Apart
<1> QED BY <1>2, <1>3, <1>6 DEF Known

\* The other browsers' calls keep the rows that they are writing.
LEMMA OthersOwn ==
    ASSUME SessTypes, Rows, NEW b \in Browser,
           \A d \in Browser \ {b} : calls'[d] = calls[d] /\ browser'[d] = browser[d],
           \A s \in Session : sessions'[s] # sessions[s] => Knows(b, s) \/ sessions[s].state = "free"
    PROVE  \A d \in Browser \ {b}, k \in Call : OwnsNew(d, k)'
<1> SUFFICES ASSUME NEW d \in Browser \ {b}, NEW k \in Call PROVE OwnsNew(d, k)'
  OBVIOUS
<1> DEFINE n == calls[d][k].new
<1>1. n \in Session => sessions'[n] = sessions[n]
  <2> SUFFICES ASSUME n \in Session PROVE ~Knows(b, n) /\ sessions[n].state # "free"
    OBVIOUS
  <2>1. Knows(d, n)
    BY DEF Knows
  <2> QED BY <2>1 DEF Rows, Known, Apart
<1>2. n \in Session \cup {NoSession} /\ Shaped(calls[d][k])
  BY DEF SessTypes, CallRow
<1>3. OwnsNew(d, k)
  BY DEF Rows
<1> QED BY <1>1, <1>2, <1>3 DEF OwnsNew, Shaped

LEMMA RowsMove ==
    ASSUME SessTypes, SessTypes', Rows, NEW b \in Browser,
           \A d \in Browser \ {b} : calls'[d] = calls[d] /\ browser'[d] = browser[d],
           \A j \in Call : Moves(b, calls[b][j], calls'[b][j]),
           CookieMoves(b, browser'[b].cookie),
           \A s \in Session : /\ sessions'[s].root = sessions[s].root
                              /\ (sessions'[s].state = "free") = (sessions[s].state = "free")
                              /\ sessions'[s] # sessions[s] => Knows(b, s),
           \A j \in Call : /\ calls'[b][j].server = "persist" => sessions'[calls'[b][j].new].state = "named"
                           /\ calls'[b][j].server = "answer" => sessions'[calls'[b][j].new].state \in {"live", "expired"}
    PROVE  Rows'
<1>1. ASSUME NEW s \in Session, Knows(b, s)' PROVE Knows(b, s)
  <2>1. s # NoSession
    BY SessionNumbers
  <2>2. CASE browser'[b].cookie = s
    BY <2>1, <2>2 DEF CookieMoves, Knows
  <2>3. ASSUME NEW k \in Call, s \in {calls'[b][k].sent, calls'[b][k].new, calls'[b][k].leaves} PROVE Knows(b, s)
    BY <2>1, <2>3 DEF Moves, Knows
  <2> QED BY <1>1, <2>2, <2>3 DEF Knows
<1>2. Rooted' /\ Known' /\ Apart'
  <2>1. /\ \A s \in Session : Knows(b, s)' => Knows(b, s) \/ (sessions[s].state = "free" /\ sessions'[s].state # "free")
        /\ \A s \in Session : sessions[s].state # "free" =>
               sessions'[s].state # "free" /\ sessions'[s].root = sessions[s].root
        /\ \A s \in Session : sessions[s].state = "free" /\ sessions'[s].state # "free" =>
               sessions'[s].root = s \/ \E t \in Session : Knows(b, t) /\ sessions'[s].root = sessions[t].root
    BY <1>1
  <2> QED BY <2>1, ChainsGrow
<1>3. \A d \in Browser \ {b}, k \in Call : OwnsNew(d, k)'
  BY OthersOwn
<1>4. ASSUME NEW k \in Call PROVE OwnsNew(b, k)'
  <2> DEFINE n == calls'[b][k].new
  <2> SUFFICES ASSUME n # NoSession
               PROVE  /\ browser'[b].cookie # n
                      /\ \A j \in Call : /\ calls'[b][j].sent # n /\ calls'[b][j].leaves # n
                                         /\ j # k => calls'[b][j].new # n
    BY DEF OwnsNew
  <2>1. n = calls[b][k].new
    BY DEF Moves
  <2>2. /\ browser[b].cookie # n
        /\ \A j \in Call : /\ calls[b][j].sent # n /\ calls[b][j].leaves # n
                           /\ j # k => calls[b][j].new # n
    BY <2>1 DEF Rows, OwnsNew
  <2>3. browser'[b].cookie # n
    BY <2>2 DEF CookieMoves
  <2> QED BY <2>2, <2>3 DEF Moves
<1> QED BY <1>2, <1>3, <1>4 DEF Rows
----------------------------------------------------------------------------
(* What each step makes of its call *)

KeepsServer(c, x) == x.server = c.server /\ x.sent = c.sent /\ x.new = c.new
KeepsClient(c, x) == x.client = c.client /\ x.out = c.out /\ x.leaves = c.leaves /\ x.restores = c.restores

\* The call's new row; the rest of the step is in the facts about its fields.
Becomes(b, k, x) == x \in CallRow /\ Shaped(x) /\ SetCall(b, k, x)

LEMMA DeniedRow ==
    ASSUME SessTypes, NEW b \in Browser, NEW k \in Call, Denied(b, k)
    PROVE  \E x : /\ Becomes(b, k, x) /\ KeepsServer(calls[b][k], x)
                  /\ x.client = "denied" /\ x.leaves = calls[b][k].leaves
                  /\ x.restores = calls[b][k].restores
<1> DEFINE c == calls[b][k]  x == [c EXCEPT !.client = "denied"]
<1>1. c \in CallRow /\ Shaped(c)
  BY DEF SessTypes
<1>2. x \in CallRow /\ Shaped(x) /\ KeepsServer(c, x) /\ x.client = "denied" /\ x.leaves = c.leaves
      /\ x.restores = c.restores
  BY <1>1 DEF Denied, CallRow, Shaped, KeepsServer
<1>3. SetCall(b, k, x)
  BY DEF Denied
<1> HIDE DEF x
<1> QED BY <1>2, <1>3 DEF Becomes

LEMMA SendRefreshRow ==
    ASSUME SessTypes, NEW b \in Browser, NEW k \in Call, SendRefresh(b, k)
    PROVE  \E x : /\ Becomes(b, k, x)
                  /\ x.new = NoSession /\ x.leaves = calls[b][k].leaves
                  /\ x.restores = calls[b][k].restores
                  /\ \/ x.client = "refused" /\ x.server = "none" /\ x.sent = calls[b][k].sent
                     \/ x.client = "waiting" /\ x.server = "find" /\ x.sent = browser[b].cookie
<1> DEFINE c == calls[b][k]
<1>1. c \in CallRow /\ Shaped(c) /\ c.client = "denied" /\ browser[b] \in BrowserRow
  BY DEF SessTypes, SendRefresh
<1>2. CASE SetCall(b, k, [c EXCEPT !.client = "refused"])
  <2> DEFINE x == [c EXCEPT !.client = "refused"]
  <2>1. x \in CallRow /\ Shaped(x) /\ x.new = NoSession /\ x.leaves = c.leaves /\ x.restores = c.restores
        /\ x.client = "refused" /\ x.server = "none" /\ x.sent = c.sent
    BY <1>1 DEF CallRow, Shaped
  <2>2. SetCall(b, k, x)
    BY <1>2
  <2> HIDE DEF x
  <2> QED BY <2>1, <2>2 DEF Becomes
<1>3. CASE /\ browser[b].cookie # NoSession
           /\ SetCall(b, k, [c EXCEPT !.client = "waiting", !.server = "find", !.sent = browser[b].cookie])
  <2> DEFINE x == [c EXCEPT !.client = "waiting", !.server = "find", !.sent = browser[b].cookie]
  <2>1. browser[b].cookie \in Session
    BY <1>1, <1>3 DEF BrowserRow
  <2>2. x \in CallRow /\ x.new = c.new /\ x.leaves = c.leaves /\ x.restores = c.restores
        /\ x.client = "waiting" /\ x.server = "find" /\ x.sent = browser[b].cookie /\ x.out = c.out
    BY <1>1, <2>1 DEF CallRow
  <2>3. SetCall(b, k, x)
    BY <1>3
  <2> HIDE DEF x
  <2>4. x.new = NoSession /\ Shaped(x)
    BY <1>1, <2>1, <2>2 DEF Shaped
  <2> QED BY <2>2, <2>3, <2>4 DEF Becomes
<1> QED BY <1>2, <1>3 DEF SendRefresh

LEMMA FindSessionRow ==
    ASSUME SessTypes, NEW b \in Browser, NEW k \in Call, FindSession(b, k)
    PROVE  \E x : /\ Becomes(b, k, x) /\ KeepsClient(calls[b][k], x)
                  /\ x.new = NoSession /\ x.sent = calls[b][k].sent
                  /\ x.server = IF Live(x.sent) THEN "rotate" ELSE "refuse"
<1> DEFINE c == calls[b][k]  server == IF Live(c.sent) THEN "rotate" ELSE "refuse"
           x == [c EXCEPT !.server = server]
<1>1. c \in CallRow /\ Shaped(c) /\ server \in {"rotate", "refuse"} /\ c.server = "find"
  BY DEF SessTypes, FindSession
<1>2. SetCall(b, k, x)
  BY DEF FindSession
<1> HIDE DEF server
<1>3. x \in CallRow /\ Shaped(x) /\ KeepsClient(c, x) /\ x.new = NoSession /\ x.sent = c.sent /\ x.server = server
  BY <1>1 DEF CallRow, Shaped, KeepsClient
<1> HIDE DEF x
<1> QED BY <1>2, <1>3 DEF Becomes, server

\* Rotate and PersistSession move the server's side on.
LEMMA RotateRow ==
    ASSUME SessTypes, NEW b \in Browser, NEW k \in Call, Rotate(b, k), Min(Unused) \in Session
    PROVE  \E x : /\ Becomes(b, k, x) /\ KeepsClient(calls[b][k], x)
                  /\ x.new = Min(Unused) /\ x.sent = calls[b][k].sent /\ x.server = "persist"
<1> DEFINE c == calls[b][k]  n == Min(Unused)  x == [c EXCEPT !.server = "persist", !.new = n]
<1>1. c \in CallRow /\ Shaped(c) /\ c.server = "rotate"
  BY DEF SessTypes, Rotate
<1>2. SetCall(b, k, x) /\ n \in Session /\ n # NoSession
  BY SessionNumbers DEF Rotate
<1> HIDE DEF n
<1>3. x \in CallRow /\ Shaped(x) /\ KeepsClient(c, x) /\ x.new = n /\ x.sent = c.sent /\ x.server = "persist"
  BY <1>1, <1>2 DEF CallRow, Shaped, KeepsClient
<1> HIDE DEF x
<1> QED BY <1>2, <1>3 DEF Becomes, n

LEMMA PersistRow ==
    ASSUME SessTypes, NEW b \in Browser, NEW k \in Call, PersistSession(b, k)
    PROVE  \E x : /\ Becomes(b, k, x) /\ KeepsClient(calls[b][k], x)
                  /\ x.new = calls[b][k].new /\ x.sent = calls[b][k].sent /\ x.server = "answer"
<1> DEFINE c == calls[b][k]  x == [c EXCEPT !.server = "answer"]
<1>1. c \in CallRow /\ Shaped(c) /\ c.server = "persist"
  BY DEF SessTypes, PersistSession
<1>2. SetCall(b, k, x)
  BY DEF PersistSession
<1>3. x \in CallRow /\ Shaped(x) /\ KeepsClient(c, x) /\ x.new = c.new /\ x.sent = c.sent /\ x.server = "answer"
  BY <1>1 DEF CallRow, Shaped, KeepsClient
<1> HIDE DEF x
<1> QED BY <1>2, <1>3 DEF Becomes

LEMMA AnswerRow ==
    ASSUME SessTypes, NEW b \in Browser, NEW k \in Call, Answer(b, k)
    PROVE  \E x : /\ Becomes(b, k, x) /\ x.leaves = calls[b][k].leaves
                  /\ x.restores = calls[b][k].restores
                  /\ x.server = "none" /\ x.sent = NoSession /\ x.new = NoSession
                  /\ x.client = IF calls[b][k].client # "waiting" THEN calls[b][k].client
                                ELSE IF calls[b][k].server = "answer" THEN "retry" ELSE "refused"
<1> DEFINE c == calls[b][k]
           client == IF c.client # "waiting" THEN c.client
                     ELSE IF c.server = "answer" THEN "retry" ELSE "refused"
           x == [c EXCEPT !.server = "none", !.sent = NoSession, !.new = NoSession, !.client = client]
<1>1. c \in CallRow /\ Shaped(c) /\ c.server \in {"answer", "refuse"}
  BY DEF SessTypes, Answer
<1>2. SetCall(b, k, x)
  BY <1>1 DEF Answer, CallRow
<1>3. client = c.client \/ (c.client = "waiting" /\ client \in {"retry", "refused"})
  <2> HIDE DEF c, x
  <2> QED OBVIOUS
<1> HIDE DEF client
<1>4. x \in CallRow /\ x.leaves = c.leaves /\ x.restores = c.restores /\ x.out = c.out
      /\ x.server = "none" /\ x.sent = NoSession /\ x.new = NoSession /\ x.client = client
  BY <1>1, <1>3 DEF CallRow
<1> HIDE DEF x
<1>5. Shaped(x)
  BY <1>1, <1>3, <1>4, SessionNumbers DEF Shaped
<1> QED BY <1>2, <1>4, <1>5 DEF Becomes, client

LEMMA TimeoutRow ==
    ASSUME SessTypes, NEW b \in Browser, NEW k \in Call, Timeout(b, k)
    PROVE  \E x : /\ Becomes(b, k, x) /\ KeepsServer(calls[b][k], x)
                  /\ x.client = "refused" /\ x.leaves = calls[b][k].leaves
                  /\ x.restores = calls[b][k].restores
<1> DEFINE c == calls[b][k]  x == [c EXCEPT !.client = "refused"]
<1>1. c \in CallRow /\ Shaped(c) /\ c.client = "waiting"
  BY DEF SessTypes, Timeout, GivesUp
<1>2. x \in CallRow /\ Shaped(x) /\ KeepsServer(c, x) /\ x.client = "refused" /\ x.leaves = c.leaves
      /\ x.restores = c.restores
  BY <1>1 DEF CallRow, Shaped, KeepsServer
<1>3. SetCall(b, k, x)
  BY DEF Timeout
<1> HIDE DEF x
<1> QED BY <1>2, <1>3 DEF Becomes

LEMMA RetryRow ==
    ASSUME SessTypes, NEW b \in Browser, NEW k \in Call, Retry(b, k)
    PROVE  \E x : /\ Becomes(b, k, x) /\ KeepsServer(calls[b][k], x) /\ x.server = "none"
                  /\ x.leaves \in {calls[b][k].leaves, NoSession}
                  /\ \/ /\ browser[b].access = "fresh" /\ x.client = "idle" /\ ~x.restores
                        /\ browser' = IF calls[b][k].restores THEN [browser EXCEPT ![b].page = "app"] ELSE browser
                     \/ /\ browser[b].access # "fresh" /\ x.client = "refused"
                        /\ x.restores = calls[b][k].restores /\ UNCHANGED browser
<1> DEFINE c == calls[b][k]
<1>1. c \in CallRow /\ Shaped(c) /\ c.client = "retry"
  BY DEF SessTypes, Retry
<1>2. CASE browser[b].access = "fresh"
  <2>1. SetCall(b, k, Dropped(c)) /\ browser' = IF c.restores THEN [browser EXCEPT ![b].page = "app"] ELSE browser
    BY <1>2 DEF Retry
  <2> QED BY <1>1, <1>2, <2>1, DroppedRow DEF Becomes, KeepsServer, Shaped
<1>3. CASE browser[b].access # "fresh"
  <2> DEFINE x == [c EXCEPT !.client = "refused"]
  <2>1. x \in CallRow /\ Shaped(x) /\ KeepsServer(c, x) /\ x.server = "none" /\ x.leaves = c.leaves
        /\ x.client = "refused" /\ x.restores = c.restores
    BY <1>1 DEF CallRow, Shaped, KeepsServer
  <2>2. SetCall(b, k, x) /\ UNCHANGED browser
    BY <1>3 DEF Retry
  <2> HIDE DEF x
  <2> QED BY <1>3, <2>1, <2>2 DEF Becomes
<1> QED BY <1>2, <1>3

LEMMA GiveUpRow ==
    ASSUME SessTypes, NEW b \in Browser, NEW k \in Call, GiveUp(b, k)
    PROVE  \E x : /\ Becomes(b, k, x) /\ KeepsServer(calls[b][k], x)
                  /\ \/ /\ browser[b].page = "app" /\ x.client = "leaving"
                        /\ x.leaves = browser[b].cookie /\ x.restores = calls[b][k].restores
                     \/ /\ browser[b].page # "app" /\ x.client = "idle"
                        /\ x.leaves = NoSession /\ ~x.restores
<1> DEFINE c == calls[b][k]
<1>1. c \in CallRow /\ Shaped(c)
  BY DEF SessTypes
<1>2. CASE browser[b].page = "app"
  BY <1>1, <1>2, LeavingRow DEF GiveUp, Becomes, KeepsServer
<1>3. CASE browser[b].page # "app"
  BY <1>1, <1>3, DroppedRow DEF GiveUp, Becomes, KeepsServer
<1> QED BY <1>2, <1>3

LEMMA SignOutRow ==
    ASSUME SessTypes, NEW b \in Browser, NEW k \in Call, SignOut(b, k)
    PROVE  \E x : /\ Becomes(b, k, x) /\ KeepsServer(calls[b][k], x)
                  /\ x.client = "signingOut" /\ x.leaves = browser[b].cookie
                  /\ x.restores = calls[b][k].restores
<1> DEFINE c == calls[b][k]
<1>1. c \in CallRow /\ Shaped(c)
  BY DEF SessTypes
<1> QED BY <1>1, LeavingRow DEF SignOut, Becomes, KeepsServer

LEMMA RevokeRow ==
    ASSUME SessTypes, NEW b \in Browser, NEW k \in Call, RevokeSession(b, k)
    PROVE  \E x : /\ Becomes(b, k, x) /\ KeepsServer(calls[b][k], x)
                  /\ x.client = calls[b][k].client /\ x.leaves = calls[b][k].leaves
                  /\ x.restores = calls[b][k].restores
<1> DEFINE c == calls[b][k]  x == [c EXCEPT !.out = "cleared"]
<1>1. c \in CallRow /\ Shaped(c) /\ c.out = "sent"
  BY DEF SessTypes, RevokeSession
<1>2. x \in CallRow /\ Shaped(x) /\ KeepsServer(c, x) /\ x.client = c.client /\ x.leaves = c.leaves
      /\ x.restores = c.restores
  BY <1>1 DEF CallRow, Shaped, KeepsServer
<1>3. SetCall(b, k, x)
  BY DEF RevokeSession
<1> HIDE DEF x
<1> QED BY <1>2, <1>3 DEF Becomes
----------------------------------------------------------------------------
(* The rows stay in order *)

LEMMA CallKeepsRows ==
    ASSUME SessTypes, Rows, NEW b \in Browser, NEW k \in Call, NEW x, Becomes(b, k, x),
           Moves(b, calls[b][k], x),
           sessions' \in [Session -> SessionRow], browser' \in [Browser -> BrowserRow],
           \A d \in Browser \ {b} : browser'[d] = browser[d],
           browser'[b].cookie # browser[b].cookie =>
               browser'[b].cookie = calls[b][k].new /\ x.new = NoSession /\ calls[b][k].new # NoSession,
           \A s \in Session : /\ sessions'[s].root = sessions[s].root
                              /\ (sessions'[s].state = "free") = (sessions[s].state = "free")
                              /\ sessions'[s] # sessions[s] =>
                                    Knows(b, s) /\ \A j \in Call \ {k} : calls[b][j].new # s,
           x.server = "persist" => sessions'[x.new].state = "named",
           x.server = "answer" => sessions'[x.new].state \in {"live", "expired"}
    PROVE  SessTypes' /\ Rows'
<1>1. /\ calls'[b][k] = x /\ \A j \in Call \ {k} : calls'[b][j] = calls[b][j]
      /\ \A d \in Browser \ {b} : calls'[d] = calls[d]
  BY CallSet DEF Becomes
<1>2. SessTypes'
  BY TypesSetCall DEF Becomes
<1>3. \A j \in Call : Moves(b, calls[b][j], calls'[b][j])
  BY <1>1 DEF Moves
<1>4. CookieMoves(b, browser'[b].cookie)
  BY <1>1 DEF CookieMoves
<1>5. ASSUME NEW j \in Call \ {k}
      PROVE  /\ calls'[b][j].server = "persist" => sessions'[calls'[b][j].new].state = "named"
             /\ calls'[b][j].server = "answer" => sessions'[calls'[b][j].new].state \in {"live", "expired"}
  <2>1. OwnsNew(b, j) /\ Shaped(calls[b][j]) /\ calls[b][j] \in CallRow
    BY DEF Rows, SessTypes
  <2>2. calls[b][j].server \in {"persist", "answer"} => calls[b][j].new \in Session
    BY <2>1 DEF Shaped, CallRow
  <2> QED BY <1>1, <2>1, <2>2 DEF OwnsNew
<1>6. \A j \in Call : /\ calls'[b][j].server = "persist" => sessions'[calls'[b][j].new].state = "named"
                      /\ calls'[b][j].server = "answer" => sessions'[calls'[b][j].new].state \in {"live", "expired"}
  BY <1>1, <1>5
<1>7. Rows'
  BY <1>1, <1>2, <1>3, <1>4, <1>6, RowsMove
<1> QED BY <1>2, <1>7

\* A step of a call that touches neither the table nor the cookies.
LEMMA QuietCall ==
    ASSUME SessTypes, Rows, NEW b \in Browser, NEW k \in Call, NEW x, Becomes(b, k, x),
           Moves(b, calls[b][k], x), UNCHANGED <<sessions, browser>>,
           x.server \in {"persist", "answer"} => x.server = calls[b][k].server /\ x.new = calls[b][k].new
    PROVE  SessTypes' /\ Rows'
<1>1. OwnsNew(b, k)
  BY DEF Rows
<1>2. x.server = "persist" => sessions'[x.new].state = "named"
  BY <1>1 DEF OwnsNew
<1>3. x.server = "answer" => sessions'[x.new].state \in {"live", "expired"}
  BY <1>1 DEF OwnsNew
<1> QED BY <1>2, <1>3, CallKeepsRows DEF SessTypes

\* Steps of the page, and of the server up to the rotation.
QuietStep(b, k) ==
    \/ Denied(b, k) \/ SendRefresh(b, k) \/ FindSession(b, k) \/ Timeout(b, k) \/ GiveUp(b, k)
    \/ SignOut(b, k)

LEMMA QuietRows ==
    ASSUME SessTypes, Rows, NEW b \in Browser, NEW k \in Call, QuietStep(b, k)
    PROVE  SessTypes' /\ Rows'
<1>1. CASE Denied(b, k)
  <2> PICK x : Becomes(b, k, x) /\ KeepsServer(calls[b][k], x) /\ x.leaves = calls[b][k].leaves
    BY <1>1, DeniedRow
  <2>1. UNCHANGED <<sessions, browser>>
    BY <1>1 DEF Denied
  <2> QED BY <2>1, QuietCall DEF KeepsServer, Moves
<1>2. CASE SendRefresh(b, k)
  <2> PICK x : /\ Becomes(b, k, x) /\ x.new = NoSession /\ x.leaves = calls[b][k].leaves
               /\ x.server \in {"none", "find"} /\ x.sent \in {calls[b][k].sent, browser[b].cookie}
    BY <1>2, SendRefreshRow
  <2>1. UNCHANGED <<sessions, browser>>
    BY <1>2 DEF SendRefresh
  <2> QED BY <2>1, QuietCall DEF Moves
<1>3. CASE FindSession(b, k)
  <2> PICK x : /\ Becomes(b, k, x) /\ KeepsClient(calls[b][k], x)
               /\ x.new = NoSession /\ x.sent = calls[b][k].sent /\ x.server \in {"rotate", "refuse"}
    BY <1>3, FindSessionRow
  <2>1. UNCHANGED <<sessions, browser>>
    BY <1>3 DEF FindSession
  <2> QED BY <2>1, QuietCall DEF KeepsClient, Moves
<1>4. CASE Timeout(b, k)
  <2> PICK x : Becomes(b, k, x) /\ KeepsServer(calls[b][k], x) /\ x.leaves = calls[b][k].leaves
    BY <1>4, TimeoutRow
  <2>1. UNCHANGED <<sessions, browser>>
    BY <1>4 DEF Timeout
  <2> QED BY <2>1, QuietCall DEF KeepsServer, Moves
<1>5. CASE GiveUp(b, k)
  <2> PICK x : Becomes(b, k, x) /\ KeepsServer(calls[b][k], x) /\ x.leaves \in {browser[b].cookie, NoSession}
    BY <1>5, GiveUpRow
  <2>1. UNCHANGED <<sessions, browser>>
    BY <1>5 DEF GiveUp
  <2> QED BY <2>1, QuietCall DEF KeepsServer, Moves
<1>6. CASE SignOut(b, k)
  <2> PICK x : Becomes(b, k, x) /\ KeepsServer(calls[b][k], x) /\ x.leaves = browser[b].cookie
    BY <1>6, SignOutRow
  <2>1. UNCHANGED <<sessions, browser>>
    BY <1>6 DEF SignOut
  <2> QED BY <2>1, QuietCall DEF KeepsServer, Moves
<1> QED BY <1>1, <1>2, <1>3, <1>4, <1>5, <1>6 DEF QuietStep

LEMMA PersistRows ==
    ASSUME SessTypes, Rows, NEW b \in Browser, NEW k \in Call, PersistSession(b, k)
    PROVE  SessTypes' /\ Rows'
<1> DEFINE n == calls[b][k].new
<1> PICK x : /\ Becomes(b, k, x) /\ KeepsClient(calls[b][k], x)
             /\ x.new = calls[b][k].new /\ x.sent = calls[b][k].sent /\ x.server = "answer"
  BY PersistRow
<1>1. /\ n \in Session /\ Knows(b, n) /\ sessions[n].state = "named"
      /\ \A j \in Call \ {k} : calls[b][j].new # n
  <2>1. calls[b][k].server = "persist" /\ Shaped(calls[b][k]) /\ calls[b][k] \in CallRow /\ OwnsNew(b, k)
    BY DEF PersistSession, SessTypes, Rows
  <2> QED BY <2>1 DEF Shaped, CallRow, OwnsNew, Knows
<1>2. sessions' = [sessions EXCEPT ![n].state = "live"] /\ UNCHANGED browser
  BY DEF PersistSession
<1>3. /\ sessions' \in [Session -> SessionRow] /\ browser \in [Browser -> BrowserRow]
      /\ sessions'[n].state = "live"
      /\ \A s \in Session : /\ sessions'[s].root = sessions[s].root
                            /\ s # n => sessions'[s] = sessions[s]
  BY <1>1, <1>2 DEF SessTypes, SessionRow
<1>4. \A s \in Session : (sessions'[s].state = "free") = (sessions[s].state = "free")
  BY <1>1, <1>3
<1>5. Moves(b, calls[b][k], x)
  BY DEF Moves, KeepsClient
<1> QED BY <1>1, <1>2, <1>3, <1>4, <1>5, CallKeepsRows

LEMMA AnswerRows ==
    ASSUME SessTypes, Rows, NEW b \in Browser, NEW k \in Call, Answer(b, k)
    PROVE  SessTypes' /\ Rows'
<1> DEFINE c == calls[b][k]
<1> PICK x : /\ Becomes(b, k, x) /\ x.leaves = calls[b][k].leaves
             /\ x.server = "none" /\ x.sent = NoSession /\ x.new = NoSession
  BY AnswerRow
<1>1. c \in CallRow /\ Shaped(c) /\ browser \in [Browser -> BrowserRow] /\ UNCHANGED sessions
  BY DEF SessTypes, Answer
<1>2. /\ browser' \in [Browser -> BrowserRow] /\ \A d \in Browser \ {b} : browser'[d] = browser[d]
      /\ browser'[b].cookie # browser[b].cookie => browser'[b].cookie = c.new /\ c.new # NoSession
  <2>1. CASE c.client = "waiting" /\ c.server = "answer"
    <3>1. browser' = [browser EXCEPT ![b] = [browser[b] EXCEPT !.cookie = c.new, !.access = "fresh"]]
      BY <2>1 DEF Answer, NewCookies
    <3>2. c.new \in Session /\ c.new # NoSession
      BY <1>1, <2>1 DEF Shaped, CallRow
    <3> QED BY <1>1, <3>1, <3>2 DEF BrowserRow
  <2>2. CASE ~(c.client = "waiting" /\ c.server = "answer")
    <3>1. UNCHANGED browser
      BY <2>2 DEF Answer
    <3> QED BY <1>1, <3>1
  <2> QED BY <2>1, <2>2
<1>3. Moves(b, c, x)
  BY DEF Moves
<1> QED BY <1>1, <1>2, <1>3, CallKeepsRows DEF SessTypes

LEMMA RetryRows ==
    ASSUME SessTypes, Rows, NEW b \in Browser, NEW k \in Call, Retry(b, k)
    PROVE  SessTypes' /\ Rows'
<1> PICK x : /\ Becomes(b, k, x) /\ KeepsServer(calls[b][k], x) /\ x.server = "none"
             /\ x.leaves \in {calls[b][k].leaves, NoSession}
             /\ browser' = [browser EXCEPT ![b].page = "app"] \/ UNCHANGED browser
  BY RetryRow
<1>1. UNCHANGED sessions /\ browser \in [Browser -> BrowserRow]
  BY DEF Retry, SessTypes
<1>2. /\ browser' \in [Browser -> BrowserRow] /\ \A d \in Browser \ {b} : browser'[d] = browser[d]
      /\ browser'[b].cookie = browser[b].cookie
  BY <1>1 DEF BrowserRow
<1> QED BY <1>1, <1>2, CallKeepsRows DEF Moves, KeepsServer, SessTypes

LEMMA RevokeRows ==
    ASSUME SessTypes, Rows, NEW b \in Browser, NEW k \in Call, RevokeSession(b, k)
    PROVE  SessTypes' /\ Rows'
<1> DEFINE c == calls[b][k]  s == calls[b][k].leaves
<1> PICK x : Becomes(b, k, x) /\ KeepsServer(c, x) /\ x.leaves = c.leaves
  BY RevokeRow
<1>1. browser \in [Browser -> BrowserRow] /\ sessions \in [Session -> SessionRow] /\ UNCHANGED browser
  BY DEF SessTypes, RevokeSession
<1>2. OwnsNew(b, k) /\ Shaped(c) /\ c \in CallRow
  BY DEF Rows, SessTypes
<1>3. \A j \in Call : calls[b][j].new # NoSession => calls[b][j].new # s
  BY DEF Rows, OwnsNew
<1>4. /\ sessions' \in [Session -> SessionRow]
      /\ \A t \in Session : /\ sessions'[t].root = sessions[t].root
                            /\ (sessions'[t].state = "free") = (sessions[t].state = "free")
                            /\ sessions'[t] # sessions[t] => t = s
  <2>1. CASE Live(s)
    <3>1. s \in Session /\ sessions[s].state = "live" /\ sessions' = [sessions EXCEPT ![s].state = "revoked"]
      BY <2>1 DEF RevokeSession, Live
    <3> QED BY <1>1, <3>1 DEF SessionRow
  <2>2. CASE ~Live(s)
    BY <1>1, <2>2 DEF RevokeSession
  <2> QED BY <2>1, <2>2
<1>5. \A t \in Session : sessions'[t] # sessions[t] => Knows(b, t) /\ \A j \in Call \ {k} : calls[b][j].new # t
  BY <1>3, <1>4, SessionNumbers DEF Knows
<1>6. /\ x.server = "persist" => sessions'[x.new].state = "named"
      /\ x.server = "answer" => sessions'[x.new].state \in {"live", "expired"}
  BY <1>2, <1>3, <1>4 DEF OwnsNew, KeepsServer, Shaped, CallRow
<1>7. Moves(b, c, x)
  BY DEF Moves, KeepsServer
<1> QED BY <1>1, <1>4, <1>5, <1>6, <1>7, CallKeepsRows

LEMMA MinMember ==
    ASSUME NEW S \in SUBSET Nat, IsFiniteSet(S), S # {}
    PROVE  Min(S) \in S
<1> DEFINE Below(x) == {y \in S : y < x}
           T == {Below(x) : x \in S}
<1>1. IsWellFoundedOn(StrictSubsetOrdering(S), SUBSET S)
  BY FS_StrictSubsetOrderingWellFounded, FS_FiniteSubsetsOfFinite
<1>2. T \subseteq SUBSET S /\ T # {}
  OBVIOUS
<1>3. PICK t \in T : \A s \in T : <<s, t>> \notin StrictSubsetOrdering(S)
  <2> HIDE DEF T
  <2> QED BY <1>1, <1>2, WFMin
<1>4. PICK x \in S : t = Below(x)
  BY <1>3
<1>5. ASSUME NEW y \in S, ~(x <= y) PROVE FALSE
  <2>1. x \in Nat /\ y \in Nat /\ y < x
    BY <1>5
  <2>2. ASSUME NEW z \in S, z < y PROVE z < x
    BY <2>1, <2>2
  <2>3. y \in Below(x) /\ y \notin Below(y)
    BY <2>1
  <2>4. <<Below(y), t>> \in StrictSubsetOrdering(S)
    BY <1>4, <2>2, <2>3 DEF StrictSubsetOrdering
  <2> QED BY <1>3, <2>4
<1> QED BY <1>5 DEF Min

LEMMA NextRow ==
    ASSUME SessTypes, Unused # {}
    PROVE  Min(Unused) \in Session /\ sessions[Min(Unused)].state = "free"
<1>1. Unused \in SUBSET Nat /\ IsFiniteSet(Unused)
  BY SessionNumbers, SessionsAssumption, FS_Subset DEF Unused, Session
<1>2. Min(Unused) \in Unused
  BY <1>1, MinMember
<1> QED BY <1>2 DEF Unused

\* A session that comes of age stays what it was for everybody but the query.
LEMMA Aged ==
    ASSUME SessTypes, NEW s \in Session, ExpireSession(s)
    PROVE  /\ UNCHANGED <<usersVars, calls, browser>> /\ sessions' \in [Session -> SessionRow]
           /\ \A t \in Session :
                /\ sessions'[t].root = sessions[t].root
                /\ (sessions'[t].state = "free") = (sessions[t].state = "free")
                /\ (sessions'[t].state = "named") = (sessions[t].state = "named")
                /\ (sessions'[t].state \in {"live", "expired"}) = (sessions[t].state \in {"live", "expired"})
<1>1. /\ sessions \in [Session -> SessionRow] /\ sessions[s].state = "live"
      /\ sessions' = [sessions EXCEPT ![s] = [sessions[s] EXCEPT !.state = "expired"]]
      /\ UNCHANGED <<usersVars, calls, browser>>
  BY DEF ExpireSession, SessTypes, Live
<1> DEFINE row == [sessions[s] EXCEPT !.state = "expired"]
<1>2. row \in SessionRow /\ row.root = sessions[s].root /\ row.state = "expired"
  BY <1>1 DEF SessionRow
<1> HIDE DEF row
<1> QED BY <1>1, <1>2 DEF row

LEMMA AgeRows ==
    ASSUME SessTypes, Rows, NEW s \in Session, ExpireSession(s)
    PROVE  SessTypes' /\ Rows'
<1>1. SessTypes'
  BY Aged DEF SessTypes
<1>2. Rooted' /\ Known' /\ Apart'
  <2>1. \A b \in Browser, t \in Session : Knows(b, t)' = Knows(b, t)
    BY Aged DEF Knows
  <2>2. Rooted'
    BY Aged DEF Rows, Rooted
  <2> QED BY <2>1, <2>2, Aged DEF Rows, Known, Apart
<1>3. ASSUME NEW b \in Browser, NEW k \in Call PROVE OwnsNew(b, k)'
  <2>1. OwnsNew(b, k) /\ Shaped(calls[b][k]) /\ calls[b][k] \in CallRow
    BY DEF Rows, SessTypes
  <2>2. calls[b][k].server \in {"persist", "answer"} => calls[b][k].new \in Session
    BY <2>1 DEF Shaped, CallRow
  <2> QED BY <2>1, <2>2, Aged DEF OwnsNew
<1> QED BY <1>1, <1>2, <1>3 DEF Rows

LEMMA ExpireRows ==
    ASSUME SessTypes, Rows, NEW b \in Browser, ExpireAccess(b)
    PROVE  SessTypes' /\ Rows'
<1>1. /\ browser \in [Browser -> BrowserRow] /\ browser' = [browser EXCEPT ![b].access = "expired"]
      /\ UNCHANGED <<sessions, calls>>
  BY DEF SessTypes, ExpireAccess
<1>2. /\ browser' \in [Browser -> BrowserRow] /\ \A d \in Browser \ {b} : browser'[d] = browser[d]
      /\ browser'[b].cookie = browser[b].cookie
  BY <1>1 DEF BrowserRow
<1>3. SessTypes'
  BY <1>1, <1>2 DEF SessTypes
<1>4. \A j \in Call : OwnsNew(b, j) /\ Shaped(calls[b][j])
  BY DEF Rows, SessTypes
<1>5. \A j \in Call : Moves(b, calls[b][j], calls'[b][j])
  BY <1>1 DEF Moves
<1>6. CookieMoves(b, browser'[b].cookie)
  BY <1>2 DEF CookieMoves
<1>7. Rows'
  BY <1>1, <1>2, <1>3, <1>4, <1>5, <1>6, RowsMove DEF OwnsNew
<1> QED BY <1>3, <1>7

\* A page that ends, or is loaded anew: the server goes on with what it was asked.
LEMMA PageEndsRows ==
    ASSUME SessTypes, Rows, NEW b \in Browser,
           UNCHANGED sessions, browser' \in [Browser -> BrowserRow],
           \A d \in Browser \ {b} : browser'[d] = browser[d],
           browser'[b].cookie \in {browser[b].cookie, NoSession},
           NEW f \in [Call -> CallRow], calls' = [calls EXCEPT ![b] = f],
           \A j \in Call : /\ Shaped(f[j]) /\ KeepsServer(calls[b][j], f[j])
                           /\ f[j].leaves \in {calls[b][j].leaves, NoSession}
    PROVE  SessTypes' /\ Rows'
<1>1. SessTypes' /\ calls'[b] = f /\ \A d \in Browser \ {b} : calls'[d] = calls[d]
  BY DEF SessTypes
<1>2. \A j \in Call : OwnsNew(b, j)
  BY DEF Rows
<1>3. \A j \in Call : Moves(b, calls[b][j], calls'[b][j])
  BY <1>1 DEF Moves, KeepsServer
<1>4. \A j \in Call : /\ calls'[b][j].server = "persist" => sessions'[calls'[b][j].new].state = "named"
                      /\ calls'[b][j].server = "answer" => sessions'[calls'[b][j].new].state \in {"live", "expired"}
  BY <1>1, <1>2 DEF OwnsNew, KeepsServer
<1>5. CookieMoves(b, browser'[b].cookie)
  BY DEF CookieMoves
<1>6. Rows'
  BY <1>1, <1>3, <1>4, <1>5, RowsMove
<1> QED BY <1>1, <1>6

LEMMA RestoreCalls ==
    ASSUME SessTypes, NEW b \in Browser, NEW k \in Call, Restore(b, k)
    PROVE  \E f \in [Call -> CallRow] :
             /\ calls' = [calls EXCEPT ![b] = f]
             /\ \A j \in Call : /\ Shaped(f[j]) /\ KeepsServer(calls[b][j], f[j])
                                /\ f[j].leaves = NoSession
                                /\ j # k => f[j].client = "idle" /\ ~f[j].restores
             /\ f[k].client = "denied"
<1> DEFINE first == [IdleCall EXCEPT !.client = "denied", !.restores = TRUE]
           f == [j \in Call |-> IF j = k THEN first ELSE Dropped(calls[b][j])]
<1>1. \A j \in Call : calls[b][j] \in CallRow /\ Shaped(calls[b][j])
  BY DEF SessTypes
<1>2. first \in CallRow /\ Shaped(first) /\ KeepsServer(calls[b][k], first) /\ first.leaves = NoSession
      /\ first.client = "denied"
  BY <1>1, SessionNumbers DEF Restore, IdleCall, CallRow, Shaped, KeepsServer
<1> HIDE DEF first
<1>3. /\ f \in [Call -> CallRow] /\ f[k] = first
      /\ \A j \in Call : j # k => f[j] = Dropped(calls[b][j])
  BY <1>1, <1>2, DroppedRow
<1>4. calls' = [calls EXCEPT ![b] = f]
  BY DEF Restore, first
<1> HIDE DEF f
<1>5. \A j \in Call : /\ Shaped(f[j]) /\ KeepsServer(calls[b][j], f[j])
                      /\ f[j].leaves = NoSession
                      /\ j # k => f[j].client = "idle" /\ ~f[j].restores
  BY <1>1, <1>2, <1>3, DroppedRow DEF KeepsServer
<1> QED BY <1>2, <1>3, <1>4, <1>5

LEMMA LeftCalls ==
    ASSUME SessTypes, NEW b \in Browser, NEW k \in Call, Left(b, k)
    PROVE  \E f \in [Call -> CallRow] :
             /\ calls' = [calls EXCEPT ![b] = f]
             /\ \A j \in Call : /\ Shaped(f[j]) /\ KeepsServer(calls[b][j], f[j])
                                /\ f[j].leaves \in {calls[b][j].leaves, NoSession}
                                /\ \/ f[j] = calls[b][j]
                                   \/ f[j].client = "idle" /\ ~f[j].restores
             /\ f[k].client = "idle" /\ ~f[k].restores
<1> DEFINE f == [j \in Call |-> IF j = k \/ calls[b][k].client = "leaving" THEN Dropped(calls[b][j]) ELSE calls[b][j]]
<1>1. \A j \in Call : calls[b][j] \in CallRow /\ Shaped(calls[b][j])
  BY DEF SessTypes
<1>2. f \in [Call -> CallRow]
  BY <1>1, DroppedRow
<1>3. calls' = [calls EXCEPT ![b] = f]
  BY DEF Left
<1>4. f[k] = Dropped(calls[b][k]) /\ \A j \in Call : f[j] \in {calls[b][j], Dropped(calls[b][j])}
  OBVIOUS
<1> HIDE DEF f
<1>5. \A j \in Call : /\ Shaped(f[j]) /\ KeepsServer(calls[b][j], f[j])
                      /\ f[j].leaves \in {calls[b][j].leaves, NoSession}
                      /\ \/ f[j] = calls[b][j]
                         \/ f[j].client = "idle" /\ ~f[j].restores
  BY <1>1, <1>4, DroppedRow DEF KeepsServer
<1>6. f[k].client = "idle" /\ ~f[k].restores
  BY <1>1, <1>4, DroppedRow
<1> QED BY <1>2, <1>3, <1>5, <1>6

LEMMA RestoreRows ==
    ASSUME SessTypes, Rows, NEW b \in Browser, NEW k \in Call, Restore(b, k)
    PROVE  SessTypes' /\ Rows'
<1> PICK f \in [Call -> CallRow] :
        /\ calls' = [calls EXCEPT ![b] = f]
        /\ \A j \in Call : /\ Shaped(f[j]) /\ KeepsServer(calls[b][j], f[j])
                           /\ f[j].leaves = NoSession
  BY RestoreCalls
<1>1. UNCHANGED <<sessions, browser>> /\ browser \in [Browser -> BrowserRow]
  BY DEF Restore, SessTypes
<1>2. /\ browser' \in [Browser -> BrowserRow] /\ \A d \in Browser \ {b} : browser'[d] = browser[d]
      /\ browser'[b].cookie \in {browser[b].cookie, NoSession}
  BY <1>1
<1>3. \A j \in Call : /\ Shaped(f[j]) /\ KeepsServer(calls[b][j], f[j])
                      /\ f[j].leaves \in {calls[b][j].leaves, NoSession}
  OBVIOUS
<1> QED BY <1>1, <1>2, <1>3, PageEndsRows

LEMMA LeftRows ==
    ASSUME SessTypes, Rows, NEW b \in Browser, NEW k \in Call, Left(b, k)
    PROVE  SessTypes' /\ Rows'
<1> PICK f \in [Call -> CallRow] :
        /\ calls' = [calls EXCEPT ![b] = f]
        /\ \A j \in Call : /\ Shaped(f[j]) /\ KeepsServer(calls[b][j], f[j])
                           /\ f[j].leaves \in {calls[b][j].leaves, NoSession}
  BY LeftCalls
<1>1. \/ browser' = [browser EXCEPT ![b] = [cookie |-> NoSession, access |-> "none", page |-> "out"]]
      \/ browser' = [browser EXCEPT ![b] = [browser[b] EXCEPT !.page = "out"]]
  BY DEF Left
<1>2. UNCHANGED sessions /\ browser \in [Browser -> BrowserRow]
  BY DEF Left, SessTypes
<1>3. /\ browser' \in [Browser -> BrowserRow] /\ \A d \in Browser \ {b} : browser'[d] = browser[d]
      /\ browser'[b].cookie \in {browser[b].cookie, NoSession}
  BY <1>1, <1>2 DEF BrowserRow
<1> QED BY <1>2, <1>3, PageEndsRows

LEMMA ApiDiesCalls ==
    ASSUME SessTypes, ApiDies
    PROVE  /\ calls' \in [Browser -> [Call -> CallRow]]
           /\ \A b \in Browser, k \in Call :
                LET c == calls[b][k]  x == calls'[b][k]
                IN /\ Shaped(x) /\ x.server = "none" /\ x.sent = NoSession /\ x.new = NoSession
                   /\ x.leaves = c.leaves /\ x.client = c.client /\ x.restores = c.restores
<1> DEFINE Dead(c) == [c EXCEPT !.server = "none", !.sent = NoSession, !.new = NoSession,
                               !.out = IF @ = "sent" THEN "refused" ELSE @]
<1>1. ASSUME NEW c \in CallRow, Shaped(c)
      PROVE  /\ Dead(c) \in CallRow /\ Shaped(Dead(c)) /\ Dead(c).server = "none" /\ Dead(c).sent = NoSession
             /\ Dead(c).new = NoSession
             /\ Dead(c).leaves = c.leaves /\ Dead(c).client = c.client /\ Dead(c).restores = c.restores
  <2> DEFINE out == IF c.out = "sent" THEN "refused" ELSE c.out
             x == [c EXCEPT !.server = "none", !.sent = NoSession, !.new = NoSession, !.out = out]
  <2>1. x = Dead(c)
    BY <1>1 DEF CallRow
  <2>2. out \in {"none", "refused", "cleared"} /\ (out = "none") = (c.out = "none")
    BY <1>1 DEF CallRow
  <2> HIDE DEF out
  <2>3. /\ x \in CallRow /\ x.server = "none" /\ x.sent = NoSession /\ x.new = NoSession
        /\ x.leaves = c.leaves /\ x.client = c.client /\ x.restores = c.restores /\ x.out = out
    BY <1>1, <2>2 DEF CallRow
  <2> HIDE DEF x
  <2>4. Shaped(x)
    BY <1>1, <2>2, <2>3, SessionNumbers DEF Shaped
  <2> QED BY <2>1, <2>3, <2>4
<1>2. calls' = [b \in Browser |-> [k \in Call |-> Dead(calls[b][k])]]
  BY DEF ApiDies
<1>3. \A b \in Browser, k \in Call : calls[b][k] \in CallRow /\ Shaped(calls[b][k])
  BY DEF SessTypes
<1> HIDE DEF Dead
<1>4. \A b \in Browser, k \in Call : calls'[b][k] = Dead(calls[b][k])
  BY <1>2
<1> QED BY <1>1, <1>2, <1>3, <1>4

LEMMA ApiDiesRows ==
    ASSUME SessTypes, Rows, ApiDies
    PROVE  SessTypes' /\ Rows'
<1>1. UNCHANGED <<sessions, browser>>
  BY DEF ApiDies
<1>2. SessTypes'
  BY <1>1, ApiDiesCalls DEF SessTypes
<1>3. ASSUME NEW b \in Browser, NEW s \in Session, Knows(b, s)' PROVE Knows(b, s)
  BY <1>1, <1>3, ApiDiesCalls, SessionNumbers DEF Knows
<1>4. Rooted' /\ Known' /\ Apart'
  BY <1>1, <1>3 DEF Rows, Rooted, Known, Apart
<1>5. \A b \in Browser, k \in Call : OwnsNew(b, k)'
  BY ApiDiesCalls DEF OwnsNew
<1> QED BY <1>2, <1>4, <1>5 DEF Rows

\* What a rotation leaves of the two rows it writes.
LEMMA RotateTable ==
    ASSUME SessTypes, Rows, NEW b \in Browser, NEW k \in Call, Rotate(b, k),
           NEW n \in Session, n = Min(Unused), sessions[n].state = "free"
    PROVE  LET s == calls[b][k].sent IN
           /\ s \in Session /\ s # n /\ Knows(b, s) /\ sessions[s].state # "free"
           /\ sessions' \in [Session -> SessionRow]
           /\ sessions'[s].state = "revoked" /\ sessions'[s].root = sessions[s].root
           /\ sessions'[n].state = "named" /\ sessions'[n].root = sessions[s].root
           /\ \A t \in Session : t # s /\ t # n => sessions'[t] = sessions[t]
<1> DEFINE s == calls[b][k].sent
<1>1. Shaped(calls[b][k]) /\ calls[b][k].server = "rotate" /\ sessions \in [Session -> SessionRow]
  BY DEF SessTypes, Rotate
<1>2. s \in Session /\ Knows(b, s)
  BY <1>1 DEF Shaped, Knows
<1>3. s # n /\ sessions[s].state # "free"
  BY <1>2 DEF Rows, Known
<1>4. sessions' = [sessions EXCEPT ![s].state = "revoked",
                                   ![n] = [state |-> "named", root |-> sessions[s].root]]
  BY DEF Rotate
<1>5. sessions[s].root \in Session \cup {NoSession}
  BY <1>1, <1>2 DEF SessionRow
<1> HIDE DEF s
<1> QED BY <1>1, <1>2, <1>3, <1>4, <1>5 DEF SessionRow, s

LEMMA RotateRows ==
    ASSUME SessTypes, Rows, NEW b \in Browser, NEW k \in Call, Rotate(b, k),
           NEW n \in Session, n = Min(Unused), sessions[n].state = "free"
    PROVE  SessTypes' /\ Rows'
<1> PICK x : /\ Becomes(b, k, x) /\ KeepsClient(calls[b][k], x)
             /\ x.new = n /\ x.sent = calls[b][k].sent /\ x.server = "persist"
  BY RotateRow
<1> PICK s \in Session :
        /\ s = calls[b][k].sent /\ s # n /\ Knows(b, s) /\ sessions[s].state # "free"
        /\ sessions' \in [Session -> SessionRow]
        /\ sessions'[s].state = "revoked" /\ sessions'[s].root = sessions[s].root
        /\ sessions'[n].state = "named" /\ sessions'[n].root = sessions[s].root
        /\ \A t \in Session : t # s /\ t # n => sessions'[t] = sessions[t]
  BY RotateTable
<1>1. UNCHANGED browser /\ browser \in [Browser -> BrowserRow]
  BY DEF Rotate, SessTypes
<1>2. SessTypes'
  BY <1>1, TypesSetCall DEF Becomes
<1>3. /\ calls'[b][k] = x /\ \A j \in Call \ {k} : calls'[b][j] = calls[b][j]
      /\ \A d \in Browser \ {b} : calls'[d] = calls[d] /\ browser'[d] = browser[d]
  BY <1>1, CallSet DEF Becomes
<1>4. ~Knows(b, n) /\ n # NoSession
  BY SessionNumbers DEF Rows, Known
<1>5. \A t \in Session : Knows(b, t)' => Knows(b, t) \/ t = n
  BY <1>1, <1>3, SessionNumbers DEF Knows, KeepsClient
<1>6. Rooted' /\ Known' /\ Apart'
  <2>1. \A t \in Session : Knows(b, t)' => Knows(b, t) \/ (sessions[t].state = "free" /\ sessions'[t].state # "free")
    BY <1>5
  <2>2. \A t \in Session : sessions[t].state # "free" =>
            sessions'[t].state # "free" /\ sessions'[t].root = sessions[t].root
    OBVIOUS
  <2>3. \A t \in Session : sessions[t].state = "free" /\ sessions'[t].state # "free" =>
            sessions'[t].root = t \/ \E u \in Session : Knows(b, u) /\ sessions'[t].root = sessions[u].root
    OBVIOUS
  <2> QED BY <1>3, <2>1, <2>2, <2>3, ChainsGrow
<1>7. \A d \in Browser \ {b}, j \in Call : OwnsNew(d, j)'
  <2>1. \A t \in Session : sessions'[t] # sessions[t] => Knows(b, t) \/ sessions[t].state = "free"
    OBVIOUS
  <2> QED BY <1>3, <2>1, OthersOwn
<1>8. OwnsNew(b, k)'
  <2>1. browser[b].cookie # n
    BY <1>4 DEF Knows
  <2>2. \A j \in Call : calls[b][j].sent # n /\ calls[b][j].leaves # n /\ calls[b][j].new # n
    BY <1>4 DEF Knows
  <2> QED BY <1>1, <1>3, <2>1, <2>2 DEF OwnsNew, KeepsClient
<1>9. ASSUME NEW j \in Call \ {k} PROVE OwnsNew(b, j)'
  <2> DEFINE m == calls[b][j].new
  <2>1. OwnsNew(b, j) /\ Shaped(calls[b][j]) /\ m \in Session \cup {NoSession} /\ calls'[b][j] = calls[b][j]
    BY <1>3 DEF Rows, SessTypes, CallRow
  <2>2. m # n
    BY <1>4 DEF Knows
  <2>3. m # NoSession => m # s /\ sessions'[m] = sessions[m]
    BY <2>1, <2>2 DEF OwnsNew
  <2>4. m # NoSession => \A i \in Call : /\ calls'[b][i].sent # m /\ calls'[b][i].leaves # m
                                         /\ i # j => calls'[b][i].new # m
    BY <1>3, <2>1, <2>2 DEF OwnsNew, KeepsClient
  <2> QED BY <1>1, <2>1, <2>3, <2>4 DEF OwnsNew, Shaped
<1> QED BY <1>2, <1>6, <1>7, <1>8, <1>9 DEF Rows

LEMMA IssueRows ==
    ASSUME SessTypes, Rows, NEW b \in Browser, IssueSession(b),
           NEW n \in Session, n = Min(Unused), sessions[n].state = "free"
    PROVE  /\ SessTypes' /\ Rows'
           /\ sessions' = [sessions EXCEPT ![n] = [state |-> "live", root |-> n]]
           /\ browser' = [browser EXCEPT ![b] = [cookie |-> n, access |-> "fresh", page |-> "app"]]
           /\ ~Knows(b, n)
<1>1. /\ sessions' = [sessions EXCEPT ![n] = [state |-> "live", root |-> n]]
      /\ browser' = [browser EXCEPT ![b] = [cookie |-> n, access |-> "fresh", page |-> "app"]]
      /\ UNCHANGED calls
  BY DEF IssueSession
<1>2. /\ sessions' \in [Session -> SessionRow] /\ browser' \in [Browser -> BrowserRow]
      /\ sessions'[n].state = "live" /\ sessions'[n].root = n
      /\ \A t \in Session : t # n => sessions'[t] = sessions[t]
      /\ browser'[b].cookie = n /\ \A d \in Browser \ {b} : browser'[d] = browser[d]
  BY <1>1 DEF SessTypes, SessionRow, BrowserRow
<1>3. SessTypes'
  BY <1>1, <1>2 DEF SessTypes
<1>4. ~Knows(b, n) /\ n # NoSession
  BY SessionNumbers DEF Rows, Known
<1>5. \A t \in Session : Knows(b, t)' => Knows(b, t) \/ t = n
  BY <1>1, <1>2 DEF Knows
<1>6. Rooted' /\ Known' /\ Apart'
  <2>1. \A t \in Session : Knows(b, t)' => Knows(b, t) \/ (sessions[t].state = "free" /\ sessions'[t].state # "free")
    BY <1>2, <1>5
  <2>2. \A t \in Session : sessions[t].state # "free" =>
            sessions'[t].state # "free" /\ sessions'[t].root = sessions[t].root
    BY <1>2
  <2>3. \A t \in Session : sessions[t].state = "free" /\ sessions'[t].state # "free" =>
            sessions'[t].root = t \/ \E u \in Session : Knows(b, u) /\ sessions'[t].root = sessions[u].root
    BY <1>2
  <2>4. \A d \in Browser \ {b} : calls'[d] = calls[d] /\ browser'[d] = browser[d]
    BY <1>1, <1>2
  <2> QED BY <2>1, <2>2, <2>3, <2>4, ChainsGrow
<1>7. \A d \in Browser \ {b}, j \in Call : OwnsNew(d, j)'
  <2>1. \A t \in Session : sessions'[t] # sessions[t] => Knows(b, t) \/ sessions[t].state = "free"
    BY <1>2
  <2> QED BY <1>1, <1>2, <2>1, OthersOwn
<1>8. ASSUME NEW j \in Call PROVE OwnsNew(b, j)'
  <2> DEFINE m == calls[b][j].new
  <2>1. OwnsNew(b, j) /\ Shaped(calls[b][j]) /\ m \in Session \cup {NoSession}
    BY DEF Rows, SessTypes, CallRow
  <2>2. m # n
    BY <1>4 DEF Knows
  <2>3. m # NoSession => sessions'[m] = sessions[m]
    BY <1>2, <2>1, <2>2
  <2> QED BY <1>1, <1>2, <2>1, <2>2, <2>3 DEF OwnsNew, Shaped
<1> QED BY <1>1, <1>3, <1>4, <1>6, <1>7, <1>8 DEF Rows
----------------------------------------------------------------------------
(* There is a row for each call that needs one *)

NeedSet == {bk \in Browser \X Call : Needs(calls[bk[1]][bk[2]])}

UnderWaySet == {bk \in Browser \X Call : UnderWay(calls[bk[1]][bk[2]])}

\* Whoever needs a row was let in only while there were more of them (Room).
Counted == Cardinality(NeedSet) <= Cardinality(Unused)

LEMMA Countable ==
    ASSUME SessTypes
    PROVE  /\ IsFiniteSet(Browser \X Call) /\ IsFiniteSet(NeedSet) /\ IsFiniteSet(UnderWaySet)
           /\ IsFiniteSet(Unused) /\ NeedSet \subseteq UnderWaySet
           /\ Cardinality(NeedSet) \in Nat /\ Cardinality(UnderWaySet) \in Nat
           /\ Cardinality(Unused) \in Nat /\ Cardinality(NeedSet) <= Cardinality(UnderWaySet)
<1>1. IsFiniteSet(Browser \X Call)
  BY UsersAssumption, SessionsAssumption, FS_Product
<1>2. NeedSet \subseteq Browser \X Call /\ UnderWaySet \subseteq Browser \X Call
  BY DEF NeedSet, UnderWaySet
<1>3. NeedSet \subseteq UnderWaySet
  BY DEF NeedSet, UnderWaySet, Needs, UnderWay
<1>4. IsFiniteSet(NeedSet) /\ IsFiniteSet(UnderWaySet)
  BY <1>1, <1>2, FS_Subset
<1>5. IsFiniteSet(Unused)
  BY SessionNumbers, FS_Subset DEF Unused
<1> QED BY <1>1, <1>3, <1>4, <1>5, FS_Subset, FS_CardinalityType

LEMMA NeedsFewer ==
    ASSUME SessTypes, SessTypes', Counted, Unused' = Unused, NeedSet' \subseteq NeedSet
    PROVE  Counted'
<1>1. IsFiniteSet(NeedSet) /\ Cardinality(NeedSet) \in Nat /\ Cardinality(Unused) \in Nat
  BY Countable
<1>2. Cardinality(NeedSet') \in Nat /\ Cardinality(NeedSet') <= Cardinality(NeedSet)
  BY <1>1, FS_Subset, FS_CardinalityType
<1> QED BY <1>1, <1>2 DEF Counted

LEMMA NeedsOneMore ==
    ASSUME SessTypes, SessTypes', Room, Unused' = Unused,
           NEW p \in Browser \X Call, NeedSet' \subseteq NeedSet \cup {p}
    PROVE  Counted'
<1>1. Cardinality(UnderWaySet) < Cardinality(Unused)
  BY DEF Room, UnderWaySet
<1>2. /\ IsFiniteSet(NeedSet) /\ Cardinality(NeedSet) \in Nat /\ Cardinality(Unused) \in Nat
      /\ Cardinality(UnderWaySet) \in Nat /\ Cardinality(NeedSet) <= Cardinality(UnderWaySet)
  BY Countable
<1>3. IsFiniteSet(NeedSet \cup {p}) /\ Cardinality(NeedSet \cup {p}) <= Cardinality(NeedSet) + 1
  <2>1. /\ IsFiniteSet(NeedSet \cup {p})
        /\ \/ Cardinality(NeedSet \cup {p}) = Cardinality(NeedSet)
           \/ Cardinality(NeedSet \cup {p}) = Cardinality(NeedSet) + 1
    BY <1>2, FS_AddElement, Zenon
  <2> QED BY <1>2, <2>1
<1>4. Cardinality(NeedSet') \in Nat /\ Cardinality(NeedSet') <= Cardinality(NeedSet) + 1
  BY <1>2, <1>3, FS_Subset, FS_CardinalityType
<1> QED BY <1>1, <1>2, <1>4 DEF Counted

LEMMA NeedsOfCall ==
    ASSUME SessTypes, NEW b \in Browser, NEW k \in Call, NEW x, Becomes(b, k, x)
    PROVE  /\ (Needs(x) => Needs(calls[b][k])) => NeedSet' \subseteq NeedSet
           /\ NeedSet' \subseteq NeedSet \cup {<<b, k>>}
           /\ ~Needs(x) => NeedSet' \subseteq NeedSet \ {<<b, k>>}
<1>1. /\ calls'[b][k] = x /\ \A j \in Call \ {k} : calls'[b][j] = calls[b][j]
      /\ \A d \in Browser \ {b} : calls'[d] = calls[d]
  BY CallSet DEF Becomes
<1>2. ASSUME NEW d \in Browser, NEW j \in Call, Needs(calls'[d][j]), <<d, j>> # <<b, k>>
      PROVE  Needs(calls[d][j])
  BY <1>1, <1>2
<1>3. NeedSet' = {bk \in Browser \X Call : Needs(calls'[bk[1]][bk[2]])}
  BY DEF NeedSet, Needs
<1>4. ASSUME NEW p \in NeedSet', p # <<b, k>> PROVE p \in NeedSet
  <2>1. p = <<p[1], p[2]>> /\ p[1] \in Browser /\ p[2] \in Call /\ Needs(calls'[p[1]][p[2]])
    BY <1>3
  <2>2. Needs(calls[p[1]][p[2]])
    BY <1>2, <1>4, <2>1
  <2> QED BY <2>1, <2>2 DEF NeedSet
<1>5. <<b, k>> \in NeedSet' => Needs(x)
  BY <1>1, <1>3
<1>6. Needs(calls[b][k]) => <<b, k>> \in NeedSet
  BY DEF NeedSet
<1> QED BY <1>4, <1>5, <1>6

LEMMA QuietCounted ==
    ASSUME SessTypes, SessTypes', Counted, NEW b \in Browser, NEW k \in Call, QuietStep(b, k)
    PROVE  Counted'
<1>1. UNCHANGED <<sessions, browser>>
  BY DEF QuietStep, Denied, SendRefresh, FindSession, Timeout, GiveUp, SignOut
<1>2. Unused' = Unused
  BY <1>1 DEF Unused
<1>3. CASE Denied(b, k)
  <2> PICK x : Becomes(b, k, x)
    BY <1>3, DeniedRow
  <2>1. Room
    BY <1>3 DEF Denied
  <2> QED BY <1>2, <2>1, NeedsOfCall, NeedsOneMore
<1>4. ASSUME NEW x, Becomes(b, k, x), Needs(x) => Needs(calls[b][k]) PROVE Counted'
  BY <1>2, <1>4, NeedsOfCall, NeedsFewer
<1>5. CASE SendRefresh(b, k)
  BY <1>4, <1>5, SendRefreshRow DEF SendRefresh, Needs
<1>6. CASE FindSession(b, k)
  BY <1>4, <1>6, FindSessionRow DEF FindSession, Needs
<1>7. CASE Timeout(b, k)
  BY <1>4, <1>7, TimeoutRow DEF Needs, KeepsServer
<1>8. CASE GiveUp(b, k)
  BY <1>4, <1>8, GiveUpRow DEF Needs, KeepsServer
<1>9. CASE SignOut(b, k)
  BY <1>4, <1>9, SignOutRow DEF Needs, KeepsServer
<1> QED BY <1>3, <1>5, <1>6, <1>7, <1>8, <1>9 DEF QuietStep

\* The steps that write the cookies, or the state of a row that there is.
BusyStep(b, k) == PersistSession(b, k) \/ Answer(b, k) \/ Retry(b, k) \/ RevokeSession(b, k)

LEMMA BusyRows ==
    ASSUME SessTypes, Rows, NEW b \in Browser, NEW k \in Call, BusyStep(b, k)
    PROVE  SessTypes' /\ Rows'
BY PersistRows, AnswerRows, RetryRows, RevokeRows DEF BusyStep

LEMMA BusyCounted ==
    ASSUME SessTypes, Rows, SessTypes', Counted, NEW b \in Browser, NEW k \in Call, BusyStep(b, k)
    PROVE  Counted'
<1>1. ASSUME Unused' = Unused, NEW x, Becomes(b, k, x), Needs(x) => Needs(calls[b][k]) PROVE Counted'
  BY <1>1, NeedsOfCall, NeedsFewer
<1>2. CASE PersistSession(b, k)
  <2> DEFINE n == calls[b][k].new
  <2>1. calls[b][k].server = "persist" /\ sessions' = [sessions EXCEPT ![n].state = "live"]
    BY <1>2 DEF PersistSession
  <2>2. sessions[n].state = "named"
    BY <2>1 DEF Rows, OwnsNew
  <2> HIDE DEF n
  <2>3. Unused' = Unused
    BY <2>1, <2>2 DEF Unused, SessTypes, SessionRow
  <2> QED BY <1>1, <1>2, <2>3, PersistRow DEF Needs, KeepsClient
<1>3. CASE Answer(b, k)
  <2>1. Unused' = Unused
    BY <1>3 DEF Answer, Unused
  <2> QED BY <1>1, <1>3, <2>1, AnswerRow DEF Needs
<1>4. CASE Retry(b, k)
  <2>1. Unused' = Unused
    BY <1>4 DEF Retry, Unused
  <2> QED BY <1>1, <1>4, <2>1, RetryRow DEF Needs
<1>5. CASE RevokeSession(b, k)
  <2> DEFINE s == calls[b][k].leaves
  <2>1. UNCHANGED sessions \/ (s \in Session /\ sessions[s].state = "live" /\ sessions' = [sessions EXCEPT ![s].state = "revoked"])
    BY <1>5 DEF RevokeSession, Live
  <2> HIDE DEF s
  <2>2. Unused' = Unused
    BY <2>1 DEF Unused, SessTypes, SessionRow
  <2> QED BY <1>1, <1>5, <2>2, RevokeRow DEF Needs, KeepsServer
<1> QED BY <1>2, <1>3, <1>4, <1>5 DEF BusyStep

LEMMA NeedsElsewhere ==
    ASSUME SessTypes, SessTypes', Counted, Unused' = Unused,
           \A d \in Browser, j \in Call : Needs(calls'[d][j]) => Needs(calls[d][j])
    PROVE  Counted'
<1>1. NeedSet' = {bk \in Browser \X Call : Needs(calls'[bk[1]][bk[2]])}
  BY DEF NeedSet, Needs
<1>2. NeedSet' \subseteq NeedSet
  BY <1>1 DEF NeedSet
<1> QED BY <1>2, NeedsFewer

LEMMA RestoreCounted ==
    ASSUME SessTypes, SessTypes', NEW b \in Browser, NEW k \in Call, Restore(b, k)
    PROVE  Counted'
<1> PICK f \in [Call -> CallRow] :
      /\ calls' = [calls EXCEPT ![b] = f]
      /\ \A j \in Call : /\ KeepsServer(calls[b][j], f[j])
                         /\ j # k => f[j].client = "idle"
  BY RestoreCalls
<1>1. \A d \in Browser, j \in Call : Needs(calls'[d][j]) => Needs(calls[d][j]) \/ <<d, j>> = <<b, k>>
  BY DEF Needs, KeepsServer, SessTypes
<1>2. NeedSet' = {bk \in Browser \X Call : Needs(calls'[bk[1]][bk[2]])}
  BY DEF NeedSet, Needs
<1>3. ASSUME NEW p \in NeedSet' PROVE p \in NeedSet \/ p = <<b, k>>
  <2>1. p = <<p[1], p[2]>> /\ p[1] \in Browser /\ p[2] \in Call /\ Needs(calls'[p[1]][p[2]])
    BY <1>2
  <2> QED BY <1>1, <2>1 DEF NeedSet
<1>4. Room /\ Unused' = Unused
  BY DEF Restore, Unused
<1> QED BY <1>3, <1>4, NeedsOneMore

LEMMA LeftCounted ==
    ASSUME SessTypes, SessTypes', Counted, NEW b \in Browser, NEW k \in Call, Left(b, k)
    PROVE  Counted'
<1> PICK f \in [Call -> CallRow] :
      /\ calls' = [calls EXCEPT ![b] = f]
      /\ \A j \in Call : /\ KeepsServer(calls[b][j], f[j])
                         /\ f[j] = calls[b][j] \/ f[j].client = "idle"
  BY LeftCalls
<1>1. \A d \in Browser, j \in Call : Needs(calls'[d][j]) => Needs(calls[d][j])
  BY DEF Needs, KeepsServer, SessTypes
<1>2. Unused' = Unused
  BY DEF Left, Unused
<1> QED BY <1>1, <1>2, NeedsElsewhere

LEMMA ExpireCounted ==
    ASSUME SessTypes, SessTypes', Counted, NEW b \in Browser, ExpireAccess(b)
    PROVE  Counted'
BY NeedsElsewhere DEF ExpireAccess, Unused

LEMMA AgeCounted ==
    ASSUME SessTypes, Counted, NEW s \in Session, ExpireSession(s)
    PROVE  Counted'
<1>1. NeedSet' = NeedSet /\ Unused' = Unused
  BY Aged DEF NeedSet, Needs, Unused
<1> QED BY <1>1 DEF Counted

LEMMA DeathCounted ==
    ASSUME SessTypes, SessTypes', Counted, ApiDies
    PROVE  Counted'
<1>1. \A d \in Browser, j \in Call : Needs(calls'[d][j]) => Needs(calls[d][j])
  BY ApiDiesCalls DEF Needs
<1>2. Unused' = Unused
  BY DEF ApiDies, Unused
<1> QED BY <1>1, <1>2, NeedsElsewhere

\* A new row is taken from those that nobody uses.
LEMMA TakesRow ==
    ASSUME SessTypes, SessTypes', NEW n \in Session, sessions[n].state = "free",
           sessions'[n].state # "free",
           \A t \in Session \ {n} : (sessions'[t].state = "free") = (sessions[t].state = "free")
    PROVE  Cardinality(Unused') = Cardinality(Unused) - 1
<1>1. n \in Unused /\ Unused' = Unused \ {n} /\ IsFiniteSet(Unused)
  BY Countable DEF Unused
<1>2. Cardinality(Unused \ {n}) = Cardinality(Unused) - 1
  BY <1>1, FS_RemoveElement
<1> QED BY <1>1, <1>2

LEMMA RotateCounted ==
    ASSUME SessTypes, Rows, SessTypes', Counted, NEW b \in Browser, NEW k \in Call, Rotate(b, k),
           NEW n \in Session, n = Min(Unused), sessions[n].state = "free"
    PROVE  Counted'
<1>1. PICK x : Becomes(b, k, x) /\ KeepsClient(calls[b][k], x) /\ x.server = "persist"
  BY RotateRow
<1>2. calls[b][k].server = "rotate" /\ calls[b][k].client # "denied"
  BY DEF Rotate, SessTypes, Shaped
<1>3. <<b, k>> \in NeedSet /\ NeedSet' \subseteq NeedSet \ {<<b, k>>}
  BY <1>1, <1>2, NeedsOfCall DEF Needs, KeepsClient, NeedSet
<1>4. Cardinality(Unused') = Cardinality(Unused) - 1
  BY RotateTable, TakesRow
<1>5. /\ IsFiniteSet(NeedSet) /\ Cardinality(NeedSet) \in Nat /\ Cardinality(Unused) \in Nat
  BY Countable
<1>6. IsFiniteSet(NeedSet \ {<<b, k>>}) /\ Cardinality(NeedSet \ {<<b, k>>}) = Cardinality(NeedSet) - 1
  BY <1>3, <1>5, FS_RemoveElement
<1>7. Cardinality(NeedSet') \in Nat /\ Cardinality(NeedSet') <= Cardinality(NeedSet) - 1
  BY <1>3, <1>6, FS_Subset, FS_CardinalityType
<1> QED BY <1>4, <1>5, <1>7 DEF Counted

LEMMA IssueCounted ==
    ASSUME SessTypes, Rows, SessTypes', NEW b \in Browser, IssueSession(b),
           NEW n \in Session, n = Min(Unused), sessions[n].state = "free"
    PROVE  Counted'
<1>1. sessions' = [sessions EXCEPT ![n] = [state |-> "live", root |-> n]] /\ UNCHANGED calls
  BY DEF IssueSession
<1>2. Cardinality(Unused') = Cardinality(Unused) - 1
  BY <1>1, TakesRow DEF SessTypes
<1>3. NeedSet' = NeedSet
  BY <1>1 DEF NeedSet, Needs
<1>4. Cardinality(UnderWaySet) < Cardinality(Unused)
  BY DEF IssueSession, Room, UnderWaySet
<1>5. /\ Cardinality(NeedSet) \in Nat /\ Cardinality(Unused) \in Nat
      /\ Cardinality(UnderWaySet) \in Nat /\ Cardinality(NeedSet) <= Cardinality(UnderWaySet)
  BY Countable
<1> QED BY <1>2, <1>3, <1>4, <1>5 DEF Counted

LEMMA RoomForIssue ==
    ASSUME SessTypes, Room
    PROVE  Unused # {}
<1>1. /\ Cardinality(UnderWaySet) < Cardinality(Unused)
      /\ Cardinality(UnderWaySet) \in Nat /\ Cardinality(Unused) \in Nat /\ IsFiniteSet(Unused)
  BY Countable DEF Room, UnderWaySet
<1> QED BY <1>1, FS_EmptySet

LEMMA RowForRotation ==
    ASSUME SessTypes, Counted, NEW b \in Browser, NEW k \in Call, calls[b][k].server = "rotate"
    PROVE  Unused # {}
<1>1. <<b, k>> \in NeedSet
  BY DEF NeedSet, Needs
<1>2. IsFiniteSet(NeedSet) /\ Cardinality(NeedSet) \in Nat /\ Cardinality(NeedSet) # 0
      /\ Cardinality(Unused) \in Nat
  BY <1>1, Countable, FS_EmptySet
<1> QED BY <1>2, FS_EmptySet DEF Counted
----------------------------------------------------------------------------
(* The types of the sessions *)

SessInv == SessTypes /\ Rows /\ Counted

LEMMA InitSessions == Init => SessInv
<1> SUFFICES ASSUME Init PROVE SessInv
  OBVIOUS
<1>1. /\ sessions = [s \in Session |-> [state |-> "free", root |-> NoSession]]
      /\ browser = [b \in Browser |-> [cookie |-> NoSession, access |-> "none", page |-> "login"]]
      /\ calls = [b \in Browser |-> [k \in Call |-> IdleCall]]
  BY DEF Init
<1>2. SessTypes
  BY <1>1, IdleCallRow DEF SessTypes, SessionRow, BrowserRow
<1>3. \A b \in Browser, s \in Session : ~Knows(b, s)
  BY <1>1, SessionNumbers DEF Knows, IdleCall
<1>4. Rooted /\ Known /\ Apart
  BY <1>1, <1>3 DEF Rooted, Known, Apart
<1>5. \A b \in Browser, k \in Call : OwnsNew(b, k)
  BY <1>1 DEF OwnsNew, IdleCall
<1>6. NeedSet = {}
  BY <1>1 DEF NeedSet, Needs, IdleCall
<1>7. Counted
  BY <1>2, <1>6, Countable, FS_EmptySet DEF Counted
<1> QED BY <1>2, <1>4, <1>5, <1>7 DEF Rows, SessInv

LEMMA SessionsUnchanged ==
    ASSUME SessInv, UNCHANGED <<sessions, browser, calls>>
    PROVE  SessInv'
<1>1. SessTypes'
  BY DEF SessInv, SessTypes
<1>2. \A b \in Browser, s \in Session : Knows(b, s)' = Knows(b, s)
  BY DEF Knows
<1>3. Rooted' /\ Known' /\ Apart'
  BY <1>2 DEF SessInv, Rows, Rooted, Known, Apart
<1>4. \A b \in Browser, k \in Call : OwnsNew(b, k)'
  BY DEF SessInv, Rows, OwnsNew
<1>5. Unused' = Unused /\ NeedSet' = NeedSet
  BY DEF Unused, NeedSet, Needs
<1> QED BY <1>1, <1>3, <1>4, <1>5 DEF SessInv, Rows, Counted

LEMMA NextSessions == IInv /\ SessInv /\ [Next]_vars => SessInv'
<1> SUFFICES ASSUME IInv, SessInv, [Next]_vars PROVE SessInv'
  OBVIOUS
<1>0. mix.browsers \subseteq Browser /\ mix.calls \subseteq Call
  BY UsersAssumption, SessionsAssumption DEF IInv
<1> USE DEF SessInv
<1>1. CASE UNCHANGED sessionVars
  BY <1>1, SessionsUnchanged DEF sessionVars
<1>2. ASSUME NEW b \in mix.browsers, IssueSession(b) PROVE SessInv'
  <2>1. Min(Unused) \in Session /\ sessions[Min(Unused)].state = "free"
    BY <1>2, RoomForIssue, NextRow DEF IssueSession
  <2> QED BY <1>0, <1>2, <2>1, IssueRows, IssueCounted
<1>3. ASSUME NEW b \in mix.browsers, NEW k \in mix.calls, Rotate(b, k) PROVE SessInv'
  <2>1. Min(Unused) \in Session /\ sessions[Min(Unused)].state = "free"
    BY <1>0, <1>3, RowForRotation, NextRow DEF Rotate
  <2> QED BY <1>0, <1>3, <2>1, RotateRows, RotateCounted
<1>4. ASSUME NEW b \in mix.browsers, NEW k \in mix.calls, QuietStep(b, k) PROVE SessInv'
  BY <1>0, <1>4, QuietRows, QuietCounted
<1>5. ASSUME NEW b \in mix.browsers, NEW k \in mix.calls, BusyStep(b, k) PROVE SessInv'
  BY <1>0, <1>5, BusyRows, BusyCounted
<1>6. ASSUME NEW b \in mix.browsers, NEW k \in mix.calls, Restore(b, k) \/ Left(b, k) PROVE SessInv'
  BY <1>0, <1>6, RestoreRows, LeftRows, RestoreCounted, LeftCounted
<1>7. ASSUME NEW b \in mix.browsers, ExpireAccess(b) PROVE SessInv'
  BY <1>0, <1>7, ExpireRows, ExpireCounted
<1>8. ASSUME ApiDies PROVE SessInv'
  BY <1>8, ApiDiesRows, DeathCounted
<1>9. ASSUME NEW s \in Session, ExpireSession(s) PROVE SessInv'
  BY <1>9, AgeRows, AgeCounted
<1> QED BY <1>1, <1>2, <1>3, <1>4, <1>5, <1>6, <1>7, <1>8, <1>9
        DEF Next, CallStep, QuietStep, BusyStep, vars, sessionVars

\* sys_refresh_sessions, the cookies and the calls keep their types with any number of
\* browsers and calls; a rotation always finds a row to rotate to, and a call knows of the
\* sessions that the place it has reached needs (auth.service.ts, httpInterceptor.ts).
THEOREM SessionsTyped == Spec => []TypeOK
<1>1. ASSUME IInv, SessInv PROVE TypeOK
  <2>1. /\ UsersTypeOK /\ sessions \in [Session -> SessionRow]
        /\ \A b \in Browser : browser[b] \in BrowserRow
        /\ \A b \in Browser, k \in Call : Shaped(calls[b][k])
    BY <1>1 DEF IInv, SessInv, SessTypes
  <2>2. \A b \in Browser, k \in Call : calls[b][k].server = "rotate" => Unused # {}
    BY <1>1, RowForRotation DEF SessInv
  <2> QED BY <2>1, <2>2 DEF TypeOK, BrowserRow, Shaped
<1>2. Init => IInv /\ SessInv
  BY InitInductive, InitSessions
<1>3. (IInv /\ SessInv) /\ [Next]_vars => (IInv /\ SessInv)'
  BY NextInductive, NextSessions
<1> QED BY <1>1, <1>2, <1>3, PTL DEF Spec
----------------------------------------------------------------------------
(* A page whose session has been revoked *)

\* What a call is doing when its page's session is revoked: it is not served, or on its way
\* out.
Explains(c) == c.client \in {"denied", "waiting", "refused", "leaving", "signingOut"}

\* While the session is being restored nobody signs in and nothing else is called; an answer
\* that is on its way to a page that shows the application changes what some call explains.
PageSound(b) ==
    /\ \A k \in Call : calls[b][k].restores =>
         /\ browser[b].page # "app" /\ login[b].pc = "idle"
         /\ \A j \in Call : j # k => calls[b][j].client = "idle"
         /\ calls[b][k].client = "retry" =>
              Kept(browser[b].cookie) /\ \A j \in Call : calls[b][j].sent # browser[b].cookie
    /\ browser[b].page = "app" =>
         /\ browser[b].cookie \in Session
         /\ Kept(browser[b].cookie) \/ \E k \in Call : Explains(calls[b][k])
         /\ \A k \in Call : calls[b][k].client = "idle" => calls[b][k].sent # browser[b].cookie

PageInv == \A b \in Browser : PageSound(b)

\* What another browser does leaves a page as it is.
LEMMA Bystander ==
    ASSUME SessTypes, Rows, NEW b \in Browser, NEW d \in Browser \ {b}, PageSound(d),
           calls'[d] = calls[d], browser'[d] = browser[d], login'[d].pc = login[d].pc,
           \A s \in Session : sessions'[s] # sessions[s] => Knows(b, s) \/ sessions[s].state = "free"
    PROVE  PageSound(d)'
<1>1. Kept(browser[d].cookie) => Kept(browser[d].cookie)'
  <2> SUFFICES ASSUME Kept(browser[d].cookie) PROVE Kept(browser[d].cookie)'
    OBVIOUS
  <2>1. browser[d].cookie \in Session /\ Knows(d, browser[d].cookie)
    BY DEF Kept, Live, Expired, Knows
  <2>2. ~Knows(b, browser[d].cookie) /\ sessions[browser[d].cookie].state # "free"
    BY <2>1 DEF Rows, Apart, Known
  <2> QED BY <2>1, <2>2 DEF Kept, Live, Expired
<1> QED BY <1>1 DEF PageSound, Explains

LEMMA InitPages == Init => PageInv
BY DEF Init, UsersInit, PageInv, PageSound, IdleCall

\* The page of the call whose row a step rewrites.
LEMMA PageOfCall ==
    ASSUME SessTypes, Rows, PageInv, NEW b \in Browser, NEW k \in Call, NEW x, Becomes(b, k, x),
           UNCHANGED login, \A d \in Browser \ {b} : browser'[d] = browser[d],
           \A s \in Session : sessions'[s] # sessions[s] => Knows(b, s) \/ sessions[s].state = "free",
           PageSound(b)'
    PROVE  PageInv'
<1>1. \A d \in Browser \ {b} : calls'[d] = calls[d]
  BY CallSet DEF Becomes
<1>2. \A d \in Browser \ {b} : PageSound(d)'
  BY <1>1, Bystander DEF PageInv
<1> QED BY <1>2 DEF PageInv

\* A step of a call that touches neither the table nor the cookies.
LEMMA QuietPage ==
    ASSUME SessTypes, Rows, PageInv, NEW b \in Browser, NEW k \in Call, NEW x, Becomes(b, k, x),
           UNCHANGED <<sessions, browser, login>>,
           x.client # "retry", x.restores => calls[b][k].restores,
           calls[b][k].client = "idle" =>
               /\ x.client = "idle" \/ browser[b].page = "app"
               /\ x.sent = calls[b][k].sent,
           browser[b].page = "app" =>
               /\ Explains(calls[b][k]) => Explains(x)
               /\ x.client = "idle" => calls[b][k].client = "idle"
    PROVE  PageInv'
<1> DEFINE c == calls[b][k]
<1>1. calls'[b][k] = x /\ \A j \in Call \ {k} : calls'[b][j] = calls[b][j]
  BY CallSet DEF Becomes
<1>2. PageSound(b) /\ Kept(browser[b].cookie)' = Kept(browser[b].cookie)
  BY DEF PageInv, Kept, Live, Expired
<1>3. ASSUME NEW j \in Call, calls'[b][j].restores
      PROVE  /\ browser'[b].page # "app" /\ login'[b].pc = "idle"
             /\ \A i \in Call : i # j => calls'[b][i].client = "idle"
             /\ calls'[b][j].client = "retry" =>
                  Kept(browser[b].cookie)' /\ \A i \in Call : calls'[b][i].sent # browser'[b].cookie
  <2>1. CASE j = k
    BY <1>1, <1>2, <1>3, <2>1 DEF PageSound
  <2>2. CASE j # k
    BY <1>1, <1>2, <1>3, <2>2 DEF PageSound
  <2> QED BY <2>1, <2>2
<1>4. ASSUME browser'[b].page = "app"
      PROVE  /\ browser'[b].cookie \in Session
             /\ Kept(browser[b].cookie)' \/ \E j \in Call : Explains(calls'[b][j])
             /\ \A j \in Call : calls'[b][j].client = "idle" => calls'[b][j].sent # browser'[b].cookie
  BY <1>1, <1>2, <1>4 DEF PageSound
<1>5. PageSound(b)'
  BY <1>3, <1>4 DEF PageSound, Explains
<1> QED BY <1>5, PageOfCall

LEMMA QuietPages ==
    ASSUME SessTypes, Rows, PageInv, NEW b \in Browser, NEW k \in Call, QuietStep(b, k)
    PROVE  PageInv'
<1> DEFINE c == calls[b][k]
<1>0. UNCHANGED <<sessions, browser, login>> /\ Shaped(c) /\ PageSound(b)
  BY DEF QuietStep, Denied, SendRefresh, FindSession, Timeout, GiveUp, SignOut, usersVars, PageInv, SessTypes
<1>1. CASE Denied(b, k)
  <2>1. c.client = "idle" /\ browser[b].page = "app"
    BY <1>1 DEF Denied
  <2> QED BY <1>0, <1>1, <2>1, DeniedRow, QuietPage DEF KeepsServer, Explains
<1>2. CASE SendRefresh(b, k)
  <2>1. c.client = "denied"
    BY <1>2 DEF SendRefresh
  <2> PICK x : /\ Becomes(b, k, x) /\ x.restores = c.restores /\ x.client \in {"refused", "waiting"}
    BY <1>2, SendRefreshRow
  <2> QED BY <1>0, <2>1, QuietPage DEF Explains
<1>3. CASE FindSession(b, k)
  <2>1. c.client # "retry"
    BY <1>0, <1>3 DEF FindSession, Shaped
  <2> PICK x : Becomes(b, k, x) /\ KeepsClient(c, x) /\ x.sent = c.sent
    BY <1>3, FindSessionRow
  <2> QED BY <1>0, <2>1, QuietPage DEF KeepsClient, Explains
<1>4. CASE Timeout(b, k)
  <2>1. c.client = "waiting"
    BY <1>4 DEF Timeout, GivesUp
  <2> QED BY <1>0, <1>4, <2>1, TimeoutRow, QuietPage DEF Explains
<1>5. CASE GiveUp(b, k)
  <2>1. c.client = "refused"
    BY <1>5 DEF GiveUp
  <2> PICK x : /\ Becomes(b, k, x)
               /\ \/ browser[b].page = "app" /\ x.client = "leaving" /\ x.restores = c.restores
                  \/ browser[b].page # "app" /\ x.client = "idle" /\ ~x.restores
    BY <1>5, GiveUpRow
  <2> QED BY <1>0, <2>1, QuietPage DEF Explains
<1>6. CASE SignOut(b, k)
  <2>1. c.client = "idle" /\ browser[b].page = "app"
    BY <1>6 DEF SignOut
  <2> QED BY <1>0, <1>6, <2>1, SignOutRow, QuietPage DEF KeepsServer, Explains
<1> QED BY <1>1, <1>2, <1>3, <1>4, <1>5, <1>6 DEF QuietStep

LEMMA PersistPages ==
    ASSUME SessTypes, Rows, PageInv, NEW b \in Browser, NEW k \in Call, PersistSession(b, k)
    PROVE  PageInv'
<1> DEFINE c == calls[b][k]  n == calls[b][k].new
<1> PICK x : Becomes(b, k, x) /\ KeepsClient(c, x) /\ x.sent = c.sent
  BY PersistRow
<1>1. sessions' = [sessions EXCEPT ![n].state = "live"] /\ UNCHANGED <<browser, login>> /\ PageSound(b)
  BY DEF PersistSession, usersVars, PageInv
<1>2. calls'[b][k] = x /\ \A j \in Call \ {k} : calls'[b][j] = calls[b][j]
  BY CallSet DEF Becomes
<1>3. Kept(browser[b].cookie) => Kept(browser[b].cookie)'
  BY <1>1 DEF Kept, Live, Expired, SessTypes, SessionRow
<1>4. Knows(b, n)
  BY DEF Knows
<1>5. \A s \in Session : sessions'[s] # sessions[s] => Knows(b, s) \/ sessions[s].state = "free"
  BY <1>1, <1>4 DEF SessTypes
<1>6. \A j \in Call : /\ calls'[b][j].client = calls[b][j].client /\ calls'[b][j].restores = calls[b][j].restores
                      /\ calls'[b][j].sent = calls[b][j].sent
  BY <1>2 DEF KeepsClient
<1>7. PageSound(b)'
  BY <1>1, <1>3, <1>6 DEF PageSound, Explains
<1> QED BY <1>1, <1>5, <1>7, PageOfCall

LEMMA RotatePages ==
    ASSUME SessTypes, Rows, PageInv, NEW b \in Browser, NEW k \in Call, Rotate(b, k),
           NEW n \in Session, n = Min(Unused), sessions[n].state = "free"
    PROVE  PageInv'
<1> DEFINE c == calls[b][k]
<1> PICK x : Becomes(b, k, x) /\ KeepsClient(c, x) /\ x.sent = c.sent
  BY RotateRow
<1> PICK s \in Session :
        /\ s = calls[b][k].sent /\ Knows(b, s)
        /\ \A t \in Session : t # s /\ t # n => sessions'[t] = sessions[t]
  BY RotateTable
<1>1. UNCHANGED <<browser, login>> /\ PageSound(b) /\ Shaped(c) /\ c.server = "rotate"
      /\ c.client \in {"idle", "denied", "waiting", "retry", "refused", "leaving", "signingOut"}
  BY DEF Rotate, usersVars, PageInv, SessTypes, CallRow
<1>2. calls'[b][k] = x /\ \A j \in Call \ {k} : calls'[b][j] = calls[b][j]
  BY CallSet DEF Becomes
<1>3. Kept(browser[b].cookie) /\ browser[b].cookie # s => Kept(browser[b].cookie)'
  BY <1>1 DEF Kept, Live, Expired
<1>4. \A t \in Session : sessions'[t] # sessions[t] => Knows(b, t) \/ sessions[t].state = "free"
  OBVIOUS
<1>5. \A j \in Call : /\ calls'[b][j].client = calls[b][j].client /\ calls'[b][j].restores = calls[b][j].restores
                      /\ calls'[b][j].sent = calls[b][j].sent
  BY <1>2 DEF KeepsClient
<1>6. browser[b].page = "app" /\ browser[b].cookie = s => Explains(c)
  BY <1>1 DEF PageSound, Explains, Shaped
<1>7. PageSound(b)'
  BY <1>1, <1>3, <1>5, <1>6 DEF PageSound, Explains
<1> QED BY <1>1, <1>4, <1>7, PageOfCall

LEMMA AnswerPages ==
    ASSUME SessTypes, Rows, PageInv, NEW b \in Browser, NEW k \in Call, Answer(b, k)
    PROVE  PageInv'
<1> DEFINE c == calls[b][k]  n == calls[b][k].new
<1> PICK x : /\ Becomes(b, k, x) /\ x.restores = c.restores /\ x.sent = NoSession
             /\ x.client = IF c.client # "waiting" THEN c.client
                           ELSE IF c.server = "answer" THEN "retry" ELSE "refused"
  BY AnswerRow
<1>1. UNCHANGED <<sessions, login>> /\ PageSound(b) /\ Shaped(c) /\ browser \in [Browser -> BrowserRow] /\ c \in CallRow
      /\ OwnsNew(b, k) /\ c.server \in {"answer", "refuse"}
  BY DEF Answer, usersVars, PageInv, SessTypes, Rows
<1>2. calls'[b][k] = x /\ \A j \in Call \ {k} : calls'[b][j] = calls[b][j]
  BY CallSet DEF Becomes
<1>3. CASE c.client = "waiting" /\ c.server = "answer"
  <2>1. browser' = [browser EXCEPT ![b] = [browser[b] EXCEPT !.cookie = n, !.access = "fresh"]]
    BY <1>3 DEF Answer, NewCookies
  <2>2. /\ browser'[b].cookie = n /\ browser'[b].page = browser[b].page
        /\ \A d \in Browser \ {b} : browser'[d] = browser[d]
    BY <1>1, <2>1 DEF BrowserRow
  <2>3. n \in Session /\ n # NoSession /\ sessions[n].state \in {"live", "expired"}
    BY <1>1, <1>3 DEF Shaped, CallRow, OwnsNew
  <2>4. Kept(browser[b].cookie)'
    BY <1>1, <2>2, <2>3 DEF Kept, Live, Expired
  <2>5. \A j \in Call : calls'[b][j].sent # n
    BY <1>1, <1>2, <2>3 DEF OwnsNew
  <2>6. \A j \in Call \ {k} : ~calls[b][j].restores
    BY <1>1, <1>3 DEF PageSound
  <2>7. PageSound(b)'
    BY <1>1, <1>2, <2>2, <2>3, <2>4, <2>5, <2>6 DEF PageSound
  <2> QED BY <1>1, <2>2, <2>7, PageOfCall
<1>4. CASE ~(c.client = "waiting" /\ c.server = "answer")
  <2>1. UNCHANGED browser
    BY <1>4 DEF Answer
  <2>2. x.client = c.client \/ (c.client = "waiting" /\ x.client = "refused")
    BY <1>4
  <2>3. Kept(browser[b].cookie)' = Kept(browser[b].cookie)
    BY <1>1, <2>1 DEF Kept, Live, Expired
  <2>4. \A j \in Call : /\ calls'[b][j].restores = calls[b][j].restores
                        /\ calls'[b][j].sent \in {calls[b][j].sent, NoSession}
                        /\ \/ calls'[b][j].client = calls[b][j].client
                           \/ Explains(calls[b][j]) /\ calls[b][j].client # "idle" /\ calls'[b][j].client = "refused"
    BY <1>2, <2>2 DEF Explains
  <2>5. ASSUME NEW j \in Call, calls'[b][j].restores
        PROVE  /\ browser'[b].page # "app" /\ login'[b].pc = "idle"
               /\ \A i \in Call : i # j => calls'[b][i].client = "idle"
               /\ calls'[b][j].client = "retry" =>
                    Kept(browser[b].cookie)' /\ \A i \in Call : calls'[b][i].sent # browser'[b].cookie
    <3>1. browser[b].page # "app" /\ login[b].pc = "idle" /\ \A i \in Call : i # j => calls[b][i].client = "idle"
      BY <1>1, <2>4, <2>5 DEF PageSound
    <3>2. Kept(browser[b].cookie) => browser[b].cookie # NoSession
      BY SessionNumbers DEF Kept, Kept, Live, Expired, Expired
    <3> QED BY <1>1, <2>1, <2>3, <2>4, <2>5, <3>1, <3>2 DEF PageSound
  <2>6. PageSound(b)'
    BY <1>1, <2>1, <2>3, <2>4, <2>5, SessionNumbers DEF PageSound, Explains
  <2> QED BY <1>1, <2>1, <2>6, PageOfCall
<1> QED BY <1>3, <1>4

LEMMA RetryPages ==
    ASSUME SessTypes, Rows, PageInv, NEW b \in Browser, NEW k \in Call, Retry(b, k)
    PROVE  PageInv'
<1> DEFINE c == calls[b][k]
<1> PICK x : /\ Becomes(b, k, x) /\ KeepsServer(c, x) /\ x.server = "none"
             /\ \/ /\ x.client = "idle" /\ ~x.restores
                   /\ browser' = IF c.restores THEN [browser EXCEPT ![b].page = "app"] ELSE browser
                \/ x.client = "refused" /\ x.restores = c.restores /\ UNCHANGED browser
  BY RetryRow
<1>1. UNCHANGED <<sessions, login>> /\ PageSound(b) /\ Shaped(x) /\ x \in CallRow /\ browser \in [Browser -> BrowserRow]
      /\ c.client = "retry"
  BY DEF Retry, usersVars, PageInv, SessTypes, Becomes
<1>2. calls'[b][k] = x /\ \A j \in Call \ {k} : calls'[b][j] = calls[b][j]
  BY CallSet DEF Becomes
<1>3. /\ browser'[b].cookie = browser[b].cookie /\ \A d \in Browser \ {b} : browser'[d] = browser[d]
      /\ browser'[b].page = browser[b].page \/ (c.restores /\ ~x.restores /\ x.client = "idle")
  BY <1>1 DEF BrowserRow
<1>4. x.sent = NoSession /\ x.sent = c.sent
  BY <1>1 DEF Shaped, CallRow, KeepsServer
<1>5. Kept(browser[b].cookie)' = Kept(browser[b].cookie)
  BY <1>1, <1>3 DEF Kept, Live, Expired
<1>6. \A j \in Call \ {k} : ~calls[b][j].restores
  BY <1>1 DEF PageSound
<1>7. CASE c.restores /\ ~x.restores /\ x.client = "idle"
  <2>1. \A j \in Call : ~calls'[b][j].restores
    BY <1>2, <1>6, <1>7
  <2>2. Kept(browser[b].cookie) /\ \A j \in Call : calls[b][j].sent # browser[b].cookie
    BY <1>1, <1>7 DEF PageSound
  <2>3. browser[b].cookie \in Session
    BY <2>2 DEF Kept, Live, Expired
  <2>4. PageSound(b)'
    BY <1>2, <1>3, <1>4, <1>5, <2>1, <2>2, <2>3 DEF PageSound
  <2> QED BY <1>1, <1>3, <2>4, PageOfCall
<1>8. CASE ~(c.restores /\ ~x.restores /\ x.client = "idle")
  <2>1. /\ x.client = "idle" => ~x.restores /\ ~c.restores
        /\ browser'[b].page = browser[b].page
    BY <1>3, <1>8
  <2>2. ASSUME NEW j \in Call, calls'[b][j].restores
        PROVE  /\ browser'[b].page # "app" /\ login'[b].pc = "idle"
               /\ \A i \in Call : i # j => calls'[b][i].client = "idle"
               /\ calls'[b][j].client = "retry" => FALSE
    <3>1. j = k /\ x.client = "refused" /\ c.restores
      BY <1>2, <1>6, <2>1, <2>2
    <3> QED BY <1>1, <1>2, <2>1, <3>1 DEF PageSound
  <2>3. ASSUME browser'[b].page = "app"
        PROVE  /\ browser'[b].cookie \in Session
               /\ Kept(browser[b].cookie)' \/ \E j \in Call : Explains(calls'[b][j])
               /\ \A j \in Call : calls'[b][j].client = "idle" => calls'[b][j].sent # browser'[b].cookie
    <3>1. /\ browser[b].cookie \in Session
          /\ Kept(browser[b].cookie) \/ \E j \in Call : Explains(calls[b][j])
          /\ \A j \in Call : calls[b][j].client = "idle" => calls[b][j].sent # browser[b].cookie
      BY <1>1, <2>1, <2>3 DEF PageSound
    <3>2. ~Explains(c)
      BY <1>1 DEF Explains
    <3> QED BY <1>2, <1>3, <1>4, <1>5, <3>1, <3>2, SessionNumbers
  <2>4. PageSound(b)'
    BY <2>2, <2>3 DEF PageSound, Explains
  <2> QED BY <1>1, <1>3, <2>4, PageOfCall
<1> QED BY <1>7, <1>8

LEMMA RevokePages ==
    ASSUME SessTypes, Rows, PageInv, NEW b \in Browser, NEW k \in Call, RevokeSession(b, k)
    PROVE  PageInv'
<1> DEFINE c == calls[b][k]  s == calls[b][k].leaves
<1> PICK x : Becomes(b, k, x) /\ KeepsServer(c, x) /\ x.client = c.client /\ x.restores = c.restores
  BY RevokeRow
<1>1. UNCHANGED <<browser, login>> /\ PageSound(b) /\ c.client \in {"leaving", "signingOut"}
      /\ Explains(c)
  BY DEF RevokeSession, usersVars, PageInv, SessTypes, Shaped, Explains
<1>2. calls'[b][k] = x /\ \A j \in Call \ {k} : calls'[b][j] = calls[b][j]
  BY CallSet DEF Becomes
<1>3. \A j \in Call : /\ calls'[b][j].client = calls[b][j].client /\ calls'[b][j].restores = calls[b][j].restores
                      /\ calls'[b][j].sent = calls[b][j].sent
  BY <1>2 DEF KeepsServer
<1>4. \A t \in Session : sessions'[t] # sessions[t] => Knows(b, t)
  <2>1. UNCHANGED sessions \/ (s \in Session /\ sessions' = [sessions EXCEPT ![s].state = "revoked"])
    BY DEF RevokeSession, Kept, Live, Expired
  <2>2. Knows(b, s)
    BY DEF Knows
  <2> QED BY <2>1, <2>2 DEF SessTypes
<1>5. \A j \in Call \ {k} : ~calls[b][j].restores
  BY <1>1 DEF PageSound
<1>6. PageSound(b)'
  BY <1>1, <1>3, <1>5 DEF PageSound, Explains
<1> QED BY <1>1, <1>4, <1>6, PageOfCall

LEMMA RestorePages ==
    ASSUME SessTypes, Rows, PageInv, NEW b \in Browser, NEW k \in Call, Restore(b, k)
    PROVE  PageInv'
<1> PICK f \in [Call -> CallRow] :
        /\ calls' = [calls EXCEPT ![b] = f]
        /\ \A j \in Call : j # k => f[j].client = "idle" /\ ~f[j].restores
        /\ f[k].client = "denied"
  BY RestoreCalls
<1>1. UNCHANGED <<sessions, browser, login>> /\ login[b].pc = "idle" /\ browser[b].page # "app"
  BY DEF Restore, usersVars
<1>2. calls'[b] = f /\ \A d \in Browser \ {b} : calls'[d] = calls[d]
  BY DEF SessTypes
<1>3. PageSound(b)'
  BY <1>1, <1>2 DEF PageSound
<1>4. \A d \in Browser \ {b} : PageSound(d)'
  BY <1>1, <1>2, Bystander DEF PageInv
<1> QED BY <1>3, <1>4 DEF PageInv

LEMMA LeftPages ==
    ASSUME SessTypes, Rows, PageInv, NEW b \in Browser, NEW k \in Call, Left(b, k)
    PROVE  PageInv'
<1> PICK f \in [Call -> CallRow] :
        /\ calls' = [calls EXCEPT ![b] = f]
        /\ \A j \in Call : f[j] = calls[b][j] \/ (f[j].client = "idle" /\ ~f[j].restores)
        /\ f[k].client = "idle" /\ ~f[k].restores
  BY LeftCalls
<1>1. /\ UNCHANGED <<sessions, login>> /\ calls[b][k].client \in {"leaving", "signingOut"} /\ PageSound(b)
      /\ browser \in [Browser -> BrowserRow]
  BY DEF Left, usersVars, PageInv, SessTypes
<1>2. \/ browser' = [browser EXCEPT ![b] = [cookie |-> NoSession, access |-> "none", page |-> "out"]]
      \/ browser' = [browser EXCEPT ![b] = [browser[b] EXCEPT !.page = "out"]]
  BY DEF Left
<1>3. browser'[b].page = "out" /\ \A d \in Browser \ {b} : browser'[d] = browser[d]
  BY <1>1, <1>2 DEF BrowserRow
<1>4. calls'[b] = f /\ \A d \in Browser \ {b} : calls'[d] = calls[d]
  BY DEF SessTypes
<1>5. \A j \in Call : ~calls'[b][j].restores
  BY <1>1, <1>4 DEF PageSound
<1>6. PageSound(b)'
  BY <1>3, <1>5 DEF PageSound
<1>7. \A d \in Browser \ {b} : PageSound(d)'
  BY <1>1, <1>3, <1>4, Bystander DEF PageInv
<1> QED BY <1>6, <1>7 DEF PageInv

LEMMA IssuePages ==
    ASSUME IInv, SessTypes, Rows, PageInv, NEW b \in Browser, IssueSession(b),
           NEW n \in Session, n = Min(Unused), sessions[n].state = "free"
    PROVE  PageInv'
<1>1. /\ sessions' = [sessions EXCEPT ![n] = [state |-> "live", root |-> n]]
      /\ browser' = [browser EXCEPT ![b] = [cookie |-> n, access |-> "fresh", page |-> "app"]]
      /\ ~Knows(b, n)
  BY IssueRows
<1>2. /\ UNCHANGED calls /\ login[b].pc = "issue" /\ login' = [login EXCEPT ![b] = IdleLogin]
      /\ PageSound(b)
  BY DEF IssueSession, SetLogin, PageInv
<1>3. /\ browser'[b].cookie = n /\ sessions'[n].state = "live"
      /\ \A d \in Browser \ {b} : browser'[d] = browser[d] /\ login'[d] = login[d]
      /\ \A t \in Session : sessions'[t] # sessions[t] => sessions[t].state = "free"
  BY <1>1, <1>2 DEF SessTypes, IInv, UsersTypeOK
<1>4. \A j \in Call : ~calls[b][j].restores /\ calls[b][j].sent # n
  BY <1>1, <1>2 DEF PageSound, Knows
<1>5. PageSound(b)'
  BY <1>2, <1>3, <1>4 DEF PageSound, Kept, Live, Expired
<1>6. \A d \in Browser \ {b} : PageSound(d)'
  BY <1>2, <1>3, Bystander DEF PageInv
<1> QED BY <1>5, <1>6 DEF PageInv

LEMMA ExpirePages ==
    ASSUME SessTypes, PageInv, NEW b \in Browser, ExpireAccess(b)
    PROVE  PageInv'
<1>1. /\ UNCHANGED <<sessions, calls, login>>
      /\ \A d \in Browser : browser'[d].cookie = browser[d].cookie /\ browser'[d].page = browser[d].page
  BY DEF ExpireAccess, usersVars, SessTypes, BrowserRow
<1> QED BY <1>1 DEF PageInv, PageSound, Kept, Live, Expired, Explains

LEMMA DeathPages ==
    ASSUME SessTypes, PageInv, ApiDies
    PROVE  PageInv'
<1>1. UNCHANGED <<sessions, browser>> /\ \A b \in Browser : login'[b].pc = "idle"
  BY DEF ApiDies, IdleLogin
<1>2. \A b \in Browser, k \in Call :
        /\ calls'[b][k].sent = NoSession /\ calls'[b][k].client = calls[b][k].client
        /\ calls'[b][k].restores = calls[b][k].restores
  BY ApiDiesCalls
<1>3. ASSUME NEW b \in Browser PROVE PageSound(b)'
  <2>1. PageSound(b) /\ Kept(browser[b].cookie)' = Kept(browser[b].cookie)
    BY <1>1 DEF PageInv, Kept, Live, Expired
  <2>2. Kept(browser[b].cookie) => browser[b].cookie # NoSession
    BY SessionNumbers DEF Kept, Live, Expired
  <2> QED BY <1>1, <1>2, <2>1, <2>2, SessionNumbers DEF PageSound, Explains
<1> QED BY <1>3 DEF PageInv

\* Signing in: nobody does it while the session is being restored.
LEMMA AgePages ==
    ASSUME SessTypes, PageInv, NEW s \in Session, ExpireSession(s)
    PROVE  PageInv'
<1>1. UNCHANGED <<login, calls, browser>> /\ \A t : Kept(t) => Kept(t)'
  BY Aged DEF usersVars, Kept, Live, Expired
<1> QED BY <1>1 DEF PageInv, PageSound, Explains

LEMMA SignInPages ==
    ASSUME IInv, PageInv, NEW b \in mix.browsers, SignIn(b), UNCHANGED sessionVars
    PROVE  PageInv'
<1>1. UNCHANGED <<sessions, browser, calls>> /\ b \in Browser
  BY UsersAssumption DEF sessionVars, IInv
<1>2. \A k \in Call : ~calls[b][k].restores
  <2>1. Restoring(b) => login[b].pc = "idle"
    BY <1>1 DEF Restoring, PageInv, PageSound
  <2>2. ~Restoring(b)
    BY <2>1 DEF SignIn, WrongPassword, FindFailing, ReloadLogin, SaveLogin, RegisterSuccess
  <2> QED BY <2>2 DEF Restoring
<1>3. \A d \in Browser \ {b} : login'[d] = login[d]
  BY <1>1 DEF SignIn, ValidateForLogin, WrongPassword, FindFailing, ReloadLogin, SaveLogin, RegisterSuccess,
     LoginAt, SetLogin, IInv, UsersTypeOK
<1> QED BY <1>1, <1>2, <1>3 DEF PageInv, PageSound, Kept, Live, Expired, Explains

LEMMA NextPages == IInv /\ SessInv /\ PageInv /\ [Next]_vars => PageInv'
<1> SUFFICES ASSUME IInv, SessInv, PageInv, [Next]_vars PROVE PageInv'
  OBVIOUS
<1>0. mix.browsers \subseteq Browser /\ mix.calls \subseteq Call
  BY UsersAssumption, SessionsAssumption DEF IInv
<1> USE DEF SessInv
<1>1. CASE UNCHANGED sessionVars /\ UNCHANGED login
  BY <1>1 DEF sessionVars, PageInv, PageSound, Kept, Live, Expired, Explains
<1>2. ASSUME NEW b \in mix.browsers, IssueSession(b) PROVE PageInv'
  <2>1. Min(Unused) \in Session /\ sessions[Min(Unused)].state = "free"
    BY <1>2, RoomForIssue, NextRow DEF IssueSession
  <2> QED BY <1>0, <1>2, <2>1, IssuePages
<1>3. ASSUME NEW b \in mix.browsers, NEW k \in mix.calls, Rotate(b, k) PROVE PageInv'
  <2>1. Min(Unused) \in Session /\ sessions[Min(Unused)].state = "free"
    BY <1>0, <1>3, RowForRotation, NextRow DEF Rotate
  <2> QED BY <1>0, <1>3, <2>1, RotatePages
<1>4. ASSUME NEW b \in mix.browsers, NEW k \in mix.calls, QuietStep(b, k) PROVE PageInv'
  BY <1>0, <1>4, QuietPages
<1>5. ASSUME NEW b \in mix.browsers, NEW k \in mix.calls, BusyStep(b, k) PROVE PageInv'
  BY <1>0, <1>5, PersistPages, AnswerPages, RetryPages, RevokePages DEF BusyStep
<1>6. ASSUME NEW b \in mix.browsers, NEW k \in mix.calls, Restore(b, k) \/ Left(b, k) PROVE PageInv'
  BY <1>0, <1>6, RestorePages, LeftPages
<1>7. ASSUME NEW b \in mix.browsers, ExpireAccess(b) PROVE PageInv'
  BY <1>0, <1>7, ExpirePages
<1>8. ASSUME ApiDies PROVE PageInv'
  BY <1>8, DeathPages
<1>9. ASSUME Administration PROVE UNCHANGED login
  BY <1>9 DEF Administration, Request, CheckAdmin, CountOtherAdmins, LoadUser, ReloadUser, SaveUser,
     SaveAssignment
<1>10. CASE UNCHANGED vars
  BY <1>1, <1>10 DEF vars, usersVars
<1>11. ASSUME NEW s \in Session, ExpireSession(s) PROVE PageInv'
  BY <1>11, AgePages
<1>12. CASE Next
  BY <1>1, <1>2, <1>3, <1>4, <1>5, <1>6, <1>7, <1>8, <1>9, <1>11, <1>12, SignInPages
     DEF Next, CallStep, QuietStep, BusyStep
<1> QED BY <1>10, <1>12

\* For any number of calls that refresh, time out, retry or sign out side by side, and
\* whatever process dies or session expires: a page that shows the application and has nothing
\* under way holds the cookie of a session that nobody has revoked (httpInterceptor.ts,
\* lib/auth.ts).
THEOREM PageKeepsSession == Spec => []PageHasSession
<1>1. ASSUME PageInv PROVE PageHasSession
  BY <1>1 DEF PageInv, PageSound, PageHasSession, Explains
<1>2. Init => IInv /\ SessInv /\ PageInv
  BY InitInductive, InitSessions, InitPages
<1>3. (IInv /\ SessInv /\ PageInv) /\ [Next]_vars => (IInv /\ SessInv /\ PageInv)'
  BY NextInductive, NextSessions, NextPages
<1> QED BY <1>1, <1>2, <1>3, PTL DEF Spec
----------------------------------------------------------------------------
(* One call at a time *)

\* What OneLivePerChain asks of the pages.
OneAtATime == Cardinality(mix.calls) = 1 /\ ~mix.slow

\* The server works for a page that waits; between its two writes the chain has no live
\* session.
InTurn(b, k) ==
    LET c == calls[b][k] IN
    /\ k \notin mix.calls => c = IdleCall
    /\ c.server # "none" => c.client = "waiting"
    /\ c.server = "rotate" => Kept(c.sent)
    /\ c.server = "persist" => \A t \in Session : Kept(t) => sessions[t].root # sessions[c.new].root

OneLive == \A s, t \in Session : Kept(s) /\ Kept(t) /\ sessions[s].root = sessions[t].root => s = t

ChainInv == OneLive /\ \A b \in Browser, k \in Call : InTurn(b, k)

LEMMA OnlyCall ==
    ASSUME mix \in Mixes, OneAtATime, NEW k \in mix.calls
    PROVE  \A j \in mix.calls : j = k
<1>1. IsFiniteSet(mix.calls)
  BY SessionsAssumption, FS_Subset
<1>2. PICK x : mix.calls = {x}
  BY <1>1, FS_Singleton DEF OneAtATime
<1> QED BY <1>2

LEMMA IdleInTurn ==
    ASSUME NEW b \in Browser, NEW k \in Call, calls'[b][k] = IdleCall
    PROVE  InTurn(b, k)'
<1>1. IdleCall.server = "none"
  BY DEF IdleCall
<1> QED BY <1>1 DEF InTurn

LEMMA SameRow ==
    ASSUME NEW c \in CallRow, NEW x \in CallRow, KeepsServer(c, x), KeepsClient(c, x)
    PROVE  x = c
BY DEF CallRow, KeepsServer, KeepsClient

LEMMA DroppedIdle == Dropped(IdleCall) = IdleCall
<1>1. Dropped(IdleCall).out = "none" /\ IdleCall.out = "none"
  BY DEF Dropped, IdleCall
<1>2. IdleCall.client = "idle" /\ IdleCall.leaves = NoSession /\ IdleCall.restores = FALSE
  BY DEF IdleCall
<1>3. Dropped(IdleCall).restores \in BOOLEAN
  BY IdleCallRow, DroppedRow DEF CallRow
<1> QED BY <1>1, <1>2, <1>3, IdleCallRow, DroppedRow, SameRow DEF KeepsServer, KeepsClient

\* What one browser does, the chains of the others do not notice.
LEMMA OtherChains ==
    ASSUME SessTypes, Rows, UNCHANGED mix, NEW b \in Browser, NEW d \in Browser \ {b}, NEW k \in Call, InTurn(d, k),
           calls'[d] = calls[d],
           \A s \in Session : /\ sessions'[s] # sessions[s] => Knows(b, s) \/ sessions[s].state = "free"
                              /\ sessions[s].state # "free" => sessions'[s].root = sessions[s].root
                              /\ Kept(s)' => \/ Kept(s) \/ Knows(b, s)
                                             \/ (sessions[s].state = "free" /\ sessions'[s].root = s)
    PROVE  InTurn(d, k)'
<1> DEFINE c == calls[d][k]
<1>1. c \in CallRow /\ Shaped(c)
  BY DEF SessTypes
<1>2. \A s \in Session : Knows(d, s) => /\ sessions'[s] = sessions[s] /\ ~Knows(b, s) /\ sessions[s].state # "free"
                                        /\ sessions[sessions[s].root].state # "free"
  BY DEF Rows, Apart, Known, Rooted
<1>3. c.server = "rotate" => Kept(c.sent)'
  <2> SUFFICES ASSUME c.server = "rotate" PROVE Kept(c.sent)'
    OBVIOUS
  <2>1. Kept(c.sent) /\ c.sent \in Session /\ Knows(d, c.sent)
    BY DEF InTurn, Kept, Live, Expired, Knows
  <2> QED BY <1>2, <2>1 DEF Kept, Live, Expired
<1>4. ASSUME c.server = "persist", NEW t \in Session, Kept(t)'
      PROVE  sessions'[t].root # sessions'[c.new].root
  <2>1. c.new \in Session /\ Knows(d, c.new)
    BY <1>1, <1>4 DEF Shaped, CallRow, Knows
  <2>2. sessions'[c.new].root = sessions[c.new].root
    BY <1>2, <2>1
  <2>3. CASE Kept(t)
    <3>1. sessions'[t].root = sessions[t].root
      BY <2>3 DEF Kept, Kept, Live, Expired, Expired
    <3> QED BY <1>4, <2>2, <2>3, <3>1 DEF InTurn
  <2>4. CASE Knows(b, t)
    <3>1. sessions[t].state # "free" /\ sessions[t].root # sessions[c.new].root
      BY <2>1, <2>4 DEF Rows, Known, Apart
    <3> QED BY <2>2, <3>1
  <2>5. CASE sessions[t].state = "free" /\ sessions'[t].root = t
    BY <1>2, <2>1, <2>2, <2>5
  <2> QED BY <1>4, <2>3, <2>4, <2>5
<1> QED BY <1>3, <1>4 DEF InTurn

LEMMA InitChains == Init => ChainInv
BY DEF Init, ChainInv, OneLive, InTurn, Kept, Live, Expired, IdleCall

\* A step of the one call of a page.
LEMMA ChainsOfCall ==
    ASSUME SessTypes, Rows, mix \in Mixes, OneAtATime, ChainInv, UNCHANGED mix,
           NEW b \in Browser, NEW k \in mix.calls, k \in Call, NEW x, Becomes(b, k, x),
           \A s \in Session : /\ sessions'[s] # sessions[s] => Knows(b, s) \/ sessions[s].state = "free"
                              /\ sessions[s].state # "free" => sessions'[s].root = sessions[s].root
                              /\ Kept(s)' => \/ Kept(s) \/ Knows(b, s)
                                             \/ (sessions[s].state = "free" /\ sessions'[s].root = s),
           OneLive', InTurn(b, k)'
    PROVE  ChainInv'
<1>1. /\ \A j \in Call \ {k} : calls'[b][j] = calls[b][j]
      /\ \A d \in Browser \ {b} : calls'[d] = calls[d]
  BY CallSet DEF Becomes
<1>2. \A d \in Browser \ {b}, j \in Call : InTurn(d, j)'
  BY <1>1, OtherChains DEF ChainInv
<1>3. ASSUME NEW j \in Call \ {k} PROVE InTurn(b, j)'
  <2>1. j \notin mix.calls
    BY OnlyCall
  <2>2. calls'[b][j] = IdleCall
    BY <1>1, <2>1 DEF ChainInv, InTurn
  <2> QED BY <2>2, IdleInTurn
<1> QED BY <1>2, <1>3 DEF ChainInv

\* A step that writes no row.
LEMMA ChainsKeep ==
    ASSUME SessTypes, Rows, mix \in Mixes, OneAtATime, ChainInv, UNCHANGED <<mix, sessions>>,
           NEW b \in Browser, NEW k \in mix.calls, k \in Call, NEW x, Becomes(b, k, x),
           x.server # "none" => x.client = "waiting",
           x.server = "rotate" => Kept(x.sent),
           x.server # "persist"
    PROVE  ChainInv'
<1>1. calls'[b][k] = x
  BY CallSet DEF Becomes
<1>2. \A s \in Session : Kept(s)' = Kept(s)
  BY DEF Kept, Live, Expired
<1>3. OneLive'
  BY <1>2 DEF ChainInv, OneLive
<1>4. Kept(x.sent) => Kept(x.sent)'
  BY DEF Kept, Live, Expired
<1>5. InTurn(b, k)'
  BY <1>1, <1>4 DEF InTurn
<1> QED BY <1>2, <1>3, <1>5, ChainsOfCall

LEMMA QuietChains ==
    ASSUME SessTypes, Rows, mix \in Mixes, OneAtATime, ChainInv, UNCHANGED mix,
           NEW b \in Browser, NEW k \in mix.calls, k \in Call, QuietStep(b, k)
    PROVE  ChainInv'
<1> DEFINE c == calls[b][k]
<1>0. UNCHANGED sessions /\ InTurn(b, k) /\ Shaped(c)
  BY DEF QuietStep, Denied, SendRefresh, FindSession, Timeout, GiveUp, SignOut, ChainInv, SessTypes
<1>1. CASE Denied(b, k)
  <2>1. c.server = "none"
    BY <1>1 DEF Denied
  <2> QED BY <1>0, <1>1, <2>1, DeniedRow, ChainsKeep DEF KeepsServer
<1>2. CASE SendRefresh(b, k)
  <2> PICK x : /\ Becomes(b, k, x)
               /\ \/ x.server = "none"
                  \/ x.client = "waiting" /\ x.server = "find"
    BY <1>2, SendRefreshRow
  <2> QED BY <1>0, ChainsKeep
<1>3. CASE FindSession(b, k)
  <2> PICK x : /\ Becomes(b, k, x) /\ KeepsClient(c, x)
               /\ x.server = IF Live(x.sent) THEN "rotate" ELSE "refuse"
    BY <1>3, FindSessionRow
  <2>1. c.client = "waiting"
    BY <1>0, <1>3 DEF FindSession, InTurn
  <2> QED BY <1>0, <2>1, ChainsKeep DEF KeepsClient, Kept
<1>4. CASE Timeout(b, k)
  <2>1. c.server = "none"
    BY <1>4 DEF Timeout, GivesUp, OneAtATime
  <2> QED BY <1>0, <1>4, <2>1, TimeoutRow, ChainsKeep DEF KeepsServer
<1>5. CASE GiveUp(b, k)
  <2>1. c.server = "none"
    BY <1>0, <1>5 DEF GiveUp, InTurn
  <2> QED BY <1>0, <1>5, <2>1, GiveUpRow, ChainsKeep DEF KeepsServer
<1>6. CASE SignOut(b, k)
  <2>1. c.server = "none"
    BY <1>0, <1>6 DEF SignOut, InTurn
  <2> QED BY <1>0, <1>6, <2>1, SignOutRow, ChainsKeep DEF KeepsServer
<1> QED BY <1>1, <1>2, <1>3, <1>4, <1>5, <1>6 DEF QuietStep

LEMMA RotateChains ==
    ASSUME SessTypes, Rows, mix \in Mixes, OneAtATime, ChainInv, UNCHANGED mix,
           NEW b \in Browser, NEW k \in mix.calls, k \in Call, Rotate(b, k),
           NEW n \in Session, n = Min(Unused), sessions[n].state = "free"
    PROVE  ChainInv'
<1> DEFINE c == calls[b][k]
<1> PICK x : Becomes(b, k, x) /\ KeepsClient(c, x) /\ x.new = n /\ x.server = "persist"
  BY RotateRow
<1> PICK s \in Session :
        /\ s = calls[b][k].sent /\ s # n /\ Knows(b, s) /\ sessions[s].state # "free"
        /\ sessions'[s].state = "revoked" /\ sessions'[s].root = sessions[s].root
        /\ sessions'[n].state = "named" /\ sessions'[n].root = sessions[s].root
        /\ \A t \in Session : t # s /\ t # n => sessions'[t] = sessions[t]
  BY RotateTable
<1>1. InTurn(b, k) /\ c.server = "rotate" /\ OneLive
  BY DEF Rotate, ChainInv
<1>2. Kept(s) /\ c.client = "waiting"
  BY <1>1 DEF InTurn
<1>3. \A t \in Session : Kept(t)' => Kept(t) /\ t # s /\ t # n /\ sessions'[t].root = sessions[t].root
  BY DEF Kept, Live, Expired
<1>4. OneLive'
  BY <1>1, <1>3 DEF OneLive
<1>5. \A t \in Session : Kept(t)' => sessions'[t].root # sessions'[n].root
  BY <1>1, <1>2, <1>3 DEF OneLive
<1>6. calls'[b][k] = x
  BY CallSet DEF Becomes
<1>7. InTurn(b, k)'
  BY <1>2, <1>5, <1>6 DEF InTurn, KeepsClient
<1> QED BY <1>3, <1>4, <1>7, ChainsOfCall

LEMMA PersistChains ==
    ASSUME SessTypes, Rows, mix \in Mixes, OneAtATime, ChainInv, UNCHANGED mix,
           NEW b \in Browser, NEW k \in mix.calls, k \in Call, PersistSession(b, k)
    PROVE  ChainInv'
<1> DEFINE c == calls[b][k]
<1> PICK x : Becomes(b, k, x) /\ KeepsClient(c, x) /\ x.server = "answer"
  BY PersistRow
<1>1. InTurn(b, k) /\ c.server = "persist" /\ OneLive /\ c \in CallRow /\ Shaped(c)
  BY DEF PersistSession, ChainInv, SessTypes
<1> PICK n \in Session : n = c.new
  BY <1>1 DEF Shaped, CallRow
<1>2. sessions' = [sessions EXCEPT ![n].state = "live"] /\ Knows(b, n)
  BY DEF PersistSession, Knows
<1>3. \A t \in Session : /\ sessions'[t].root = sessions[t].root
                         /\ t # n => sessions'[t] = sessions[t]
  BY <1>2 DEF SessTypes, SessionRow
<1>4. \A t \in Session : Kept(t)' => Kept(t) \/ t = n
  BY <1>3 DEF Kept, Live, Expired
<1>5. \A t \in Session : Kept(t) => sessions[t].root # sessions[n].root
  BY <1>1 DEF InTurn
<1>6. OneLive'
  BY <1>1, <1>3, <1>4, <1>5 DEF OneLive
<1>7. calls'[b][k] = x
  BY CallSet DEF Becomes
<1>8. InTurn(b, k)'
  BY <1>1, <1>7 DEF InTurn, KeepsClient
<1> QED BY <1>2, <1>3, <1>4, <1>6, <1>8, ChainsOfCall

LEMMA BusyChains ==
    ASSUME SessTypes, Rows, mix \in Mixes, OneAtATime, ChainInv, UNCHANGED mix,
           NEW b \in Browser, NEW k \in mix.calls, k \in Call, BusyStep(b, k)
    PROVE  ChainInv'
<1> DEFINE c == calls[b][k]
<1>1. InTurn(b, k) /\ Shaped(c) /\ OneLive
  BY DEF ChainInv, SessTypes
<1>2. CASE Answer(b, k)
  BY <1>2, AnswerRow, ChainsKeep DEF Answer
<1>3. CASE Retry(b, k)
  BY <1>3, RetryRow, ChainsKeep DEF Retry
<1>4. CASE RevokeSession(b, k)
  <2> PICK x : Becomes(b, k, x) /\ KeepsServer(c, x) /\ x.client = c.client
    BY <1>4, RevokeRow
  <2> DEFINE s == c.leaves
  <2>1. c.server = "none"
    BY <1>1, <1>4 DEF RevokeSession, Shaped, InTurn
  <2>2. UNCHANGED sessions \/ (s \in Session /\ sessions' = [sessions EXCEPT ![s].state = "revoked"])
    BY <1>4 DEF RevokeSession, Kept, Live, Expired
  <2>3. Knows(b, s)
    BY DEF Knows
  <2>4. \A t \in Session : /\ sessions'[t].root = sessions[t].root
                           /\ sessions'[t] # sessions[t] => t = s /\ sessions'[t].state = "revoked"
    BY <2>2 DEF SessTypes, SessionRow
  <2>5. \A t \in Session : Kept(t)' => Kept(t)
    BY <2>4 DEF Kept, Live, Expired
  <2>6. OneLive'
    BY <1>1, <2>4, <2>5 DEF OneLive
  <2>7. calls'[b][k] = x
    BY CallSet DEF Becomes
  <2>8. InTurn(b, k)'
    BY <2>1, <2>7 DEF InTurn, KeepsServer
  <2> QED BY <2>3, <2>4, <2>5, <2>6, <2>8, ChainsOfCall
<1> QED BY <1>2, <1>3, <1>4, PersistChains DEF BusyStep

LEMMA RestoreChains ==
    ASSUME SessTypes, Rows, mix \in Mixes, OneAtATime, ChainInv, UNCHANGED mix,
           NEW b \in Browser, NEW k \in mix.calls, k \in Call, Restore(b, k)
    PROVE  ChainInv'
<1> DEFINE x == [IdleCall EXCEPT !.client = "denied", !.restores = TRUE]
<1>1. /\ UNCHANGED sessions
      /\ calls' = [calls EXCEPT ![b] = [j \in Call |-> IF j = k THEN x ELSE Dropped(calls[b][j])]]
  BY DEF Restore
<1>2. x.server = "none"
  BY DEF IdleCall
<1> HIDE DEF x
<1>3. calls'[b][k] = x /\ \A d \in Browser \ {b} : calls'[d] = calls[d]
  BY <1>1 DEF SessTypes
<1>4. ASSUME NEW j \in Call \ {k} PROVE calls'[b][j] = IdleCall
  <2>1. calls[b][j] = IdleCall
    BY OnlyCall DEF ChainInv, InTurn
  <2> QED BY <1>1, <2>1, DroppedIdle DEF SessTypes
<1>5. \A d \in Browser, j \in Call : InTurn(d, j)'
  <2>1. ASSUME NEW d \in Browser \ {b}, NEW j \in Call PROVE InTurn(d, j)'
    BY <1>1, <1>3 DEF ChainInv, InTurn, Kept, Live, Expired
  <2>2. ASSUME NEW j \in Call \ {k} PROVE InTurn(b, j)'
    BY <1>4, IdleInTurn
  <2>3. InTurn(b, k)'
    BY <1>2, <1>3 DEF InTurn
  <2> QED BY <2>1, <2>2, <2>3
<1> QED BY <1>1, <1>5 DEF ChainInv, OneLive, Kept, Live, Expired

LEMMA LeftChains ==
    ASSUME SessTypes, Rows, mix \in Mixes, OneAtATime, ChainInv, UNCHANGED mix,
           NEW b \in Browser, NEW k \in mix.calls, k \in Call, Left(b, k)
    PROVE  ChainInv'
<1> DEFINE c == calls[b][k]
<1>0. Shaped(c) /\ c \in CallRow /\ InTurn(b, k)
  BY DEF SessTypes, ChainInv
<1>1. /\ UNCHANGED sessions
      /\ calls' = [calls EXCEPT ![b] = [j \in Call |->
                     IF j = k \/ c.client = "leaving" THEN Dropped(calls[b][j]) ELSE calls[b][j]]]
  BY DEF Left
<1>2. c.server = "none"
  BY <1>0 DEF Left, InTurn
<1>3. calls'[b][k] = Dropped(c) /\ Dropped(c).server = "none" /\ \A d \in Browser \ {b} : calls'[d] = calls[d]
  BY <1>0, <1>1, <1>2, DroppedRow DEF SessTypes
<1>4. ASSUME NEW j \in Call \ {k} PROVE calls'[b][j] = IdleCall
  <2>1. calls[b][j] = IdleCall
    BY OnlyCall DEF ChainInv, InTurn
  <2>2. calls'[b][j] \in {calls[b][j], Dropped(calls[b][j])}
    BY <1>1 DEF SessTypes
  <2> QED BY <2>1, <2>2, DroppedIdle
<1>5. \A d \in Browser, j \in Call : InTurn(d, j)'
  <2>1. ASSUME NEW d \in Browser \ {b}, NEW j \in Call PROVE InTurn(d, j)'
    BY <1>1, <1>3 DEF ChainInv, InTurn, Kept, Live, Expired
  <2>2. ASSUME NEW j \in Call \ {k} PROVE InTurn(b, j)'
    BY <1>4, IdleInTurn
  <2>3. InTurn(b, k)'
    BY <1>3 DEF InTurn
  <2> QED BY <2>1, <2>2, <2>3
<1> QED BY <1>1, <1>5 DEF ChainInv, OneLive, Kept, Live, Expired

LEMMA IssueChains ==
    ASSUME SessTypes, Rows, mix \in Mixes, OneAtATime, ChainInv, UNCHANGED mix, NEW b \in Browser, IssueSession(b),
           NEW n \in Session, n = Min(Unused), sessions[n].state = "free"
    PROVE  ChainInv'
<1>1. sessions' = [sessions EXCEPT ![n] = [state |-> "live", root |-> n]] /\ UNCHANGED calls
  BY DEF IssueSession
<1>2. sessions'[n].root = n /\ \A t \in Session \ {n} : sessions'[t] = sessions[t]
  BY <1>1 DEF SessTypes
<1>3. \A t \in Session : Kept(t)' => t = n \/ (Kept(t) /\ sessions'[t] = sessions[t])
  BY <1>2 DEF Kept, Live, Expired
<1>4. \A t \in Session : sessions[t].state # "free" => sessions[t].root # n
  BY DEF Rows, Rooted
<1>5. \A t \in Session : Kept(t) => sessions[t].root # n
  BY <1>4 DEF Kept, Live, Expired
<1>6. OneLive'
  BY <1>2, <1>3, <1>5 DEF ChainInv, OneLive
<1>7. ASSUME NEW d \in Browser, NEW j \in Call PROVE InTurn(d, j)'
  <2> DEFINE c == calls[d][j]
  <2>1. InTurn(d, j) /\ Shaped(c) /\ c \in CallRow
    BY DEF ChainInv, SessTypes
  <2>2. Kept(c.sent) => Kept(c.sent)'
    BY <1>1, <1>2 DEF Kept, Live, Expired
  <2>3. ASSUME c.server = "persist", NEW t \in Session, Kept(t)'
        PROVE  sessions'[t].root # sessions'[c.new].root
    <3>1. c.new \in Session /\ sessions[c.new].state # "free"
      BY <2>1, <2>3 DEF Shaped, CallRow, Rows, OwnsNew
    <3>2. sessions'[c.new] = sessions[c.new]
      BY <1>2, <3>1
    <3> QED BY <1>2, <1>3, <1>4, <2>1, <2>3, <3>1, <3>2 DEF InTurn
  <2> QED BY <1>1, <2>1, <2>2, <2>3 DEF InTurn
<1> QED BY <1>6, <1>7 DEF ChainInv

LEMMA DeathChains ==
    ASSUME SessTypes, ChainInv, UNCHANGED mix, ApiDies
    PROVE  ChainInv'
<1>1. UNCHANGED sessions
  BY DEF ApiDies
<1>2. ASSUME NEW d \in Browser, NEW j \in Call PROVE InTurn(d, j)'
  <2>1. calls'[d][j].server = "none" /\ InTurn(d, j)
    BY ApiDiesCalls DEF ChainInv
  <2>2. ASSUME calls[d][j] = IdleCall PROVE calls'[d][j] = IdleCall
    <3> DEFINE x == calls'[d][j]
    <3>1. /\ x \in CallRow /\ Shaped(x) /\ x.server = "none" /\ x.sent = NoSession /\ x.new = NoSession
          /\ x.leaves = IdleCall.leaves /\ x.client = IdleCall.client /\ x.restores = IdleCall.restores
      BY <2>2, ApiDiesCalls
    <3>2. /\ IdleCall.server = "none" /\ IdleCall.sent = NoSession /\ IdleCall.new = NoSession
          /\ IdleCall.client = "idle" /\ IdleCall.out = "none"
      BY DEF IdleCall
    <3>3. x.out = "none"
      BY <3>1, <3>2 DEF Shaped
    <3> QED BY <3>1, <3>2, <3>3, IdleCallRow, SameRow DEF KeepsServer, KeepsClient
  <2> QED BY <2>1, <2>2 DEF InTurn
<1> QED BY <1>1, <1>2 DEF ChainInv, OneLive, Kept, Live, Expired

LEMMA AgeChains ==
    ASSUME SessTypes, ChainInv, UNCHANGED mix, NEW s \in Session, ExpireSession(s)
    PROVE  ChainInv'
<1>1. UNCHANGED calls /\ \A t : Kept(t)' = Kept(t)
  BY Aged DEF Kept, Live, Expired
<1>2. OneLive'
  BY <1>1, Aged DEF ChainInv, OneLive, Kept, Live, Expired
<1>3. ASSUME NEW b \in Browser, NEW k \in Call PROVE InTurn(b, k)'
  <2>1. InTurn(b, k) /\ Shaped(calls[b][k]) /\ calls[b][k] \in CallRow
    BY DEF ChainInv, SessTypes
  <2>2. calls[b][k].server = "persist" => calls[b][k].new \in Session
    BY <2>1 DEF Shaped, CallRow
  <2> QED BY <1>1, <2>1, <2>2, Aged DEF InTurn
<1> QED BY <1>2, <1>3 DEF ChainInv

LEMMA NextChains == IInv /\ SessInv /\ (OneAtATime => ChainInv) /\ [Next]_vars => (OneAtATime => ChainInv)'
<1> SUFFICES ASSUME IInv, SessInv, OneAtATime, ChainInv, [Next]_vars PROVE ChainInv'
  BY DEF OneAtATime, Next, vars
<1>0. /\ mix.browsers \subseteq Browser /\ mix.calls \subseteq Call /\ UNCHANGED mix
      /\ mix \in Mixes
  BY UsersAssumption, SessionsAssumption DEF IInv, Next, vars
<1> USE DEF SessInv
<1>1. CASE UNCHANGED <<sessions, calls>>
  BY <1>0, <1>1 DEF ChainInv, OneLive, InTurn, Kept, Live, Expired
<1>2. ASSUME NEW b \in mix.browsers, IssueSession(b) PROVE ChainInv'
  <2>1. Min(Unused) \in Session /\ sessions[Min(Unused)].state = "free"
    BY <1>2, RoomForIssue, NextRow DEF IssueSession
  <2> QED BY <1>0, <1>2, <2>1, IssueChains
<1>3. ASSUME NEW b \in mix.browsers, NEW k \in mix.calls, Rotate(b, k) PROVE ChainInv'
  <2>1. Min(Unused) \in Session /\ sessions[Min(Unused)].state = "free"
    BY <1>0, <1>3, RowForRotation, NextRow DEF Rotate
  <2> QED BY <1>0, <1>3, <2>1, RotateChains
<1>4. ASSUME NEW b \in mix.browsers, NEW k \in mix.calls, QuietStep(b, k) PROVE ChainInv'
  BY <1>0, <1>4, QuietChains
<1>5. ASSUME NEW b \in mix.browsers, NEW k \in mix.calls, BusyStep(b, k) PROVE ChainInv'
  BY <1>0, <1>5, BusyChains
<1>6. ASSUME NEW b \in mix.browsers, NEW k \in mix.calls, Restore(b, k) \/ Left(b, k) PROVE ChainInv'
  BY <1>0, <1>6, RestoreChains, LeftChains
<1>7. ASSUME NEW b \in mix.browsers, ExpireAccess(b) PROVE ChainInv'
  BY <1>1, <1>7 DEF ExpireAccess
<1>8. ASSUME ApiDies PROVE ChainInv'
  BY <1>0, <1>8, DeathChains
<1>9. ASSUME NEW s \in Session, ExpireSession(s) PROVE ChainInv'
  BY <1>0, <1>9, AgeChains
<1> QED BY <1>1, <1>2, <1>3, <1>4, <1>5, <1>6, <1>7, <1>8, <1>9
        DEF Next, CallStep, QuietStep, BusyStep, vars, sessionVars

\* For any number of browsers, also when the process dies between the two writes of a
\* rotation: as long as a page makes one call at a time and waits for its answer, a chain of
\* rotations has one session at most that is not revoked (refreshSession, issueSessionTokens).
THEOREM OneLiveSession == Spec => []OneLivePerChain
<1>1. ASSUME OneAtATime => ChainInv PROVE OneLivePerChain
  BY <1>1 DEF OneAtATime, ChainInv, OneLive, OneLivePerChain
<1>2. Init => IInv /\ SessInv /\ (OneAtATime => ChainInv)
  BY InitInductive, InitSessions, InitChains
<1>3. /\ (IInv /\ SessInv /\ (OneAtATime => ChainInv)) /\ [Next]_vars
      => (IInv /\ SessInv /\ (OneAtATime => ChainInv))'
  BY NextInductive, NextSessions, NextChains
<1> QED BY <1>1, <1>2, <1>3, PTL DEF Spec
----------------------------------------------------------------------------
(* Two sign-ins at a time: the lock and the state of an account *)

\* What LockComesWithBlock asks of the mix.
TwoAtATime == mix.clerks = {} /\ Cardinality(mix.browsers) <= 2

\* A row that is locked, or has the last permitted count, is blocked.
Sound(row) == row.lockedUntil # NoLock \/ row.failedAttempts = MaxAttempts => row.estado # "ACTIVO"

Inside == {"compare", "find", "save", "write"}
Within(b, u) == login[b].u = u /\ login[b].pc \in Inside

\* What b holds of accounts is sound, and while the account it is going to update is not
\* active nobody else writes to it.
HeldSound(b) ==
    /\ Sound(login[b].ent) /\ Sound(login[b].db)
    /\ login[b].pc \notin {"unlock", "clear"}
    /\ b \notin mix.browsers => login[b].pc = "idle"
    /\ login[b].pc = "write" /\ login[b].db.estado # "ACTIVO" => users[login[b].u] = login[b].db

\* Who has blocked an account is out, and nobody comes in any more.
Alone == \A u \in User, b, d \in Browser :
    users[u].estado # "ACTIVO" /\ Within(b, u) /\ Within(d, u) => b = d

LockInv ==
    /\ \A u \in User : Sound(users[u])
    /\ \A b \in Browser : HeldSound(b)
    /\ Alone

LEMMA SoundNewUser == Sound(NewUser) /\ IdleLogin.pc = "idle" /\ IdleLogin.ent = NewUser /\ IdleLogin.db = NewUser
BY UsersAssumption DEF Sound, NewUser, NoLock, IdleLogin

\* A set of at most two browsers.
LEMMA TwoBrowsers ==
    ASSUME mix \in Mixes, Cardinality(mix.browsers) <= 2, mix.browsers # {}
    PROVE  \E x, y \in Browser : mix.browsers \subseteq {x, y}
<1>1. mix.browsers \subseteq Browser /\ IsFiniteSet(mix.browsers) /\ Cardinality(mix.browsers) \in Nat
  BY UsersAssumption, FS_Subset, FS_CardinalityType
<1>2. PICK x \in mix.browsers : TRUE
  OBVIOUS
<1> DEFINE rest == mix.browsers \ {x}
<1>3. IsFiniteSet(rest) /\ Cardinality(rest) = Cardinality(mix.browsers) - 1
  BY <1>1, FS_RemoveElement
<1>4. Cardinality(rest) = 0 \/ Cardinality(rest) = 1
  BY <1>1, <1>3, FS_CardinalityType
<1>5. CASE Cardinality(rest) = 0
  <2>1. rest = {}
    BY <1>3, <1>5, FS_EmptySet
  <2> QED BY <1>1, <2>1
<1>6. CASE Cardinality(rest) = 1
  <2>1. PICK y : rest = {y}
    BY <1>3, <1>6, FS_Singleton
  <2> QED BY <1>1, <2>1
<1> QED BY <1>4, <1>5, <1>6

\* What a failed attempt makes of a row it has read.
LEMMA FailedSound ==
    ASSUME NEW row \in UserRow, NEW time \in 1..MaxLocks, Sound(row)
    PROVE  LET new == AfterFailure(row, time) IN
           /\ Sound(new)
           /\ new.failedAttempts = IF row.failedAttempts = MaxAttempts THEN MaxAttempts
                                   ELSE row.failedAttempts + 1
<1> DEFINE c == row.failedAttempts
<1>1. c \in Nat /\ c <= MaxAttempts /\ MaxAttempts \in Nat
  BY UsersAssumption DEF UserRow
<1>2. CASE c + 1 >= MaxAttempts
  BY <1>1, <1>2 DEF AfterFailure, AtLimit, Sound
<1>3. CASE c + 1 < MaxAttempts
  <2>1. Min({c + 1, MaxAttempts}) = c + 1
    BY <1>1, <1>3, OneMore
  <2> DEFINE new == [row EXCEPT !.failedAttempts = c + 1]
  <2>2. AfterFailure(row, time) = new
    BY <1>1, <1>3, <2>1 DEF AfterFailure, AtLimit
  <2>3. new.failedAttempts = c + 1 /\ new.estado = row.estado /\ new.lockedUntil = row.lockedUntil
    BY DEF UserRow
  <2> HIDE DEF new
  <2> QED BY <1>1, <1>3, <2>2, <2>3 DEF Sound
<1> QED BY <1>1, <1>2, <1>3

\* A partial UPDATE: of an active row it writes all that is new about a block, and over a
\* blocked one it writes the whole entity.
LEMMA UpdatedSound ==
    ASSUME NEW row \in UserRow, NEW ent \in UserRow, NEW db \in UserRow,
           Sound(row), Sound(ent), Sound(db), db.estado # "ACTIVO" => row = db
    PROVE  Sound(Updated(row, ent, db))
<1> DEFINE new == Updated(row, ent, db)
<1>1. /\ new.estado = IF ent.estado = db.estado THEN row.estado ELSE ent.estado
      /\ new.failedAttempts = IF ent.failedAttempts = db.failedAttempts THEN row.failedAttempts
                              ELSE ent.failedAttempts
      /\ new.lockedUntil = IF ent.lockedUntil = db.lockedUntil THEN row.lockedUntil
                           ELSE ent.lockedUntil
  BY UpdatedRow
<1>0. SUFFICES Sound(new)
  OBVIOUS
<1> HIDE DEF new
<1>2. CASE db.estado # "ACTIVO"
  <2>1. /\ new.estado = ent.estado /\ new.failedAttempts = ent.failedAttempts
        /\ new.lockedUntil = ent.lockedUntil
    BY <1>1, <1>2
  <2> QED BY <2>1 DEF Sound
<1>3. CASE db.estado = "ACTIVO" /\ ent.estado # "ACTIVO"
  <2>1. new.estado = ent.estado
    BY <1>1, <1>3
  <2> QED BY <1>3, <2>1 DEF Sound
<1>4. CASE db.estado = "ACTIVO" /\ ent.estado = "ACTIVO"
  <2>1. /\ new.estado = row.estado
        /\ new.failedAttempts \in {row.failedAttempts, ent.failedAttempts}
        /\ new.lockedUntil \in {row.lockedUntil, ent.lockedUntil}
    BY <1>1, <1>4
  <2>2. ent.lockedUntil = NoLock /\ ent.failedAttempts # MaxAttempts
    BY <1>4 DEF Sound
  <2> QED BY <2>1, <2>2 DEF Sound
<1> QED BY <1>2, <1>3, <1>4

LEMMA InitLocks == Init => LockInv
<1> SUFFICES ASSUME Init PROVE LockInv
  OBVIOUS
<1>1. /\ \A u \in User : users[u] = NewUser
      /\ \A b \in Browser : login[b] = IdleLogin
  BY DEF Init, UsersInit
<1> QED BY <1>1, SoundNewUser DEF LockInv, HeldSound, Alone, Within, Inside

\* A step of a sign-in that writes no row.
LEMMA LockReads ==
    ASSUME IInv, LockInv, UNCHANGED <<mix, users>>,
           NEW b \in mix.browsers, b \in Browser, NEW x, login' = [login EXCEPT ![b] = x],
           Sound(x.ent), Sound(x.db), x.pc \notin {"unlock", "clear"},
           \A u \in User : x.u = u /\ x.pc \in Inside => Within(b, u) \/ users[u].estado = "ACTIVO",
           x.pc = "write" /\ x.db.estado # "ACTIVO" => users[x.u] = x.db
    PROVE  LockInv'
<1>1. login'[b] = x /\ \A d \in Browser \ {b} : login'[d] = login[d]
  BY DEF IInv, UsersTypeOK
<1>2. \A d \in Browser : HeldSound(d)'
  BY <1>1 DEF LockInv, HeldSound
<1>3. \A u \in User, d \in Browser : users[u].estado # "ACTIVO" /\ Within(d, u)' => Within(d, u)
  BY <1>1 DEF Within
<1> QED BY <1>2, <1>3 DEF LockInv, Alone

\* A sign-in that writes its row is out of the account.
LEMMA LockWrites ==
    ASSUME IInv, TwoAtATime, LockInv, UNCHANGED mix,
           NEW b \in mix.browsers, b \in Browser, NEW v \in User, Within(b, v),
           NEW row, Sound(row), users' = [users EXCEPT ![v] = row],
           NEW x, login' = [login EXCEPT ![b] = x], Sound(x.ent), Sound(x.db), x.pc \in {"idle", "issue"}
    PROVE  LockInv'
<1>1. login'[b] = x /\ \A d \in Browser \ {b} : login'[d] = login[d]
  BY DEF IInv, UsersTypeOK
<1>2. \A u \in User : users'[u] = IF u = v THEN row ELSE users[u]
  BY DEF IInv, UsersTypeOK
<1>3. ASSUME NEW d \in Browser PROVE HeldSound(d)'
  <2>1. CASE d = b
    BY <1>1, <2>1 DEF HeldSound
  <2>2. CASE d # b
    <3>1. HeldSound(d) /\ login'[d] = login[d]
      BY <1>1, <2>2 DEF LockInv
    <3>2. ASSUME login[d].pc = "write", login[d].db.estado # "ACTIVO"
          PROVE  users'[login[d].u] = login[d].db
      <4>1. users[login[d].u] = login[d].db /\ login[d].u \in User
        BY <3>1, <3>2 DEF HeldSound, IInv, UsersTypeOK
      <4>2. login[d].u # v
        BY <2>2, <3>2, <4>1 DEF LockInv, Alone, Within, Inside
      <4> QED BY <1>2, <4>1, <4>2
    <3> QED BY <3>1, <3>2 DEF HeldSound
  <2> QED BY <2>1, <2>2
<1>4. ASSUME NEW u \in User, NEW c \in Browser, NEW d \in Browser,
             users'[u].estado # "ACTIVO", Within(c, u)', Within(d, u)'
      PROVE  c = d
  <2>1. c # b /\ d # b /\ Within(c, u) /\ Within(d, u)
    BY <1>1, <1>4 DEF Within, Inside
  <2>2. c \in mix.browsers /\ d \in mix.browsers
    BY <2>1 DEF LockInv, HeldSound, Within, Inside
  <2>3. \E y, z \in Browser : mix.browsers \subseteq {y, z}
    BY TwoBrowsers DEF TwoAtATime, IInv
  <2> QED BY <2>1, <2>2, <2>3
<1>5. \A u \in User : Sound(users'[u])
  BY <1>2 DEF LockInv
<1> QED BY <1>3, <1>4, <1>5 DEF LockInv, Alone, Sound

LEMMA SignInLocks ==
    ASSUME IInv, IInv', TwoAtATime, LockInv, UNCHANGED mix, NEW b \in mix.browsers, SignIn(b)
    PROVE  LockInv'
<1> DEFINE r == login[b]
<1>0. /\ b \in Browser /\ mix.users \subseteq User /\ users \in [User -> UserRow] /\ r \in LoginRow
      /\ r.ent \in UserRow /\ r.db \in UserRow /\ (r.pc # "idle" => r.u \in User)
      /\ \A u \in User : Sound(users[u])
      /\ HeldSound(b)
  BY UsersAssumption DEF IInv, UsersTypeOK, LoginRow, LockInv
<1>1. ASSUME NEW v \in mix.users, ValidateForLogin(b, v) PROVE LockInv'
  <2> DEFINE x == [IdleLogin EXCEPT !.pc = "compare", !.u = v]
  <2>1. users[v].estado = "ACTIVO" /\ users[v].lockedUntil = NoLock /\ UNCHANGED users
    BY <1>0, <1>1 DEF ValidateForLogin, MayTry, Sound, accounts
  <2>2. login' = [login EXCEPT ![b] = x] /\ x.pc = "compare" /\ x.u = v /\ x.ent = NewUser /\ x.db = NewUser
    BY <1>1, <2>1 DEF ValidateForLogin, SetLogin, IdleLogin
  <2> HIDE DEF x
  <2> QED BY <1>0, <2>1, <2>2, SoundNewUser, LockReads
<1>2. ASSUME WrongPassword(b) PROVE LockInv'
  <2> DEFINE x == [r EXCEPT !.pc = "find"]
  <2>1. r.pc = "compare" /\ login' = [login EXCEPT ![b] = x] /\ UNCHANGED users
    BY <1>2 DEF WrongPassword, LoginAt, SetLogin, accounts
  <2>2. x.pc = "find" /\ x.u = r.u /\ x.ent = r.ent /\ x.db = r.db
    BY <1>0 DEF LoginRow
  <2> HIDE DEF x
  <2>3. \A u \in User : x.u = u => Within(b, u)
    BY <2>1, <2>2 DEF Within, Inside
  <2> QED BY <1>0, <2>1, <2>2, <2>3, LockReads DEF HeldSound
<1>3. ASSUME FindFailing(b) PROVE LockInv'
  <2> DEFINE t == CHOOSE t \in 1..MaxLocks : Fresh(t)
             row == AfterFailure(users[r.u], t)
             x == [r EXCEPT !.pc = "save", !.ent = row]
  <2>1. t \in 1..MaxLocks /\ r.pc = "find" /\ login' = [login EXCEPT ![b] = x] /\ UNCHANGED users
    BY <1>3, LockTime DEF FindFailing, SetLogin, accounts
  <2> HIDE DEF t
  <2>2. Sound(row)
    BY <1>0, <2>1, FailedSound
  <2> HIDE DEF row
  <2>3. x.pc = "save" /\ x.u = r.u /\ x.ent = row /\ x.db = r.db
    BY <1>0 DEF LoginRow
  <2> HIDE DEF x
  <2>4. \A u \in User : x.u = u => Within(b, u)
    BY <2>1, <2>3 DEF Within, Inside
  <2> QED BY <1>0, <2>1, <2>2, <2>3, <2>4, LockReads DEF HeldSound
<1>4. ASSUME ReloadLogin(b) PROVE LockInv'
  <2> DEFINE x == [r EXCEPT !.pc = "write", !.db = users[r.u]]
  <2>1. r.pc = "save" /\ login' = [login EXCEPT ![b] = x] /\ UNCHANGED users
    BY <1>0, <1>4 DEF ReloadLogin, SetLogin, accounts, HeldSound
  <2>2. x.pc = "write" /\ x.u = r.u /\ x.ent = r.ent /\ x.db = users[r.u] /\ Sound(x.db)
    BY <1>0, <2>1 DEF LoginRow
  <2> HIDE DEF x
  <2>3. \A u \in User : x.u = u => Within(b, u)
    BY <2>1, <2>2 DEF Within, Inside
  <2> QED BY <1>0, <2>1, <2>2, <2>3, LockReads DEF HeldSound
<1>5. ASSUME SaveLogin(b) PROVE LockInv'
  <2> DEFINE row == Updated(users[r.u], r.ent, r.db)
  <2>1. r.pc = "write" /\ r.u \in User /\ login' = [login EXCEPT ![b] = IdleLogin] /\ Within(b, r.u)
    BY <1>0, <1>5 DEF SaveLogin, SetLogin, HeldSound, Within, Inside
  <2>2. users' = [users EXCEPT ![r.u] = row]
    BY <1>0, <1>5, <2>1 DEF SaveLogin
  <2>3. Sound(row)
    BY <1>0, <2>1, UpdatedSound DEF HeldSound
  <2> HIDE DEF row
  <2> QED BY <1>0, <2>1, <2>2, <2>3, SoundNewUser, LockWrites
<1>6. ASSUME RegisterSuccess(b) PROVE LockInv'
  <2> DEFINE v == r.u  x == [r EXCEPT !.pc = "issue"]
             row == [users[v] EXCEPT !.failedAttempts = 0, !.lockedUntil = NoLock]
  <2>1. r.pc = "compare" /\ v \in User /\ login' = [login EXCEPT ![b] = x] /\ Within(b, v)
    BY <1>0, <1>6 DEF RegisterSuccess, LoginAt, SetLogin, Within, Inside
  <2>2. users' = [users EXCEPT ![v] = row]
    BY <1>0, <1>6, <2>1 DEF RegisterSuccess, UserRow
  <2>3. x.pc = "issue" /\ x.ent = r.ent /\ x.db = r.db
    BY <1>0 DEF LoginRow
  <2>4. row.failedAttempts = 0 /\ row.lockedUntil = NoLock
    BY <1>0, <2>1, ResetRow
  <2> HIDE DEF x, row
  <2>5. Sound(row)
    BY <2>4, UsersAssumption DEF Sound
  <2> QED BY <1>0, <2>1, <2>2, <2>3, <2>5, LockWrites DEF HeldSound
<1> QED BY <1>1, <1>2, <1>3, <1>4, <1>5, <1>6 DEF SignIn

LEMMA NextLocks == IInv /\ (TwoAtATime => LockInv) /\ [Next]_vars => (TwoAtATime => LockInv)'
<1> SUFFICES ASSUME IInv, TwoAtATime, LockInv, [Next]_vars PROVE LockInv'
  BY DEF TwoAtATime, Next, vars
<1>0. /\ mix.browsers \subseteq Browser /\ mix.calls \subseteq Call /\ mix \in Mixes /\ UNCHANGED mix /\ IInv'
  BY UsersAssumption, SessionsAssumption, NextInductive DEF IInv, Next, vars
<1>1. ASSUME UNCHANGED <<users, login>> PROVE LockInv'
  BY <1>0, <1>1 DEF LockInv, HeldSound, Alone, Within, Sound
<1>2. CASE UNCHANGED vars
  BY <1>1, <1>2 DEF vars, usersVars
<1>3. ASSUME NEW b \in mix.browsers, NEW k \in mix.calls,
             Denied(b, k) \/ Restore(b, k) \/ SignOut(b, k) \/ CallStep(b, k)
      PROVE  LockInv'
  BY <1>0, <1>1, <1>3, SessionsKeepAccounts DEF usersVars
<1>4. ASSUME NEW b \in mix.browsers, ExpireAccess(b) PROVE LockInv'
  BY <1>1, <1>4 DEF ExpireAccess, usersVars
<1>5. ASSUME NEW b \in mix.browsers, IssueSession(b) PROVE LockInv'
  <2>1. login' = [login EXCEPT ![b] = IdleLogin] /\ UNCHANGED users /\ b \in Browser
    BY <1>0, <1>5 DEF IssueSession, SetLogin, accounts
  <2> QED BY <1>0, <2>1, SoundNewUser, LockReads DEF Inside
<1>6. ASSUME NEW s \in Session, ExpireSession(s) PROVE LockInv'
  BY <1>1, <1>6 DEF ExpireSession, usersVars
<1>7. ASSUME ApiDies PROVE LockInv'
  <2>1. \A b \in Browser : login'[b] = login[b] \/ login'[b] = IdleLogin
    BY <1>7 DEF ApiDies
  <2>2. UNCHANGED users
    BY <1>7 DEF ApiDies, accounts
  <2>3. \A b \in Browser : HeldSound(b)'
    BY <1>0, <2>1, <2>2, SoundNewUser DEF LockInv, HeldSound
  <2>4. \A b \in Browser, u \in User : Within(b, u)' => Within(b, u)
    BY <2>1, SoundNewUser DEF Within, Inside
  <2> QED BY <2>2, <2>3, <2>4 DEF LockInv, Alone, Sound
<1>8. ~Administration
  BY DEF Administration, TwoAtATime
<1> QED BY <1>0, <1>2, <1>3, <1>4, <1>5, <1>6, <1>7, <1>8, SignInLocks DEF Next

\* For any number of users and of permitted attempts, also when the process dies: while no
\* administrator edits accounts, the interleaved reads, reloads and partial updates of two
\* sign-ins never leave the time of a lock on an active account (registerFailedAttempt,
\* validateForLogin).
THEOREM LockIsABlock == Spec => []LockComesWithBlock
<1>1. ASSUME TwoAtATime => LockInv PROVE LockComesWithBlock
  BY <1>1 DEF TwoAtATime, LockInv, Sound, LockComesWithBlock
<1>2. Init => IInv /\ (TwoAtATime => LockInv)
  BY InitInductive, InitLocks
<1>3. (IInv /\ (TwoAtATime => LockInv)) /\ [Next]_vars => (IInv /\ (TwoAtATime => LockInv))'
  BY NextInductive, NextLocks
<1> QED BY <1>1, <1>2, <1>3, PTL DEF Spec
----------------------------------------------------------------------------
(* Wrong passwords *)

\* What WrongPasswordsEnd asks of the mix.
Undisturbed == mix.clerks = {} /\ mix.faults = 0 /\ Cardinality(mix.browsers) <= 2

\* Twice the wrong passwords that a count of c can stand for: each round from one count to
\* the next costs one more than what two sign-ins can undo.
Worth(c) == c * (2 * MaxAttempts + 3 - c)

Count == 0..MaxAttempts

Places == {"idle", "compare", "find", "save"}

Owed(p) == IF p \in {"find", "save"} THEN 2 ELSE 0
Comparing(p) == IF p = "compare" THEN 2 ELSE 0

\* A sign-in is going to write a count that is not higher than the account's.
Stale(p, c, f) == p = "save" /\ c < f

\* Sign-in p, with count c, is going to undo what came after its reading; q is the other one.
Undoes(p, c, q, d, f, w) ==
    Stale(p, c, f) =>
        /\ 2 * w <= Worth(c) + 2 + 2 * (f - c) + Owed(q)
        /\ q = "save" => d = f
        /\ f = MaxAttempts => q = "idle"

\* Two sign-ins on one account, whose count is f after w wrong passwords.
Pair(p, c, q, d, f, w) ==
    /\ ~Stale(p, c, f) /\ ~Stale(q, d, f) =>
         /\ 2 * w <= Worth(f) + Owed(p) + Owed(q)
         /\ f = MaxAttempts => 2 * w + Comparing(p) + Comparing(q) <= Worth(f)
    /\ Undoes(p, c, q, d, f, w) /\ Undoes(q, d, p, c, f, w)

LEMMA WorthStep ==
    ASSUME NEW c \in Count, c # MaxAttempts
    PROVE  Worth(c + 1) = Worth(c) + 2 * (MaxAttempts - c) + 2
<1> PICK m \in Nat : m = MaxAttempts
  BY UsersAssumption
<1>1. c \in Nat
  BY DEF Count
<1>2. (c + 1) * (2 * m + 3 - (c + 1)) = c * (2 * m + 3 - c) + 2 * (m - c) + 2
  BY <1>1
<1> QED BY <1>2 DEF Worth

LEMMA WorthType ==
    ASSUME NEW c \in Count
    PROVE  Worth(c) \in Nat
<1> PICK m \in Nat : m = MaxAttempts
  BY UsersAssumption
<1>1. c \in Nat /\ c <= m
  BY DEF Count
<1>2. 2 * m + 3 - c \in Nat
  BY <1>1
<1>3. \A n \in Nat : c * n \in Nat
  BY <1>1
<1> QED BY <1>2, <1>3 DEF Worth

LEMMA WorthGrows ==
    ASSUME NEW c \in Count, NEW d \in Count, c < d
    PROVE  Worth(c) + 4 <= Worth(d)
<1> PICK m \in Nat : m = MaxAttempts
  BY UsersAssumption
<1>1. c \in Nat /\ d \in Nat /\ d <= m
  BY DEF Count
<1> DEFINE i == d - c - 1  j == 2 * m + 3 - c - d - 4
<1>2. i \in Nat /\ j \in Nat /\ d - c = i + 1 /\ 2 * m + 3 - c - d = j + 4
  BY <1>1
<1>3. d * (2 * m + 3 - d) = c * (2 * m + 3 - c) + (d - c) * (2 * m + 3 - c - d)
  BY <1>1
<1> HIDE DEF i, j
<1>4. \A a, e \in Nat : (a + 1) * (e + 4) = a * e + 4 * a + e + 4 /\ a * e \in Nat
  OBVIOUS
<1>5. (d - c) * (2 * m + 3 - c - d) >= 4 /\ (d - c) * (2 * m + 3 - c - d) \in Int
  BY <1>2, <1>4
<1>6. Worth(c) \in Nat /\ Worth(d) \in Nat
  BY WorthType
<1> QED BY <1>3, <1>5, <1>6 DEF Worth

LEMMA PairSym ==
    ASSUME NEW p, NEW c \in Count, NEW q, NEW d \in Count, NEW f \in Count, NEW w \in Nat,
           Pair(p, c, q, d, f, w)
    PROVE  Pair(q, d, p, c, f, w)
<1>1. Worth(f) \in Nat
  BY WorthType
<1>2. Owed(p) \in Nat /\ Owed(q) \in Nat /\ Comparing(p) \in Nat /\ Comparing(q) \in Nat
  BY DEF Owed, Comparing
<1>3. /\ Worth(f) + Owed(p) + Owed(q) = Worth(f) + Owed(q) + Owed(p)
      /\ 2 * w + Comparing(p) + Comparing(q) = 2 * w + Comparing(q) + Comparing(p)
  BY <1>1, <1>2
<1> QED BY <1>3 DEF Pair

LEMMA PairBegins ==
    ASSUME NEW c \in Count, NEW e \in Count, NEW q \in Places, NEW d \in Count, NEW f \in Count,
           NEW w \in Nat, Pair("idle", c, q, d, f, w)
    PROVE  /\ Pair("idle", e, q, d, f, w)
           /\ f # MaxAttempts => Pair("compare", e, q, d, f, w)
BY WorthType DEF Pair, Undoes, Stale, Owed, Comparing, Count

LEMMA PairWrong ==
    ASSUME NEW c \in Count, NEW q \in Places, NEW d \in Count, NEW f \in Count,
           NEW w \in Nat, NEW v \in Nat, v <= w + 1, Pair("compare", c, q, d, f, w)
    PROVE  Pair("find", c, q, d, f, v)
BY WorthType, UsersAssumption DEF Pair, Undoes, Stale, Owed, Comparing, Count, Places

LEMMA PairFinds ==
    ASSUME NEW c \in Count, NEW e \in Count, NEW q \in Places, NEW d \in Count, NEW f \in Count,
           NEW w \in Nat, Pair("find", c, q, d, f, w),
           f # MaxAttempts => e = f, f = MaxAttempts => e + 1 = f /\ q = "idle"
    PROVE  Pair("save", e, q, d, f, w)
<1> PICK m \in Nat \ {0} : m = MaxAttempts
  BY UsersAssumption
<1>1. Worth(f) \in Nat /\ Worth(e) \in Nat
  BY WorthType
<1>2. CASE f # MaxAttempts
  BY <1>1, <1>2 DEF Pair, Undoes, Stale, Owed, Comparing, Count, Places
<1>3. CASE f = MaxAttempts
  <2>1. q = "idle" /\ e + 1 = m /\ f = m /\ e < f
    BY <1>3 DEF Count
  <2>2. Worth(f) = Worth(e) + 4
    <3>1. Worth(e + 1) = Worth(e) + 2 * (m - e) + 2
      BY <2>1, WorthStep
    <3> QED BY <1>1, <2>1, <3>1 DEF Count
  <2>3. 2 * w <= Worth(f)
    BY <1>1, <2>1 DEF Pair, Stale, Owed, Comparing
  <2>4. ~Stale(q, d, f) /\ Stale("save", e, f) /\ Owed(q) = 0
    BY <2>1 DEF Stale, Owed
  <2>5. 2 * w <= Worth(e) + 2 + 2 * (f - e) + Owed(q)
    BY <1>1, <2>1, <2>2, <2>3, <2>4 DEF Count
  <2> QED BY <2>1, <2>4, <2>5 DEF Pair, Undoes
<1> QED BY <1>2, <1>3

\* The reloaded row has the count that the save was going to write.
LEMMA PairKeeps ==
    ASSUME NEW c \in Count, NEW e \in Count, NEW q \in Places, NEW d \in Count, NEW f \in Count,
           NEW w \in Nat, Pair("save", c, q, d, f, w), f = c + 1
    PROVE  Pair("idle", e, q, d, f, w)
<1>1. Worth(c) \in Nat /\ Worth(f) \in Nat /\ Worth(c) + 4 <= Worth(f)
  BY WorthType, WorthGrows DEF Count
<1>2. c \in Nat /\ f \in Nat /\ Stale("save", c, f)
  BY DEF Count, Stale
<1>3. /\ 2 * w <= Worth(c) + 2 + 2 * (f - c) + Owed(q)
      /\ q = "save" => d = f
      /\ f = MaxAttempts => q = "idle"
  BY <1>2 DEF Pair, Undoes
<1>4. ~Stale("idle", e, f) /\ ~Stale(q, d, f)
  BY <1>3 DEF Stale, Count
<1>5. Owed(q) \in Nat /\ Owed("idle") = 0 /\ Comparing("idle") = 0
  BY DEF Owed, Comparing
<1>6. 2 * w <= Worth(f) + Owed("idle") + Owed(q)
  BY <1>1, <1>2, <1>3, <1>5
<1>7. f = MaxAttempts => 2 * w + Comparing("idle") + Comparing(q) <= Worth(f)
  BY <1>1, <1>2, <1>3, <1>5, <1>6 DEF Owed, Comparing
<1> QED BY <1>4, <1>6, <1>7 DEF Pair, Undoes

LEMMA PairSaves ==
    ASSUME NEW c \in Count, NEW e \in Count, NEW q \in Places, NEW d \in Count, NEW f \in Count,
           NEW w \in Nat, NEW g \in Count, g = c + 1,
           Pair("save", c, q, d, f, w)
    PROVE  Pair("idle", e, q, d, g, w)
<1> PICK m \in Nat \ {0} : m = MaxAttempts
  BY UsersAssumption
<1>0. /\ c \in Nat /\ d \in Nat /\ e \in Nat /\ f \in Nat /\ g \in Nat
      /\ c <= m /\ d <= m /\ f <= m /\ g <= m
  BY DEF Count
<1>1. Worth(c) \in Nat /\ Worth(d) \in Nat /\ Worth(f) \in Nat /\ Worth(g) \in Nat
  BY WorthType
<1>2. f < g => Worth(f) + 4 <= Worth(g)
  BY WorthGrows
<1>3. f < d => Worth(f) + 4 <= Worth(d)
  BY WorthGrows
<1>4. Owed(q) + Comparing(q) <= 2 /\ Owed(q) \in {0, 2} /\ Comparing(q) \in {0, 2}
  BY DEF Owed, Comparing
<1>5. Owed("idle") = 0 /\ Comparing("idle") = 0 /\ Owed("save") = 2 /\ Comparing("save") = 0
  BY DEF Owed, Comparing
<1>6. q = "save" => Owed(q) = 2
  BY DEF Owed
<1>7. CASE Stale("save", c, f)
  <2>1. /\ c < f /\ 2 * w <= Worth(c) + 2 + 2 * (f - c) + Owed(q)
        /\ q = "save" => d = f
        /\ f = m => q = "idle"
    BY <1>7 DEF Pair, Undoes, Stale
  <2>2. g = c + 1 /\ Worth(g) = Worth(c) + 2 * (m - c) + 2
    BY <1>0, <2>1, WorthStep
  <2>3. ~Stale("idle", e, g) /\ ~Stale(q, d, g)
    BY <1>0, <2>1, <2>2 DEF Stale
  <2>4. 2 * w <= Worth(g) + Owed("idle") + Owed(q)
    BY <1>0, <1>1, <1>4, <1>5, <2>1, <2>2
  <2>5. g = m => 2 * w + Comparing("idle") + Comparing(q) <= Worth(g)
    <3>1. g = m => f = m /\ q = "idle"
      BY <1>0, <2>1, <2>2
    <3> QED BY <1>0, <1>1, <1>5, <2>1, <2>2, <3>1
  <2> QED BY <2>3, <2>4, <2>5 DEF Pair, Undoes
<1>8. CASE ~Stale("save", c, f) /\ Stale(q, d, f)
  <2>1. /\ q = "save" /\ d < f /\ 2 * w <= Worth(d) + 2 + 2 * (f - d) + 2
        /\ c = f /\ f # m
    BY <1>5, <1>8 DEF Pair, Undoes, Stale
  <2>2. g = f + 1
    BY <2>1
  <2>3. 2 * w <= Worth(d) + 2 + 2 * (g - d) + Owed("idle")
    BY <1>0, <1>1, <1>5, <2>1, <2>2
  <2>4. Stale(q, d, g) /\ ~Stale("idle", e, g)
    BY <1>0, <2>1, <2>2 DEF Stale
  <2> QED BY <2>3, <2>4 DEF Pair, Undoes
<1>9. CASE ~Stale("save", c, f) /\ ~Stale(q, d, f)
  <2>1. /\ f <= c /\ (q = "save" => f <= d)
        /\ 2 * w <= Worth(f) + 2 + Owed(q)
        /\ f = m => 2 * w + Comparing(q) <= Worth(f)
    BY <1>0, <1>1, <1>4, <1>5, <1>9 DEF Pair, Stale
  <2>2. f < g \/ (f = m /\ g = m)
    BY <1>0, <2>1
  <2>3. CASE Stale(q, d, g)
    <3>1. q = "save" /\ d < g /\ f <= d
      BY <2>1, <2>3 DEF Stale
    <3>2. f # m /\ 2 * w <= Worth(d) + 2 + 2 * (g - d) + Owed("idle")
      BY <1>0, <1>1, <1>3, <1>5, <1>6, <2>1, <3>1
    <3> QED BY <2>3, <3>2 DEF Pair, Undoes, Stale
  <2>4. CASE ~Stale(q, d, g)
    <3>1. 2 * w <= Worth(g) + Owed("idle") + Owed(q)
      BY <1>0, <1>1, <1>2, <1>4, <1>5, <2>1, <2>2
    <3>2. g = m => 2 * w + Comparing("idle") + Comparing(q) <= Worth(g)
      BY <1>0, <1>1, <1>2, <1>4, <1>5, <2>1, <2>2
    <3> QED BY <2>4, <3>1, <3>2 DEF Pair, Undoes, Stale
  <2> QED BY <2>3, <2>4
<1> QED BY <1>7, <1>8, <1>9

LEMMA PairResets ==
    ASSUME NEW e \in Count, NEW q \in Places, NEW d \in Count
    PROVE  Pair("idle", e, q, d, 0, 0)
BY WorthType, UsersAssumption DEF Pair, Undoes, Stale, Owed, Comparing, Count

LEMMA PairBound ==
    ASSUME NEW p \in Places, NEW c \in Count, NEW q \in Places, NEW d \in Count, NEW f \in Count,
           NEW w \in Nat, Pair(p, c, q, d, f, w)
    PROVE  2 * w <= MaxAttempts * (MaxAttempts + 3)
<1> PICK m \in Nat \ {0} : m = MaxAttempts
  BY UsersAssumption
<1>0. /\ c \in Nat /\ d \in Nat /\ f \in Nat /\ c <= m /\ d <= m /\ f <= m /\ m \in Count
  BY DEF Count
<1>1. Worth(m) = m * (m + 3) /\ Worth(m) \in Nat /\ Worth(f) \in Nat
  BY <1>0, WorthType DEF Worth
<1>2. Owed(p) \in {0, 2} /\ Owed(q) \in {0, 2} /\ Comparing(p) \in {0, 2} /\ Comparing(q) \in {0, 2}
  BY DEF Owed, Comparing
<1>3. ASSUME NEW r \in Places, NEW a \in Count, NEW s \in Places, NEW g \in Count,
             Stale(r, a, f), Undoes(r, a, s, g, f, w)
      PROVE  2 * w <= Worth(m)
  <2>1. /\ a \in Nat /\ a < f /\ 2 * w <= Worth(a) + 2 + 2 * (f - a) + Owed(s)
        /\ f = m => s = "idle"
    BY <1>3 DEF Undoes, Stale, Count
  <2>2. Owed(s) \in {0, 2} /\ (f = m => Owed(s) = 0)
    BY <2>1 DEF Owed
  <2>3. Worth(a) \in Nat /\ Worth(a + 1) = Worth(a) + 2 * (m - a) + 2
    BY <1>0, <2>1, WorthType, WorthStep
  <2>4. a + 1 \in Count /\ (a + 1 = m \/ a + 1 < m) /\ Worth(a + 1) \in Nat
    BY <1>0, <2>1, WorthType DEF Count
  <2>5. Worth(a + 1) <= Worth(m)
    BY <1>0, <1>1, <2>4, WorthGrows
  <2> QED BY <1>0, <1>1, <2>1, <2>2, <2>3, <2>5
<1>4. CASE Stale(p, c, f)
  BY <1>1, <1>3, <1>4 DEF Pair
<1>5. CASE Stale(q, d, f)
  BY <1>1, <1>3, <1>5 DEF Pair
<1>6. CASE ~Stale(p, c, f) /\ ~Stale(q, d, f)
  <2>1. /\ 2 * w <= Worth(f) + Owed(p) + Owed(q)
        /\ f = m => 2 * w + Comparing(p) + Comparing(q) <= Worth(f)
    BY <1>6 DEF Pair
  <2>2. f # m => Worth(f) + 4 <= Worth(m)
    BY <1>0, WorthGrows
  <2> QED BY <1>0, <1>1, <1>2, <2>1, <2>2
<1> QED BY <1>4, <1>5, <1>6

\* A sign-in whose UPDATE writes a count; one that has reloaded the count it was going to
\* write leaves it out.
WritesCount(r) == \/ r.pc = "save"
                  \/ r.pc = "write" /\ r.ent.failedAttempts # r.db.failedAttempts

\* Where a sign-in is on an account, and one less than the count it is going to write.
Place(b, u) ==
    CASE login[b].u = u /\ login[b].pc \in {"compare", "find"} -> login[b].pc
      [] login[b].u = u /\ WritesCount(login[b])               -> "save"
      [] OTHER                                                 -> "idle"
Tally(b) == IF login[b].ent.failedAttempts = 0 THEN 0 ELSE login[b].ent.failedAttempts - 1

WithOther(x, y, u) ==
    Pair(Place(x, u), Tally(x), IF x = y THEN "idle" ELSE Place(y, u), IF x = y THEN 0 ELSE Tally(y),
         users[u].failedAttempts, wrong[u])

\* What is going to be written is one attempt more than what was read.
CountsUp(b) == login[b].pc \in {"save", "write"} => login[b].ent.failedAttempts # 0

DoorInv ==
    /\ \A b \in Browser : CountsUp(b)
    /\ mix.browsers = {} => \A u \in User : wrong[u] = 0
    /\ \A x, y \in Browser : mix.browsers \subseteq {x, y} => \A u \in User : WithOther(x, y, u)

\* A death of the process is counted, so there is none when the mix allows none.
DoorIInv == faults \in Nat /\ (TwoAtATime => LockInv) /\ (Undisturbed => DoorInv)

DoorTyped ==
    /\ \A u \in User : users[u] \in UserRow /\ users[u].failedAttempts \in Count /\ wrong[u] \in Nat
    /\ \A b \in Browser : login[b] \in LoginRow /\ login[b].ent \in UserRow /\ Tally(b) \in Count
    /\ \A b \in Browser, u \in User : Place(b, u) \in Places

LEMMA DoorTypes == 0 \in Count /\ (IInv => DoorTyped)
<1>1. 0 \in Count /\ MaxAttempts \in Nat
  BY UsersAssumption DEF Count
<1>2. ASSUME IInv, NEW b \in Browser PROVE login[b] \in LoginRow /\ login[b].ent \in UserRow /\ Tally(b) \in Count
  <2>1. login[b] \in LoginRow /\ login[b].ent \in UserRow
    BY <1>2 DEF IInv, UsersTypeOK, LoginRow
  <2>2. login[b].ent.failedAttempts \in 0..MaxAttempts
    BY <2>1 DEF UserRow
  <2> QED BY <1>1, <2>1, <2>2 DEF Tally, Count
<1>3. \A b \in Browser, u \in User : Place(b, u) \in Places
  BY DEF Place, Places
<1>4. IInv => \A u \in User : users[u] \in UserRow /\ users[u].failedAttempts \in Count /\ wrong[u] \in Nat
  BY UsersAssumption DEF IInv, UsersTypeOK, UserRow, Count
<1> QED BY <1>1, <1>2, <1>3, <1>4 DEF DoorTyped

LEMMA DoorTypesNext == IInv' => DoorTyped'
<1>1. IInv => DoorTyped
  BY DoorTypes
<1> QED BY <1>1, PTL

LEMMA InitDoor == Init => DoorIInv
<1> SUFFICES ASSUME Init PROVE DoorIInv
  OBVIOUS
<1>1. /\ \A u \in User : users[u] = NewUser /\ wrong[u] = 0
      /\ \A b \in Browser : login[b] = IdleLogin
      /\ faults = 0
  BY DEF Init, UsersInit
<1>2. NewUser.failedAttempts = 0 /\ IdleLogin.ent = NewUser /\ IdleLogin.pc = "idle"
  BY DEF NewUser, IdleLogin
<1>3. \A x \in Browser : Tally(x) = 0 /\ CountsUp(x) /\ \A u \in User : Place(x, u) = "idle"
  BY <1>1, <1>2 DEF Place, Tally, WritesCount, CountsUp
<1>4. "idle" \in Places /\ 0 \in Count
  BY UsersAssumption DEF Places, Count
<1>5. \A x, y \in Browser, u \in User : WithOther(x, y, u)
  BY <1>1, <1>2, <1>3, <1>4, PairResets DEF WithOther
<1> QED BY <1>1, <1>3, <1>5, InitLocks DEF DoorIInv, DoorInv

\* The last permitted count has blocked the account, so there is no other sign-in on it.
LEMMA LastIsAlone ==
    ASSUME LockInv, NEW u \in User, users[u].failedAttempts = MaxAttempts,
           NEW b \in Browser, NEW d \in Browser, Place(b, u) # "idle", Place(d, u) # "idle"
    PROVE  b = d
<1>1. users[u].estado # "ACTIVO"
  BY DEF LockInv, Sound
<1>2. Within(b, u) /\ Within(d, u)
  BY DEF Place, Within, Inside, WritesCount
<1> QED BY <1>1, <1>2 DEF LockInv, Alone

\* What one sign-in does to its own account is all there is to show.
LEMMA DoorStep ==
    ASSUME IInv, IInv', LockInv, DoorInv, UNCHANGED mix, NEW b \in mix.browsers, b \in Browser,
           \A d \in Browser \ {b} : login'[d] = login[d],
           CountsUp(b)',
           \A u \in User, q \in Places, d \in Count :
               /\ Pair(Place(b, u), Tally(b), q, d, users[u].failedAttempts, wrong[u])
               /\ users[u].failedAttempts = MaxAttempts /\ Place(b, u) # "idle" => q = "idle"
               => Pair(Place(b, u)', Tally(b)', q, d, users'[u].failedAttempts, wrong'[u])
    PROVE  DoorInv'
<1>1. \A d \in Browser \ {b} : /\ Tally(d)' = Tally(d) /\ CountsUp(d)' = CountsUp(d)
                              /\ \A u \in User : Place(d, u)' = Place(d, u)
  BY DEF Place, Tally, CountsUp, WritesCount
<1>2. ASSUME NEW x \in Browser, NEW y \in Browser, mix.browsers \subseteq {x, y}, NEW u \in User
      PROVE  WithOther(x, y, u)'
  <2> DEFINE f == users[u].failedAttempts  w == wrong[u]
             g == users'[u].failedAttempts  v == wrong'[u]
  <2>1. /\ f \in Count /\ w \in Nat /\ g \in Count /\ v \in Nat /\ 0 \in Count /\ "idle" \in Places
        /\ \A d \in Browser : Tally(d) \in Count /\ Tally(d)' \in Count
        /\ \A d \in Browser : Place(d, u) \in Places /\ Place(d, u)' \in Places
    BY DoorTypes, DoorTypesNext DEF DoorTyped, Places
  <2>2. WithOther(x, y, u) /\ b \in {x, y}
    BY <1>2 DEF DoorInv
  <2>3. \A d \in Browser \ {b} : f = MaxAttempts /\ Place(b, u) # "idle" => Place(d, u) = "idle"
    BY LastIsAlone
  <2>4. CASE x = y
    <3>1. Pair(Place(b, u), Tally(b), "idle", 0, f, w)
      BY <2>2, <2>4 DEF WithOther
    <3>2. Pair(Place(b, u)', Tally(b)', "idle", 0, g, v)
      BY <2>1, <3>1
    <3> QED BY <2>2, <2>4, <3>2 DEF WithOther
  <2>5. CASE x # y /\ b = x
    <3>1. Pair(Place(b, u), Tally(b), Place(y, u), Tally(y), f, w)
      BY <2>2, <2>5 DEF WithOther
    <3>2. Pair(Place(b, u)', Tally(b)', Place(y, u), Tally(y), g, v)
      BY <2>1, <2>3, <2>5, <3>1
    <3> QED BY <1>1, <2>5, <3>2 DEF WithOther
  <2>6. CASE x # y /\ b = y
    <3>1. Pair(Place(x, u), Tally(x), Place(b, u), Tally(b), f, w)
      BY <2>2, <2>6 DEF WithOther
    <3>2. Pair(Place(b, u), Tally(b), Place(x, u), Tally(x), f, w)
      BY <2>1, <3>1, PairSym
    <3>3. Pair(Place(b, u)', Tally(b)', Place(x, u), Tally(x), g, v)
      BY <2>1, <2>3, <2>6, <3>2
    <3>4. Pair(Place(x, u), Tally(x), Place(b, u)', Tally(b)', g, v)
      BY <2>1, <3>3, PairSym
    <3> QED BY <1>1, <2>6, <3>4 DEF WithOther
  <2> QED BY <2>2, <2>4, <2>5, <2>6
<1>3. \A d \in Browser : CountsUp(d)'
  BY <1>1 DEF DoorInv
<1>4. mix.browsers # {}
  OBVIOUS
<1> QED BY <1>2, <1>3, <1>4 DEF DoorInv

LEMMA SignInKeepsDoor ==
    ASSUME IInv, IInv', LockInv, DoorInv, UNCHANGED mix, NEW b \in mix.browsers, SignIn(b)
    PROVE  DoorInv'
<1>0. b \in Browser /\ mix.users \subseteq User /\ login \in [Browser -> LoginRow] /\ users \in [User -> UserRow]
      /\ wrong \in [User -> 0..MaxWrong] /\ HeldSound(b) /\ CountsUp(b) /\ \A u \in User : Sound(users[u])
  BY UsersAssumption DEF IInv, UsersTypeOK, DoorInv, LockInv
<1> DEFINE r == login[b]
<1>1. ASSUME NEW v \in mix.users, ValidateForLogin(b, v) PROVE DoorInv'
  <2> DEFINE x == [IdleLogin EXCEPT !.pc = "compare", !.u = v]
  <2>1. r.pc = "idle" /\ users[v].estado = "ACTIVO" /\ v \in User /\ UNCHANGED <<users, wrong>>
    BY <1>0, <1>1 DEF ValidateForLogin, MayTry, accounts
  <2>2. login' = [login EXCEPT ![b] = x] /\ x.pc = "compare" /\ x.u = v
    BY <1>0, <1>1, <2>1 DEF ValidateForLogin, SetLogin, Sound, IdleLogin
  <2> HIDE DEF x
  <2>3. users[v].failedAttempts # MaxAttempts
    BY <1>0, <2>1 DEF Sound
  <2>4. login'[b] = x /\ \A d \in Browser \ {b} : login'[d] = login[d]
    BY <1>0, <2>2
  <2>5. ASSUME NEW u \in User, NEW q \in Places, NEW d \in Count,
               Pair(Place(b, u), Tally(b), q, d, users[u].failedAttempts, wrong[u])
        PROVE  Pair(Place(b, u)', Tally(b)', q, d, users'[u].failedAttempts, wrong'[u])
    <3>1. Place(b, u) = "idle" /\ Place(b, u)' = IF u = v THEN "compare" ELSE "idle"
      BY <2>1, <2>2, <2>4 DEF Place, WritesCount
    <3>2. /\ Tally(b) \in Count /\ Tally(b)' \in Count /\ wrong[u] \in Nat /\ users[u].failedAttempts \in Count
      BY <1>0, DoorTypes, DoorTypesNext DEF DoorTyped
    <3> QED BY <2>1, <2>3, <2>5, <3>1, <3>2, PairBegins
  <2> QED BY <1>0, <2>2, <2>4, <2>5, DoorStep DEF CountsUp
<1>2. ASSUME WrongPassword(b) PROVE DoorInv'
  <2> DEFINE v == r.u  x == [r EXCEPT !.pc = "find"]
  <2>1. r.pc = "compare" /\ v \in User /\ login' = [login EXCEPT ![b] = x] /\ UNCHANGED users
        /\ wrong' = [wrong EXCEPT ![v] = Min({wrong[v] + 1, MaxWrong})]
    BY <1>2 DEF WrongPassword, LoginAt, SetLogin, IInv, UsersTypeOK, accounts
  <2>2. x.pc = "find" /\ x.u = v /\ x.ent = r.ent
    BY <1>0 DEF LoginRow
  <2> HIDE DEF x
  <2>3. login'[b] = x /\ \A d \in Browser \ {b} : login'[d] = login[d]
    BY <1>0, <2>1
  <2>4. Min({wrong[v] + 1, MaxWrong}) <= wrong[v] + 1
    BY <1>0, <2>1, UsersAssumption, OneMore
  <2>5. ASSUME NEW u \in User, NEW q \in Places, NEW d \in Count,
               Pair(Place(b, u), Tally(b), q, d, users[u].failedAttempts, wrong[u])
        PROVE  Pair(Place(b, u)', Tally(b)', q, d, users'[u].failedAttempts, wrong'[u])
    <3>1. /\ Place(b, u) = IF u = v THEN "compare" ELSE "idle"
          /\ Place(b, u)' = IF u = v THEN "find" ELSE "idle"
      BY <2>1, <2>2, <2>3 DEF Place, WritesCount
    <3>2. /\ Tally(b) \in Count /\ Tally(b)' = Tally(b) /\ wrong[u] \in Nat /\ wrong'[u] \in Nat
          /\ users[u].failedAttempts \in Count
      BY <1>0, <2>2, <2>3, DoorTypes, DoorTypesNext DEF DoorTyped, Tally
    <3>3. wrong'[u] <= wrong[u] + 1 /\ (u # v => wrong'[u] = wrong[u])
      BY <1>0, <2>1, <2>4, <3>2
    <3> QED BY <2>1, <2>5, <3>1, <3>2, <3>3, PairWrong
  <2> QED BY <1>0, <2>2, <2>3, <2>5, DoorStep DEF CountsUp
<1>3. ASSUME FindFailing(b) PROVE DoorInv'
  <2> DEFINE v == r.u
             t == CHOOSE t \in 1..MaxLocks : Fresh(t)
             row == AfterFailure(users[v], t)
             x == [r EXCEPT !.pc = "save", !.ent = row]
  <2>1. t \in 1..MaxLocks /\ r.pc = "find" /\ v \in User /\ login' = [login EXCEPT ![b] = x]
        /\ UNCHANGED <<users, wrong>>
    BY <1>3, LockTime DEF FindFailing, SetLogin, IInv, UsersTypeOK, accounts
  <2> HIDE DEF t
  <2> DEFINE f == users[v].failedAttempts
  <2>2. row.failedAttempts = IF f = MaxAttempts THEN MaxAttempts ELSE f + 1
    BY <1>0, <2>1, FailedSound
  <2> HIDE DEF row
  <2>3. x.pc = "save" /\ x.u = v /\ x.ent = row
    BY <1>0 DEF LoginRow
  <2> HIDE DEF x
  <2>4. login'[b] = x /\ \A d \in Browser \ {b} : login'[d] = login[d]
    BY <1>0, <2>1
  <2>5. f \in Count /\ MaxAttempts \in Nat \ {0}
    BY <2>1, DoorTypes, UsersAssumption DEF DoorTyped
  <2>6. /\ row.failedAttempts # 0 /\ Tally(b)' = row.failedAttempts - 1
        /\ f # MaxAttempts => Tally(b)' = f
        /\ f = MaxAttempts => Tally(b)' + 1 = f
    BY <2>2, <2>3, <2>4, <2>5 DEF Tally, Count
  <2>7. ASSUME NEW u \in User, NEW q \in Places, NEW d \in Count,
               Pair(Place(b, u), Tally(b), q, d, users[u].failedAttempts, wrong[u]),
               users[u].failedAttempts = MaxAttempts /\ Place(b, u) # "idle" => q = "idle"
        PROVE  Pair(Place(b, u)', Tally(b)', q, d, users'[u].failedAttempts, wrong'[u])
    <3>1. /\ Place(b, u) = IF u = v THEN "find" ELSE "idle"
          /\ Place(b, u)' = IF u = v THEN "save" ELSE "idle"
      BY <2>1, <2>3, <2>4 DEF Place, WritesCount
    <3>2. /\ Tally(b) \in Count /\ Tally(b)' \in Count /\ wrong[u] \in Nat /\ users[u].failedAttempts \in Count
      BY <1>0, DoorTypes, DoorTypesNext DEF DoorTyped
    <3>3. CASE u = v
      BY <2>1, <2>6, <2>7, <3>1, <3>2, <3>3, PairFinds
    <3>4. CASE u # v
      BY <2>1, <2>7, <3>1, <3>2, <3>4, PairBegins
    <3> QED BY <3>3, <3>4
  <2> QED BY <1>0, <2>3, <2>4, <2>6, <2>7, DoorStep DEF CountsUp
<1>4. ASSUME ReloadLogin(b) PROVE DoorInv'
  <2> DEFINE v == r.u  x == [r EXCEPT !.pc = "write", !.db = users[v]]
  <2>1. r.pc = "save" /\ v \in User /\ login' = [login EXCEPT ![b] = x] /\ UNCHANGED <<users, wrong>>
    BY <1>0, <1>4 DEF ReloadLogin, SetLogin, HeldSound, IInv, UsersTypeOK, accounts
  <2>2. x.pc = "write" /\ x.u = v /\ x.ent = r.ent /\ x.db = users[v]
    BY <1>0 DEF LoginRow
  <2> HIDE DEF x
  <2>3. login'[b] = x /\ \A d \in Browser \ {b} : login'[d] = login[d]
    BY <1>0, <2>1
  <2> DEFINE f == users[v].failedAttempts
  <2>4. Tally(b)' = Tally(b) /\ r.ent.failedAttempts # 0 /\ r.ent.failedAttempts = Tally(b) + 1
    <3>1. Tally(b)' = Tally(b)
      BY <2>2, <2>3 DEF Tally
    <3>2. r.ent.failedAttempts # 0 /\ r.ent.failedAttempts \in 0..MaxAttempts
      BY <1>0, <2>1 DEF CountsUp, LoginRow, UserRow
    <3> QED BY <3>1, <3>2, UsersAssumption DEF Tally
  <2>5. ASSUME NEW u \in User, NEW q \in Places, NEW d \in Count,
               Pair(Place(b, u), Tally(b), q, d, users[u].failedAttempts, wrong[u])
        PROVE  Pair(Place(b, u)', Tally(b)', q, d, users'[u].failedAttempts, wrong'[u])
    <3>1. /\ Place(b, u) = IF u = v THEN "save" ELSE "idle"
          /\ Place(b, u)' = IF u = v /\ r.ent.failedAttempts # f THEN "save" ELSE "idle"
      BY <2>1, <2>2, <2>3 DEF Place, WritesCount
    <3>2. /\ Tally(b) \in Count /\ wrong[u] \in Nat /\ users[u].failedAttempts \in Count
      BY <1>0, DoorTypes DEF DoorTyped
    <3>3. CASE u = v /\ r.ent.failedAttempts # f
      BY <2>1, <2>4, <2>5, <3>1, <3>3
    <3>4. CASE u = v /\ r.ent.failedAttempts = f
      BY <2>1, <2>4, <2>5, <3>1, <3>2, <3>4, PairKeeps
    <3>5. CASE u # v
      BY <2>1, <2>4, <2>5, <3>1, <3>5
    <3> QED BY <3>3, <3>4, <3>5
  <2> QED BY <1>0, <2>2, <2>3, <2>4, <2>5, DoorStep DEF CountsUp
<1>5. ASSUME SaveLogin(b) PROVE DoorInv'
  <2> DEFINE v == r.u  row == Updated(users[v], r.ent, r.db)
  <2>1. r.pc = "write" /\ v \in User /\ login' = [login EXCEPT ![b] = IdleLogin] /\ UNCHANGED wrong
        /\ users' = [users EXCEPT ![v] = row] /\ r.ent \in UserRow /\ r.db \in UserRow
    BY <1>0, <1>5 DEF SaveLogin, SetLogin, HeldSound, IInv, UsersTypeOK, LoginRow
  <2>2. row.failedAttempts = IF r.ent.failedAttempts = r.db.failedAttempts THEN users[v].failedAttempts
                             ELSE r.ent.failedAttempts
    BY <1>0, <2>1, UpdatedRow
  <2> HIDE DEF row
  <2>3. login'[b] = IdleLogin /\ \A d \in Browser \ {b} : login'[d] = login[d]
    BY <1>0, <2>1
  <2>4. r.ent.failedAttempts = Tally(b) + 1 /\ r.ent.failedAttempts \in Count
    BY <1>0, <2>1, DoorTypes DEF Tally, CountsUp, UserRow, Count
  <2>5. ASSUME NEW u \in User, NEW q \in Places, NEW d \in Count,
               Pair(Place(b, u), Tally(b), q, d, users[u].failedAttempts, wrong[u])
        PROVE  Pair(Place(b, u)', Tally(b)', q, d, users'[u].failedAttempts, wrong'[u])
    <3>1. /\ Place(b, u) = IF u = v /\ r.ent.failedAttempts # r.db.failedAttempts THEN "save" ELSE "idle"
          /\ Place(b, u)' = "idle"
      BY <2>1, <2>3, SoundNewUser DEF Place, WritesCount
    <3>2. /\ Tally(b) \in Count /\ Tally(b)' \in Count /\ wrong[u] \in Nat /\ users[u].failedAttempts \in Count
      BY <1>0, DoorTypes, DoorTypesNext DEF DoorTyped
    <3>3. users'[u] = IF u = v THEN row ELSE users[u]
      BY <1>0, <2>1
    <3>4. CASE u = v /\ r.ent.failedAttempts # r.db.failedAttempts
      <4>1. users'[u].failedAttempts = Tally(b) + 1 /\ users'[u].failedAttempts \in Count
        BY <2>2, <2>4, <3>3, <3>4
      <4>2. Pair("save", Tally(b), q, d, users[u].failedAttempts, wrong[u])
        BY <2>5, <3>1, <3>4
      <4> QED BY <2>1, <3>1, <3>2, <4>1, <4>2, PairSaves
    <3>5. CASE u # v \/ r.ent.failedAttempts = r.db.failedAttempts
      <4>1. users'[u].failedAttempts = users[u].failedAttempts
        BY <2>2, <3>3, <3>5
      <4>2. Pair("idle", Tally(b), q, d, users[u].failedAttempts, wrong[u])
        BY <2>5, <3>1, <3>5
      <4> QED BY <2>1, <3>1, <3>2, <4>1, <4>2, PairBegins
    <3> QED BY <3>4, <3>5
  <2> QED BY <1>0, <2>3, <2>5, SoundNewUser, DoorStep DEF CountsUp
<1>6. ASSUME RegisterSuccess(b) PROVE DoorInv'
  <2> DEFINE v == r.u  x == [r EXCEPT !.pc = "issue"]
             row == [users[v] EXCEPT !.failedAttempts = 0, !.lockedUntil = NoLock]
  <2>1. r.pc = "compare" /\ v \in User /\ login' = [login EXCEPT ![b] = x] /\ wrong' = [wrong EXCEPT ![v] = 0]
    BY <1>6 DEF RegisterSuccess, LoginAt, SetLogin, IInv, UsersTypeOK
  <2>2. users' = [users EXCEPT ![v] = row]
    BY <1>0, <1>6, <2>1 DEF RegisterSuccess, UserRow
  <2>3. x.pc = "issue" /\ row.failedAttempts = 0
    BY <1>0, <2>1, ResetRow DEF LoginRow
  <2> HIDE DEF x, row
  <2>4. login'[b] = x /\ \A d \in Browser \ {b} : login'[d] = login[d]
    BY <1>0, <2>1
  <2>5. \A u \in User : users'[u] = IF u = v THEN row ELSE users[u]
    BY <1>0, <2>1, <2>2
  <2>6. ASSUME NEW u \in User, NEW q \in Places, NEW d \in Count,
               Pair(Place(b, u), Tally(b), q, d, users[u].failedAttempts, wrong[u])
        PROVE  Pair(Place(b, u)', Tally(b)', q, d, users'[u].failedAttempts, wrong'[u])
    <3>1. /\ Place(b, u)' = "idle" /\ (u # v => Place(b, u) = "idle")
      BY <2>1, <2>3, <2>4 DEF Place, WritesCount
    <3>2. /\ Tally(b) \in Count /\ Tally(b)' \in Count /\ wrong[u] \in Nat /\ users[u].failedAttempts \in Count
      BY <1>0, DoorTypes, DoorTypesNext DEF DoorTyped
    <3>3. wrong'[u] = IF u = v THEN 0 ELSE wrong[u]
      BY <1>0, <2>1
    <3>4. CASE u = v
      BY <2>3, <2>5, <3>1, <3>2, <3>3, <3>4, PairResets
    <3>5. CASE u # v
      BY <2>5, <2>6, <3>1, <3>2, <3>3, <3>5, PairBegins
    <3> QED BY <3>4, <3>5
  <2> QED BY <1>0, <2>3, <2>4, <2>6, DoorStep DEF CountsUp
<1> QED BY <1>1, <1>2, <1>3, <1>4, <1>5, <1>6 DEF SignIn

LEMMA NextDoor == IInv /\ DoorIInv /\ [Next]_vars => DoorIInv'
<1> SUFFICES ASSUME IInv, DoorIInv, [Next]_vars PROVE DoorIInv'
  OBVIOUS
<1>0. /\ mix.browsers \subseteq Browser /\ mix.calls \subseteq Call /\ mix \in Mixes /\ UNCHANGED mix
      /\ faults \in Nat /\ IInv' /\ (TwoAtATime => LockInv)'
  BY UsersAssumption, SessionsAssumption, NextInductive, NextLocks DEF IInv, Next, vars, DoorIInv
<1>1. ASSUME UNCHANGED <<users, login, wrong>>, DoorInv PROVE DoorInv'
  BY <1>0, <1>1 DEF DoorInv, WithOther, Place, Tally, WritesCount, CountsUp
<1>2. CASE UNCHANGED vars
  BY <1>0, <1>1, <1>2 DEF vars, usersVars, sessionVars, DoorIInv, Undisturbed
<1>3. ASSUME NEW b \in mix.browsers, NEW k \in mix.calls,
             ExpireAccess(b) \/ Denied(b, k) \/ Restore(b, k) \/ SignOut(b, k) \/ CallStep(b, k)
      PROVE  DoorIInv'
  <2>1. UNCHANGED usersVars
    BY <1>0, <1>3, SessionsKeepAccounts
  <2>2. UNCHANGED faults
    BY <1>3 DEF ExpireAccess, Denied, Restore, SignOut, CallStep, SendRefresh, FindSession, Rotate,
       PersistSession, Answer, Timeout, Retry, GiveUp, RevokeSession, Left
  <2> QED BY <1>0, <1>1, <2>1, <2>2 DEF usersVars, DoorIInv, Undisturbed
<1>4. ASSUME NEW b \in mix.browsers, ExpireAccess(b) PROVE DoorIInv'
  BY <1>0, <1>1, <1>4 DEF ExpireAccess, usersVars, DoorIInv, Undisturbed
<1>5. ASSUME NEW s \in Session, ExpireSession(s) PROVE DoorIInv'
  BY <1>0, <1>1, <1>5 DEF ExpireSession, usersVars, DoorIInv, Undisturbed
<1>6. ASSUME NEW b \in mix.browsers, IssueSession(b) PROVE DoorIInv'
  <2>1. /\ login[b].pc = "issue" /\ login' = [login EXCEPT ![b] = IdleLogin] /\ UNCHANGED <<users, wrong, faults>>
        /\ b \in Browser /\ login \in [Browser -> LoginRow]
    BY <1>0, <1>6 DEF IssueSession, SetLogin, accounts, IInv, UsersTypeOK
  <2>2. login'[b] = IdleLogin /\ \A d \in Browser \ {b} : login'[d] = login[d]
    BY <2>1
  <2>3. ASSUME NEW u \in User, NEW q \in Places, NEW d \in Count,
               Pair(Place(b, u), Tally(b), q, d, users[u].failedAttempts, wrong[u])
        PROVE  Pair(Place(b, u)', Tally(b)', q, d, users'[u].failedAttempts, wrong'[u])
    <3>1. Place(b, u) = "idle" /\ Place(b, u)' = "idle"
      BY <2>1, <2>2, SoundNewUser DEF Place, WritesCount
    <3>2. /\ Tally(b) \in Count /\ Tally(b)' \in Count /\ wrong[u] \in Nat /\ users[u].failedAttempts \in Count
      BY <1>0, <2>1, DoorTypes, DoorTypesNext DEF DoorTyped
    <3> QED BY <2>1, <2>3, <3>1, <3>2, PairBegins
  <2>4. ASSUME DoorInv, LockInv PROVE DoorInv'
    BY <1>0, <2>1, <2>2, <2>3, <2>4, SoundNewUser, DoorStep DEF CountsUp
  <2> QED BY <1>0, <2>1, <2>4 DEF DoorIInv, Undisturbed, TwoAtATime
<1>7. ASSUME NEW b \in mix.browsers, SignIn(b), UNCHANGED sessionVars PROVE DoorIInv'
  BY <1>0, <1>7, SignInKeepsDoor DEF DoorIInv, Undisturbed, TwoAtATime, sessionVars
<1>8. ASSUME Administration, UNCHANGED sessionVars PROVE DoorIInv'
  <2>1. mix.clerks # {}
    BY <1>8 DEF Administration
  <2> QED BY <1>0, <1>8, <2>1 DEF DoorIInv, Undisturbed, sessionVars
<1>9. ASSUME ApiDies PROVE DoorIInv'
  <2>1. faults < mix.faults /\ faults' = faults + 1
    BY <1>9 DEF ApiDies
  <2>2. mix.faults # 0
    BY <1>0, <2>1
  <2> QED BY <1>0, <2>1, <2>2 DEF DoorIInv, Undisturbed
<1>10. CASE Next
  BY <1>3, <1>4, <1>5, <1>6, <1>7, <1>8, <1>9, <1>10 DEF Next
<1> QED BY <1>2, <1>10

\* For any number of users and of permitted attempts: while no administrator edits accounts
\* and no process dies with an attempt not yet counted, two sign-ins at a time, whose
\* saves may undo each other's count, cannot try more than M + (M-1) + ... + 1 wrong passwords
\* and one more for each round (registerFailedAttempt).
THEOREM GuessesEnd == Spec => []WrongPasswordsEnd
<1>1. ASSUME IInv, DoorIInv PROVE WrongPasswordsEnd
  <2> SUFFICES ASSUME Undisturbed, NEW u \in User
               PROVE  2 * wrong[u] <= MaxAttempts * (MaxAttempts + 3)
    BY DEF WrongPasswordsEnd, Undisturbed
  <2>1. DoorInv /\ mix \in Mixes
    BY <1>1 DEF DoorIInv, IInv
  <2>2. CASE mix.browsers = {}
    <3>1. PICK m \in Nat : m = MaxAttempts
      BY UsersAssumption
    <3>2. m * (m + 3) \in Nat /\ wrong[u] = 0
      BY <2>1, <2>2 DEF DoorInv
    <3> QED BY <3>1, <3>2
  <2>3. CASE mix.browsers # {}
    <3>1. PICK x \in Browser, y \in Browser : mix.browsers \subseteq {x, y}
      BY <2>1, <2>3, TwoBrowsers DEF Undisturbed
    <3>2. WithOther(x, y, u)
      BY <2>1, <3>1 DEF DoorInv
    <3>3. /\ Place(x, u) \in Places /\ Place(y, u) \in Places /\ "idle" \in Places
          /\ Tally(x) \in Count /\ Tally(y) \in Count /\ 0 \in Count
          /\ users[u].failedAttempts \in Count /\ wrong[u] \in Nat
      BY <1>1, DoorTypes DEF DoorTyped, Places
    <3> QED BY <3>2, <3>3, PairBound DEF WithOther
  <2> QED BY <2>2, <2>3
<1>2. Init => IInv /\ DoorIInv
  BY InitInductive, InitDoor
<1>3. (IInv /\ DoorIInv) /\ [Next]_vars => (IInv /\ DoorIInv)'
  BY NextInductive, NextDoor
<1> QED BY <1>1, <1>2, <1>3, PTL DEF Spec
=============================================================================
