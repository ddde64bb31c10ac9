---------------------------- MODULE UsersService ----------------------------
(***************************************************************************)
(* auth/users.service.ts and access-control/user-assignment.service.ts:    *)
(* the accounts, the counter of wrong passwords, and the requests of the   *)
(* administrators of the configuration, who may not remove the last of     *)
(* their kind.                                                             *)
(*                                                                         *)
(* A request reads an account and saves the edited entity later: save()    *)
(* reads the row once more and updates the columns in which the entity     *)
(* differs from what it read.                                              *)
(***************************************************************************)
EXTENDS Integers, FiniteSets, FiniteSetsExt

CONSTANTS
    User,        \* ids of sys_usuarios
    Clerk,       \* administrative requests in flight
    Browser,     \* each may have one sign-in in flight
    NoUser,
    MaxAttempts, \* 5 in the code
    MaxWrong,    \* bound: wrong passwords told apart since the last right one
    MaxLocks,    \* bound: times of a lock told apart at once
    Mixes        \* bound: which actors and operations are looked at together

Revokes == {"revokeCompany", "revokeRole"}
Assigns == {"assignCompany", "assignRole"}
Restricts == {"inactivate", "block"}

Ops == Revokes \cup Assigns \cup Restricts \cup {"reactivate", "update"}

ASSUME UsersAssumption ==
    /\ User # {} /\ NoUser \notin User /\ IsFiniteSet(Browser)
    /\ \A m \in Mixes : /\ m.clerks \subseteq Clerk /\ m.users \subseteq User
                        /\ m.browsers \subseteq Browser /\ m.ops \subseteq Ops
    /\ MaxAttempts \in Nat \ {0} /\ MaxWrong \in Nat /\ MaxLocks \in Nat \ {0}

VARIABLES
    users,   \* sys_usuarios
    company, \* the users with an active row in sys_usuario_empresa
    role,    \* the users with an active row of a role with a config: permission
    clerk,   \* the entity of each administrative request, and the row save() has read
    login,   \* the entity of each sign-in, and the row save() has read
    wrong,   \* history: wrong passwords since the account's counter was last reset
    mix

accounts == <<users, company, role>>
usersVars == <<users, company, role, clerk, login, wrong>>
----------------------------------------------------------------------------
UserRow == [estado : {"ACTIVO", "INACTIVO", "BLOQUEADO"}, failedAttempts : 0..MaxAttempts,
            lockedUntil : 0..MaxLocks]

NoLock == 0

NewUser == [estado |-> "ACTIVO", failedAttempts |-> 0, lockedUntil |-> NoLock]

IdleClerk == [pc |-> "idle", op |-> "none", u |-> NoUser, ent |-> NewUser, db |-> NewUser]
IdleLogin == [pc |-> "idle", u |-> NoUser, ent |-> NewUser, db |-> NewUser]

\* The row after the UPDATE of save(): a column in which the entity is as the row was
\* when save() read it keeps what others have written to it since.
Updated(row, ent, db) ==
    LET column(f) == IF ent[f] = db[f] THEN row[f] ELSE ent[f]
    IN [estado |-> column("estado"), failedAttempts |-> column("failedAttempts"),
        lockedUntil |-> column("lockedUntil")]

SetClerk(c, r) == clerk' = [clerk EXCEPT ![c] = r]
ClerkAt(c, pc) == SetClerk(c, [clerk[c] EXCEPT !.pc = pc])
SetLogin(b, r) == login' = [login EXCEPT ![b] = r]
LoginAt(b, pc) == SetLogin(b, [login[b] EXCEPT !.pc = pc])

CountsAsAdmin(u) == users[u].estado = "ACTIVO" /\ u \in company /\ u \in role

ConfigAdmins == {u \in User : CountsAsAdmin(u)}

UsersInit ==
    /\ users = [u \in User |-> NewUser]
    /\ company = User /\ role = User
    /\ clerk = [c \in Clerk |-> IdleClerk]
    /\ login = [b \in Browser |-> IdleLogin]
    /\ wrong = [u \in User |-> 0]
----------------------------------------------------------------------------
(* Administrative requests. *)

\* assertCanRestrictUser and assertUserCanBeMutated(.., true) come first.
ProtectsLastAdmin(op) == op \in Restricts \cup Revokes

Unguarded(op) == IF op \in Revokes \cup Assigns THEN "save" ELSE "load"

\* Nobody restricts his own account, whatever other accounts there are.
Request(c, op, u) ==
    /\ clerk[c].pc = "idle"
    /\ ProtectsLastAdmin(op) \/ op \in Assigns => User \ {u} # {}
    /\ SetClerk(c, [IdleClerk EXCEPT !.pc = IF ProtectsLastAdmin(op) THEN "check" ELSE Unguarded(op),
                                     !.op = op, !.u = u])
    /\ UNCHANGED <<accounts, login, wrong>>

CheckAdmin(c) ==
    /\ clerk[c].pc = "check"
    /\ ClerkAt(c, IF CountsAsAdmin(clerk[c].u) THEN "count" ELSE Unguarded(clerk[c].op))
    /\ UNCHANGED <<accounts, login, wrong>>

\* Bug: the other administrators are counted whatever their state.
OtherAdminsAnyState(u) == (company \cap role) \ {u}

OtherAdmins(u) == ConfigAdmins \ {u}

CountOtherAdmins(c) ==
    /\ clerk[c].pc = "count"
    /\ IF OtherAdmins(clerk[c].u) = {} THEN SetClerk(c, IdleClerk)
       ELSE ClerkAt(c, Unguarded(clerk[c].op))
    /\ UNCHANGED <<accounts, login, wrong>>

Edited(op, ent) ==
    CASE op = "inactivate" -> [ent EXCEPT !.estado = "INACTIVO"]
      [] op = "block"      -> [ent EXCEPT !.estado = "BLOQUEADO"]
      [] op = "reactivate" -> NewUser
      [] op = "update"     -> ent

LoadUser(c) ==
    /\ clerk[c].pc = "load"
    /\ SetClerk(c, [clerk[c] EXCEPT !.pc = "save", !.ent = Edited(clerk[c].op, users[clerk[c].u])])
    /\ UNCHANGED <<accounts, login, wrong>>

ReloadUser(c) ==
    /\ clerk[c].pc = "save" /\ clerk[c].op \notin Revokes \cup Assigns
    /\ SetClerk(c, [clerk[c] EXCEPT !.pc = "write", !.db = users[clerk[c].u]])
    /\ UNCHANGED <<accounts, login, wrong>>

SaveUser(c) ==
    LET r == clerk[c] IN
    /\ r.pc = "write"
    /\ users' = [users EXCEPT ![r.u] = Updated(@, r.ent, r.db)]
    /\ wrong' = IF r.op = "reactivate" THEN [wrong EXCEPT ![r.u] = 0] ELSE wrong
    /\ SetClerk(c, IdleClerk)
    /\ UNCHANGED <<company, role, login>>

SaveAssignment(c) ==
    LET r == clerk[c] IN
    /\ r.pc = "save" /\ r.op \in Revokes \cup Assigns
    /\ company' = CASE r.op = "assignCompany" -> company \cup {r.u}
                    [] r.op = "revokeCompany" -> company \ {r.u}
                    [] OTHER                  -> company
    /\ role' = CASE r.op = "assignRole" -> role \cup {r.u}
                 [] r.op = "revokeRole" -> role \ {r.u}
                 [] OTHER               -> role
    /\ SetClerk(c, IdleClerk)
    /\ UNCHANGED <<users, login, wrong>>
----------------------------------------------------------------------------
(* Signing in with a password. *)

Unlocked(row) == [row EXCEPT !.lockedUntil = NoLock, !.failedAttempts = 0]

\* Bug: only the time of the lock keeps a sign-in out.
InAnyState(row) == TRUE

MayTry(row) == row.estado = "ACTIVO"

\* A lock that is over is taken off and saved first; one that is not refuses the sign-in.
ValidateForLogin(b, u) ==
    /\ login[b].pc = "idle" /\ MayTry(users[u])
    /\ SetLogin(b, IF users[u].lockedUntil = NoLock THEN [IdleLogin EXCEPT !.pc = "compare", !.u = u]
                   ELSE [IdleLogin EXCEPT !.pc = "unlock", !.u = u, !.ent = Unlocked(users[u])])
    /\ UNCHANGED <<accounts, clerk, wrong>>

WrongPassword(b) ==
    /\ login[b].pc = "compare"
    /\ wrong' = [wrong EXCEPT ![login[b].u] = Min({@ + 1, MaxWrong})]
    /\ LoginAt(b, "find")
    /\ UNCHANGED <<accounts, clerk>>

\* Bug: the account is blocked one attempt later.
PastLimit(attempts) == attempts > MaxAttempts

AtLimit(attempts) == attempts >= MaxAttempts

\* Past the limit one attempt more makes no difference.
AfterFailure(row, time) ==
    LET n == row.failedAttempts + 1 IN
    IF AtLimit(n)
    THEN [estado |-> "BLOQUEADO", failedAttempts |-> MaxAttempts, lockedUntil |-> time]
    ELSE [row EXCEPT !.failedAttempts = Min({n, MaxAttempts})]

\* No two locks end at the same time.
Fresh(time) ==
    /\ \A u \in User : users[u].lockedUntil # time
    /\ \A c \in Clerk : time \notin {clerk[c].ent.lockedUntil, clerk[c].db.lockedUntil}
    /\ \A b \in Browser : time \notin {login[b].ent.lockedUntil, login[b].db.lockedUntil}

FindFailing(b) ==
    /\ login[b].pc = "find" /\ \E time \in 1..MaxLocks : Fresh(time)
    /\ LET time == CHOOSE t \in 1..MaxLocks : Fresh(t)
       IN SetLogin(b, [login[b] EXCEPT !.pc = "save", !.ent = AfterFailure(users[login[b].u], time)])
    /\ UNCHANGED <<accounts, clerk, wrong>>

ReloadLogin(b) ==
    /\ login[b].pc \in {"unlock", "save"}
    /\ SetLogin(b, [login[b] EXCEPT !.pc = IF @ = "unlock" THEN "clear" ELSE "write",
                                    !.db = users[login[b].u]])
    /\ UNCHANGED <<accounts, clerk, wrong>>

\* The UPDATE, of validateForLogin or of registerFailedAttempt.
SaveLogin(b) ==
    LET r == login[b] IN
    /\ r.pc \in {"clear", "write"}
    /\ users' = [users EXCEPT ![r.u] = Updated(@, r.ent, r.db)]
    /\ SetLogin(b, IF r.pc = "clear" THEN [IdleLogin EXCEPT !.pc = "compare", !.u = r.u] ELSE IdleLogin)
    /\ UNCHANGED <<company, role, clerk, wrong>>

\* update() of columns: the state is not one of them.
RegisterSuccess(b) ==
    /\ login[b].pc = "compare"
    /\ users' = [users EXCEPT ![login[b].u].failedAttempts = 0, ![login[b].u].lockedUntil = NoLock]
    /\ wrong' = [wrong EXCEPT ![login[b].u] = 0]
    /\ LoginAt(b, "issue")
    /\ UNCHANGED <<company, role, clerk>>
----------------------------------------------------------------------------
ClerkRow == [pc : {"idle", "check", "count", "load", "save", "write"}, op : Ops \cup {"none"},
             u : User \cup {NoUser}, ent : UserRow, db : UserRow]

LoginRow == [pc : {"idle", "unlock", "clear", "compare", "find", "save", "write", "issue"},
             u : User \cup {NoUser}, ent : UserRow, db : UserRow]

\* The accounts and what the requests hold of them are of their types, and a request under
\* way has its user, whatever save() wrote back.
UsersTypeOK ==
    /\ users \in [User -> UserRow] /\ wrong \in [User -> 0..MaxWrong]
    /\ company \subseteq User /\ role \subseteq User
    /\ clerk \in [Clerk -> ClerkRow] /\ login \in [Browser -> LoginRow]
    /\ \A c \in Clerk : clerk[c].pc # "idle" => clerk[c].u \in User /\ clerk[c].op \in Ops
    /\ \A b \in Browser : login[b].pc # "idle" => login[b].u \in User

\* One administrative request at a time, checked against what it finds, leaves an active
\* administrator of the configuration (assertCanRestrictUser, assertUserCanBeMutated), as
\* long as no wrong passwords block accounts and the roles keep their permissions: neither
\* registerFailedAttempt nor roles.service.ts counts anybody.  Two requests at a time may
\* each count the other's target.
AnAdminRemains ==
    (\A c, d \in mix.clerks : c = d) /\ "wrong" \notin mix.passwords => ConfigAdmins # {}

\* While no administrator edits the account, two sign-ins at a time, whose saves may
\* overwrite each other's count and even a block, never leave the time of a lock on an active
\* account: it is blocked for good or open, and validateForLogin's branch for a lock that is
\* over has nothing to do.  An administrator who reactivates between the two halves of
\* registerFailedAttempt's save leaves an active account that is locked for a quarter of an
\* hour, and so does a third sign-in that takes a block back.
LockComesWithBlock ==
    mix.clerks = {} /\ Cardinality(mix.browsers) <= 2 =>
        \A u \in User : users[u].lockedUntil # NoLock => users[u].estado # "ACTIVO"

\* While no administrator edits the account and no process dies with an attempt that it has
\* not counted yet, two sign-ins at a time may overwrite each other's count and even a block,
\* but not for ever: each round leaves a higher count, so the account takes
\* M + (M-1) + ... + 1 wrong passwords and one more for each round.
WrongPasswordsEnd ==
    mix.clerks = {} /\ mix.faults = 0 /\ Cardinality(mix.browsers) <= 2 =>
        \A u \in User : 2 * wrong[u] <= MaxAttempts * (MaxAttempts + 3)
=============================================================================
