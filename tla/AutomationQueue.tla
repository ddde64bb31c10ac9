--------------------------- MODULE AutomationQueue ---------------------------
(***************************************************************************)
(* employee-data-automation-worker.service.ts: every five seconds each API *)
(* process looks for active employees without a user and for employees     *)
(* whose data is not encrypted, queues a job for each and works the jobs   *)
(* off.  HR edits the same employees meanwhile.                            *)
(*                                                                         *)
(* Time is abstract: a lock may turn 10 minutes old, a back-off may end    *)
(* and a row may reach its age of retention at any moment.                 *)
(***************************************************************************)
EXTENDS Naturals, FiniteSets, FiniteSetsExt

CONSTANTS
    Employee,    \* ids of sys_empleados
    User,        \* ids of sys_usuarios
    Email,
    Worker,      \* API processes: each runs one worker
    Clerk,       \* HR requests in flight
    EmailOf,     \* the address of an employee
    Rival,       \* pairs of employees that differ in company or in cedula
    Unnamed,     \* employees without email or name
    NoUser, NoEmail, NoEmployee,
    MaxAttempts, \* 5 in the code
    ScanLimit,   \* candidates a scan takes: 200 in the code
    Mixes        \* bound: the workers and clerks (actors), the queues and the employees
                 \* that are looked at together, and how many queries may fail or
                 \* processes die

Kind == {"identity", "encrypt"}

ASSUME AutomationAssumption ==
    /\ Employee \subseteq Nat /\ IsFiniteSet(Employee)
    /\ EmailOf \in [Employee -> Email] /\ Unnamed \subseteq Employee
    /\ Rival \subseteq Employee \X Employee
    /\ \A e, x \in Employee : <<e, x>> \in Rival => <<x, e>> \in Rival /\ e # x
    /\ NoUser \notin User /\ NoEmail \notin Email /\ NoEmployee \notin Employee
    /\ Cardinality(User) >= Cardinality(Email)
    /\ MaxAttempts \in Nat \ {0} /\ ScanLimit \in Nat \ {0}
    /\ \A m \in Mixes : m.kinds \subseteq Kind /\ m.employees \subseteq Employee /\ m.faults \in Nat

VARIABLES
    employee,   \* sys_empleados: state, user, the flag datos_encriptados and what is stored
    provision,  \* the employee's aguinaldo provisions are stored in plaintext
    users,      \* sys_usuarios: the address of each
    grants,     \* the company, application and role rows of the users
    configured, \* the application timewise and its role exist and are active
    queue,      \* the two queues: the job of an employee in each
    worker,     \* what each worker has in memory
    clerk,      \* the entity each HR request has read
    faults,
    mix

people == <<employee, provision, users, grants>>
vars == <<employee, provision, users, grants, configured, queue, worker, clerk, faults, mix>>
----------------------------------------------------------------------------
Errors == {"ERROR_CONFIG", "ERROR_DUPLICATE", "ERROR_FATAL"}
JobState == {"NONE", "PENDING", "PROCESSING", "DONE"} \cup Errors
Job == [estado : JobState, attempts : 0..MaxAttempts]
NoJob == [estado |-> "NONE", attempts |-> 0]

EmployeeRow == [activo : BOOLEAN, idUsuario : User \cup {NoUser},
                datosEncriptados : BOOLEAN, plain : BOOLEAN]

Grant == {"company", "app", "role"}

\* A job in memory: its employee and the attempts it had when the batch was read.
Taken == [e : Employee, attempts : 0..MaxAttempts]

IdleWorker == [pc |-> "idle", k |-> "identity", todo |-> {}, e |-> NoEmployee, attempts |-> 0,
               ent |-> NoEmployee, u |-> NoUser, error |-> "none"]

IdleClerk == [e |-> NoEmployee, ent |-> NoEmployee]

SetWorker(w, r) == worker' = [worker EXCEPT ![w] = r]
SetJob(k, e, job) == queue' = [queue EXCEPT ![k][e] = job]

UpdateJob(k, e, estado, attempts) == SetJob(k, e, [estado |-> estado, attempts |-> attempts])

\* A worker has the job in its batch or works on it.
InHands(k, e) == \E w \in Worker : /\ worker[w].k = k
                                    /\ e \in {worker[w].e} \cup {j.e : j \in worker[w].todo}

\* Beyond the limit the number of attempts makes no difference.
Plus1(n) == IF n < MaxAttempts THEN n + 1 ELSE n

KeepClerks == UNCHANGED <<configured, clerk, mix>>
----------------------------------------------------------------------------
(* The housekeeping of a tick, and the same on demand from operations *)

Candidate(k, e) == IF k = "identity" THEN employee[e].activo /\ employee[e].idUsuario = NoUser
                   ELSE ~employee[e].datosEncriptados

\* A scan takes the candidates of lowest id that have no job waiting or in process;
\* those with a row that is DONE or failed fill it too.
Unqueued(k) == {e \in Employee : /\ Candidate(k, e)
                                 /\ queue[k][e].estado \notin {"PENDING", "PROCESSING"}}

Scanned(k) == {e \in Unqueued(k) : Cardinality({x \in Unqueued(k) : x < e}) < ScanLimit}

\* INSERT IGNORE: the dedupe key is unique for ever, so an employee whose job is
\* DONE or failed is not queued again while that row exists.
Enqueue(k, e) ==
    /\ e \in Scanned(k)
    /\ queue[k][e].estado = "NONE"
    /\ SetJob(k, e, [estado |-> "PENDING", attempts |-> 0])
    /\ KeepClerks /\ UNCHANGED <<people, worker, faults>>

\* The lock is 10 minutes old, whether its worker died or is only slow.
ReleaseStuck(k, e) ==
    /\ queue[k][e].estado = "PROCESSING"
    /\ SetJob(k, e, [queue[k][e] EXCEPT !.estado = "PENDING"])
    /\ KeepClerks /\ UNCHANGED <<people, worker, faults>>

\* Mutant: only the failed jobs are purged.
PurgeErrors(k, e) ==
    /\ queue[k][e].estado \in Errors
    /\ ~InHands(k, e)
    /\ SetJob(k, e, NoJob)
    /\ KeepClerks /\ UNCHANGED <<people, worker, faults>>

\* The row has reached its age: 30 days when done, 90 failed, 7 in process; a batch
\* is worked off in minutes.
Purge(k, e) ==
    /\ queue[k][e].estado \in {"DONE", "PROCESSING"} \cup Errors
    /\ ~InHands(k, e)
    /\ SetJob(k, e, NoJob)
    /\ KeepClerks /\ UNCHANGED <<people, worker, faults>>
----------------------------------------------------------------------------
(* A worker and its batch *)

Waiting(k, e) == queue[k][e].estado = "PENDING"

\* A tick works off a batch of one queue, then of the other.
OtherKind(k) == IF k = "identity" THEN "encrypt" ELSE "identity"

NextJob(r) == IF r.todo = {} THEN [IdleWorker EXCEPT !.k = OtherKind(r.k)]
              ELSE [IdleWorker EXCEPT !.pc = "batch", !.k = r.k, !.todo = r.todo]

Fetch(w) ==
    LET r == worker[w]
        jobs == {[e |-> x, attempts |-> queue[r.k][x].attempts] :
                    x \in {y \in Employee : Waiting(r.k, y)}} IN
    /\ r.pc = "idle"
    /\ SetWorker(w, NextJob([r EXCEPT !.todo = jobs]))
    /\ KeepClerks /\ UNCHANGED <<people, queue, faults>>

\* The claim is an UPDATE by id: it does not look whether another worker claimed,
\* finished or failed the job since the batch was read.
Claim(w) ==
    /\ worker[w].pc = "batch"
    /\ \E j \in worker[w].todo :
          /\ UpdateJob(worker[w].k, j.e, "PROCESSING", Plus1(j.attempts))
          /\ SetWorker(w, [worker[w] EXCEPT !.pc = "claimed", !.todo = @ \ {j}, !.e = j.e,
                                            !.attempts = j.attempts])
    /\ KeepClerks /\ UNCHANGED <<people, faults>>

Raise(r, error) == [r EXCEPT !.pc = "failed", !.error = error]

ReadEmployee(w) ==
    LET r == worker[w] row == employee[r.e] IN
    /\ r.pc = "claimed"
    /\ SetWorker(w,
         IF r.k = "encrypt" THEN [r EXCEPT !.pc = "encrypt", !.ent = row]
         ELSE IF ~row.activo \/ row.idUsuario # NoUser THEN [r EXCEPT !.pc = "done"]
         ELSE IF r.e \in Unnamed THEN Raise(r, "ERROR_FATAL")
         ELSE IF ~configured THEN Raise(r, "ERROR_CONFIG")
         ELSE [r EXCEPT !.pc = "user", !.ent = row])
    /\ KeepClerks /\ UNCHANGED <<people, queue, faults>>

\* Mutant: whoever has the address gets the user.
LinkedToNone(u, e) == FALSE

\* A user with the address of the employee is used again, unless the last employee
\* it is linked to is of another company or has another cedula.
LinkedToRival(u, e) ==
    LET linked == {x \in Employee : employee[x].idUsuario = u} IN
    linked # {} /\ Max(linked) # e /\ <<Max(linked), e>> \in Rival

FindUser(w) ==
    LET r == worker[w] known == {u \in User : users[u] = EmailOf[r.e]} IN
    /\ r.pc = "user"
    /\ IF known = {} THEN SetWorker(w, [r EXCEPT !.pc = "create"])
       ELSE \E u \in known :
              SetWorker(w, IF LinkedToRival(u, r.e) THEN Raise(r, "ERROR_DUPLICATE")
                           ELSE [r EXCEPT !.pc = "company", !.u = u])
    /\ KeepClerks /\ UNCHANGED <<people, queue, faults>>

\* The address is unique: the INSERT fails when another worker was faster.
CreateUser(w) ==
    LET r == worker[w] IN
    /\ r.pc = "create"
    /\ IF \E u \in User : users[u] = EmailOf[r.e]
       THEN SetWorker(w, Raise(r, "retry")) /\ UNCHANGED users
       ELSE \E u \in {x \in User : users[x] = NoEmail} :
              /\ users' = [users EXCEPT ![u] = EmailOf[r.e]]
              /\ SetWorker(w, [r EXCEPT !.pc = "company", !.u = u])
    /\ KeepClerks /\ UNCHANGED <<employee, provision, grants, queue, faults>>

\* Mutant: the employee is linked before the role is granted.
RoleLast(pc) == CASE pc = "company" -> "app" [] pc = "app" -> "link" [] pc = "link" -> "role"
                  [] pc = "role" -> "done"

AfterGrant(pc) == CASE pc = "company" -> "app" [] pc = "app" -> "role" [] pc = "role" -> "link"
                    [] pc = "link" -> "done"

GrantAccess(w) ==
    LET r == worker[w] IN
    /\ r.pc \in Grant
    /\ grants' = grants \cup {<<r.u, r.pc>>}
    /\ SetWorker(w, [r EXCEPT !.pc = AfterGrant(r.pc)])
    /\ KeepClerks /\ UNCHANGED <<employee, provision, users, queue, faults>>

\* save() writes the columns in which the entity, read at the start of the job,
\* differs from the row now: the whole entity, whatever HR changed in between.
LinkUser(w) ==
    LET r == worker[w] IN
    /\ r.pc = "link"
    /\ employee' = [employee EXCEPT ![r.e] = [r.ent EXCEPT !.idUsuario = r.u]]
    /\ SetWorker(w, [r EXCEPT !.pc = AfterGrant("link")])
    /\ KeepClerks /\ UNCHANGED <<provision, users, grants, queue, faults>>

\* Mutant: an encryption job ends with the row of the employee.
AfterEncrypt == "done"

NextAfterEncrypt == "provisions"

EncryptEmployee(w) ==
    LET r == worker[w] IN
    /\ r.pc = "encrypt"
    /\ employee' = [employee EXCEPT ![r.e] =
                       [r.ent EXCEPT !.datosEncriptados = TRUE, !.plain = FALSE]]
    /\ SetWorker(w, [r EXCEPT !.pc = NextAfterEncrypt])
    /\ KeepClerks /\ UNCHANGED <<provision, users, grants, queue, faults>>

EncryptProvisions(w) ==
    LET r == worker[w] IN
    /\ r.pc = "provisions"
    /\ provision' = [provision EXCEPT ![r.e] = FALSE]
    /\ SetWorker(w, [r EXCEPT !.pc = "done"])
    /\ KeepClerks /\ UNCHANGED <<employee, users, grants, queue, faults>>

MarkDone(w) ==
    LET r == worker[w] IN
    /\ r.pc = "done"
    /\ UpdateJob(r.k, r.e, "DONE", queue[r.k][r.e].attempts)
    /\ SetWorker(w, NextJob(r))
    /\ KeepClerks /\ UNCHANGED <<people, faults>>

\* Mutant: every error is taken for a terminal one.
RawState(r) == r.error

\* failJob: terminal errors as they are, the others until the attempts are used up.
FailedState(r) == IF r.error # "retry" THEN r.error
                  ELSE IF Plus1(r.attempts) >= MaxAttempts THEN "ERROR_FATAL" ELSE "PENDING"

FailJob(w) ==
    LET r == worker[w] IN
    /\ r.pc = "failed"
    /\ UpdateJob(r.k, r.e, FailedState(r), queue[r.k][r.e].attempts)
    /\ SetWorker(w, NextJob(r))
    /\ KeepClerks /\ UNCHANGED <<people, faults>>

Work(w) ==
    \/ Fetch(w) \/ Claim(w) \/ ReadEmployee(w) \/ FindUser(w) \/ CreateUser(w) \/ GrantAccess(w)
    \/ LinkUser(w) \/ EncryptEmployee(w) \/ EncryptProvisions(w) \/ MarkDone(w) \/ FailJob(w)

\* A query of a job fails; the job catches it.
QueryFails(w) ==
    /\ worker[w].pc \notin {"idle", "batch", "failed"}
    /\ faults < mix.faults
    /\ faults' = faults + 1
    /\ SetWorker(w, Raise(worker[w], "retry"))
    /\ KeepClerks /\ UNCHANGED <<people, queue>>

\* The process dies, or the UPDATE that ends a job fails and the tick with it:
\* the job stays PROCESSING.
WorkerDies(w) ==
    /\ worker[w].pc # "idle"
    /\ faults < mix.faults
    /\ faults' = faults + 1
    /\ SetWorker(w, IdleWorker)
    /\ KeepClerks /\ UNCHANGED <<people, queue>>
----------------------------------------------------------------------------
(* HR: employees.service.ts *)

\* inactivate, reactivate and liquidar read the employee decrypted ...
LoadReadable(h, e) ==
    /\ clerk[h] = IdleClerk
    /\ clerk' = [clerk EXCEPT ![h] = [e |-> e, ent |-> [employee[e] EXCEPT !.plain = TRUE]]]
    /\ UNCHANGED <<people, configured, queue, worker, faults, mix>>

\* ... and save what they read, with the new state: decrypted fields, the old
\* user, and (liquidar) the flag that says the data is encrypted.
SaveReadable(h, activo, flag) ==
    LET r == clerk[h] IN
    /\ r.e # NoEmployee
    /\ flag \in {r.ent.datosEncriptados, TRUE} /\ (activo => flag = r.ent.datosEncriptados)
    /\ employee' = [employee EXCEPT ![r.e] =
                       [r.ent EXCEPT !.activo = activo, !.datosEncriptados = flag]]
    /\ clerk' = [clerk EXCEPT ![h] = IdleClerk]
    /\ UNCHANGED <<provision, users, grants, configured, queue, worker, faults, mix>>

\* update encrypts the fields of the request, all or some, and sets the flag; it
\* reads and writes in one transaction.
UpdateEmployee(e, all) ==
    /\ employee' = [employee EXCEPT ![e].datosEncriptados = TRUE, ![e].plain = @ /\ ~all]
    /\ UNCHANGED <<provision, users, grants, configured, queue, worker, clerk, faults, mix>>

\* Somebody creates, or removes, the application or its role.
Configure ==
    /\ configured' = ~configured
    /\ UNCHANGED <<people, queue, worker, clerk, faults, mix>>
----------------------------------------------------------------------------
\* Employees outside the mix have left the company.
Init ==
    /\ mix \in Mixes
    /\ \E old \in IF "encrypt" \in mix.kinds THEN {{}, mix.employees} ELSE {{}} :
          /\ employee = [e \in Employee |-> [activo |-> e \in mix.employees, idUsuario |-> NoUser,
                            datosEncriptados |-> e \notin old, plain |-> e \in old]]
          /\ provision = [e \in Employee |-> e \in old]
    /\ users = [u \in User |-> NoEmail]
    /\ grants = {}
    /\ configured = TRUE
    /\ queue = [k \in Kind |-> [e \in Employee |-> NoJob]]
    /\ worker = [w \in Worker |-> IdleWorker]
    /\ clerk = [h \in Clerk |-> IdleClerk]
    /\ faults = 0

Workers == Worker \cap mix.actors
Clerks == Clerk \cap mix.actors

Next ==
    \/ \E k \in mix.kinds, e \in mix.employees : Enqueue(k, e) \/ ReleaseStuck(k, e) \/ Purge(k, e)
    \/ \E w \in Workers : Work(w) \/ QueryFails(w) \/ WorkerDies(w)
    \/ \E h \in Clerks, e \in mix.employees : LoadReadable(h, e)
    \/ \E h \in Clerks, activo, flag \in BOOLEAN : SaveReadable(h, activo, flag)
    \/ \E e \in mix.employees, all \in BOOLEAN : Clerks # {} /\ UpdateEmployee(e, all)
    \/ "config" \in mix.actors /\ Configure

Spec == Init /\ [][Next]_vars

\* The timer of every worker fires for ever, a worker goes on with its tick, and
\* rows reach the ages at which they are released and purged.
FairSpec ==
    /\ Spec
    /\ \A k \in Kind, e \in Employee :
          LET here == k \in mix.kinds /\ e \in mix.employees IN
          /\ WF_vars(here /\ Enqueue(k, e))
          /\ WF_vars(here /\ ReleaseStuck(k, e))
          /\ WF_vars(here /\ Purge(k, e))
    /\ \A w \in Worker : WF_vars(w \in Workers /\ Work(w))
----------------------------------------------------------------------------
WorkerState == [pc : {"idle", "batch", "claimed", "user", "create", "company", "app", "role",
                      "link", "encrypt", "provisions", "done", "failed"},
                k : Kind, todo : SUBSET Taken, e : Employee \cup {NoEmployee},
                attempts : 0..MaxAttempts, ent : EmployeeRow \cup {NoEmployee},
                u : User \cup {NoUser}, error : Errors \cup {"none", "retry"}]

\* The tables and what workers and requests remember hold what their columns and
\* types allow; in particular a job that fails does not leave the known states.
TypeOK ==
    /\ employee \in [Employee -> EmployeeRow]
    /\ provision \in [Employee -> BOOLEAN]
    /\ users \in [User -> Email \cup {NoEmail}]
    /\ grants \subseteq User \X Grant
    /\ configured \in BOOLEAN
    /\ queue \in [Kind -> [Employee -> Job]]
    /\ worker \in [Worker -> WorkerState]
    /\ clerk \in [Clerk -> [e : Employee \cup {NoEmployee}, ent : EmployeeRow \cup {NoEmployee}]]
    /\ faults \in 0..mix.faults

\* An employee who is linked to a user can work: the user was granted the company,
\* the application and the role before, however many workers shared the job, failed
\* or died on the way, and whatever HR saved over it.
LinkedIsProvisioned ==
    \A e \in Employee : employee[e].idUsuario # NoUser => {employee[e].idUsuario} \X Grant \subseteq grants

\* The last linked employee speaks for all that share its user: so it is where every
\* employee has a cedula, and rivals are those with another company or another cedula.
KinIsTransitive ==
    \A e, x, y \in Employee : <<e, y>> \in Rival => <<e, x>> \in Rival \/ <<x, y>> \in Rival

\* While one worker runs and HR's requests do not overlap, two employees of different
\* companies or with different cedulas never share a user, although they share an
\* address and HR's stale saves unlink the first one.  (Two workers break it: both find
\* the user unlinked.  So do two requests: one unlinks the employee, the other saves the
\* old user back once the rival has it.)
SharedUserIsKin ==
    (\A v, w \in Workers : v = w) /\ (\A g, h \in Clerks : g = h) /\ KinIsTransitive =>
        \A e, x \in Employee :
            <<e, x>> \in Rival => \/ employee[e].idUsuario = NoUser
                                 \/ employee[e].idUsuario # employee[x].idUsuario

\* A job of encryption that says DONE left no provision in plaintext behind, also
\* when an earlier attempt died between the employee and the provisions.
DoneIsEncrypted == \A e \in Employee : queue["encrypt"][e].estado = "DONE" => ~provision[e]

\* An active employee without user gets one or a job with a terminal error for a
\* person to look at, again and again whenever HR takes the user away: no crash, lost
\* lock or finished row of an earlier job blocks its own queue for ever.  Only the scan
\* can: ScanLimit candidates of lower id, whose rows are DONE or failed, may fill it
\* again and again and keep those behind them out.
CandidateServed ==
    \A e \in Employee :
        []<>(\/ "identity" \notin mix.kinds
             \/ ~employee[e].activo \/ employee[e].idUsuario # NoUser
             \/ queue["identity"][e].estado \in Errors
             \/ e \in Unqueued("identity") \ Scanned("identity"))

\* Claim of docs/Doc Vieja/automatizaciones/05-reglas-negocio.md:6, "Empleado activo debe
\* terminar con datos sensibles cifrados": active employees end up encrypted.
ActiveEndsEncrypted ==
    \A e \in Employee : []<>(~employee[e].activo \/ ~employee[e].plain)
=============================================================================
