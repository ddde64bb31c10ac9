-------------------------- MODULE AutomationProofs --------------------------
(***************************************************************************)
(* What holds of the automation queues for any number of employees, users, *)
(* workers and HR requests, whatever fails or dies.                        *)
(***************************************************************************)
EXTENDS AutomationQueue, FiniteSetTheorems, WellFoundedInduction, TLAPS

\* Grants are never taken back.  So a row, or a copy of one that somebody may save
\* later, that names a user names one who was granted everything.
Provisioned(row) == row.idUsuario # NoUser => {row.idUsuario} \X Grant \subseteq grants

Granted(u, part) == <<u, part>> \in grants

\* What a worker knows at each step of a job: the employee, the entity it will save,
\* what was granted to the user so far, and that the provisions of an encryption job
\* that is about to say DONE are encrypted.
Knows(r) ==
    /\ r.pc \notin {"idle", "batch"} => r.e \in Employee
    /\ r.pc \in {"user", "create", "company", "app", "role", "link"} => r.k = "identity"
    /\ r.pc \in {"user", "create", "company", "app", "role", "link", "encrypt"} =>
          r.ent \in EmployeeRow /\ Provisioned(r.ent)
    /\ r.pc \in {"company", "app", "role", "link"} => r.u \in User
    /\ r.pc \in {"app", "role", "link"} => Granted(r.u, "company")
    /\ r.pc \in {"role", "link"} => Granted(r.u, "app")
    /\ r.pc = "link" => Granted(r.u, "role")
    /\ r.pc = "done" /\ r.k = "encrypt" => ~provision[r.e]
    /\ r.pc = "failed" => r.error # "none"

Tables ==
    /\ \A e \in Employee : Provisioned(employee[e])
    /\ \A h \in Clerk : clerk[h].e # NoEmployee =>
                            clerk[h].ent \in EmployeeRow /\ Provisioned(clerk[h].ent)
    /\ DoneIsEncrypted

TablesTyped ==
    /\ employee \in [Employee -> EmployeeRow]
    /\ provision \in [Employee -> BOOLEAN]
    /\ users \in [User -> Email \cup {NoEmail}]
    /\ grants \subseteq User \X Grant
    /\ configured \in BOOLEAN
    /\ queue \in [Kind -> [Employee -> Job]]
    /\ clerk \in [Clerk -> [e : Employee \cup {NoEmployee}, ent : EmployeeRow \cup {NoEmployee}]]
    /\ faults \in 0..mix.faults

Workings ==
    /\ worker \in [Worker -> WorkerState]
    /\ \A w \in Worker : Knows(worker[w])

\* The inductive invariant.
IInv == mix \in Mixes /\ TablesTyped /\ Tables /\ Workings

\* What no step ever does: take back a grant, or put a provision back into plaintext.
Forward == grants \subseteq grants' /\ \A e \in Employee : provision'[e] => provision[e]

----------------------------------------------------------------------------
(* Rows and what is known of them *)

LEMMA ProvisionedStays ==
    ASSUME Forward, NEW row, Provisioned(row) PROVE Provisioned(row)'
  BY DEF Forward, Provisioned

LEMMA KnowsStays ==
    ASSUME Forward, NEW r, Knows(r) PROVE Knows(r)'
<1>1. r.e \in Employee => (provision'[r.e] => provision[r.e])
  BY DEF Forward
<1>2. \A part : Granted(r.u, part) => Granted(r.u, part)'
  BY DEF Forward, Granted
<1>3. Provisioned(r.ent) => Provisioned(r.ent)'
  BY DEF Forward, Provisioned
<1> QED
  BY <1>1, <1>2, <1>3 DEF Knows

\* A step that changes no worker leaves their knowledge true.
LEMMA WorkingsStay ==
    ASSUME IInv, Forward, UNCHANGED worker PROVE Workings'
<1>1. \A w \in Worker : Knows(worker[w])'
  BY KnowsStays DEF IInv, Workings
<1> QED
  BY <1>1 DEF IInv, Workings

\* A step of one worker leaves that of the others true.
LEMMA WorkerMoves ==
    ASSUME IInv, Forward, NEW w \in Worker, NEW r \in WorkerState, SetWorker(w, r), Knows(r)'
    PROVE  Workings'
<1>1. ASSUME NEW x \in Worker PROVE Knows(worker[x])'
  <2>1. CASE x = w
    BY <2>1 DEF IInv, Workings, SetWorker
  <2>2. CASE x # w
    <3>1. Knows(worker[x])
      BY DEF IInv, Workings
    <3>2. worker'[x] = worker[x]
      BY <2>2 DEF IInv, Workings, SetWorker
    <3> QED
      BY <3>1, <3>2, KnowsStays
  <2> QED
    BY <2>1, <2>2
<1>2. worker' \in [Worker -> WorkerState]
  BY DEF IInv, Workings, SetWorker
<1> QED
  BY <1>1, <1>2 DEF Workings

\* A step of one worker that changes no table.
LEMMA WorkerOnly ==
    ASSUME IInv, NEW w \in Worker, NEW r \in WorkerState, SetWorker(w, r), Knows(r),
           faults' \in 0..mix.faults, UNCHANGED <<people, queue, configured, clerk, mix>>
    PROVE  IInv'
<1>1. Forward
  BY DEF Forward, people
<1>2. Knows(r)'
  BY <1>1, KnowsStays
<1>3. TablesTyped'
  BY DEF IInv, TablesTyped, people
<1>4. Tables'
  BY DEF IInv, Tables, DoneIsEncrypted, Provisioned, people
<1> QED
  BY <1>1, <1>2, <1>3, <1>4, WorkerMoves DEF IInv

\* A job that says DONE in the queue of encryption is one whose provisions are.
LEMMA JobKeeps ==
    ASSUME IInv, NEW k \in Kind, NEW e \in Employee, NEW job \in Job, SetJob(k, e, job),
           job.estado = "DONE" /\ k = "encrypt" => ~provision[e],
           UNCHANGED <<people, configured, clerk, faults, mix>>
    PROVE  TablesTyped' /\ Tables' /\ Forward
<1>1. Forward
  BY DEF Forward, people
<1>2. TablesTyped'
  BY DEF IInv, TablesTyped, people, SetJob
<1>3. DoneIsEncrypted'
  <2> SUFFICES ASSUME NEW x \in Employee, queue'["encrypt"][x].estado = "DONE"
               PROVE  ~provision[x]
    BY DEF DoneIsEncrypted, people
  <2>1. CASE k = "encrypt" /\ x = e
    BY <2>1 DEF IInv, TablesTyped, SetJob
  <2>2. CASE ~(k = "encrypt" /\ x = e)
    <3>1. queue'["encrypt"][x] = queue["encrypt"][x]
      BY <2>2 DEF IInv, TablesTyped, SetJob, Kind
    <3> QED
      BY <3>1 DEF IInv, Tables, DoneIsEncrypted
  <2> QED
    BY <2>1, <2>2
<1>4. Tables'
  BY <1>3 DEF IInv, Tables, Provisioned, people
<1> QED
  BY <1>1, <1>2, <1>4

\* Whoever saves an employee saves a row that names nobody, or one with all grants.
LEMMA RowKeeps ==
    ASSUME IInv, NEW e \in Employee, NEW row \in EmployeeRow, Provisioned(row),
           employee' = [employee EXCEPT ![e] = row],
           UNCHANGED <<provision, users, grants, configured, queue, faults, mix>>
    PROVE  /\ Forward
           /\ clerk' = clerk => TablesTyped' /\ Tables'
<1>1. Forward
  BY DEF Forward
<1>2. clerk' = clerk => TablesTyped'
  BY DEF IInv, TablesTyped
<1>3. clerk' = clerk => Tables'
  BY DEF IInv, TablesTyped, Tables, Provisioned, DoneIsEncrypted
<1> QED
  BY <1>1, <1>2, <1>3
----------------------------------------------------------------------------
(* Initial states and housekeeping *)

LEMMA InitInductive == Init => IInv
<1> SUFFICES ASSUME Init PROVE IInv
  OBVIOUS
<1> USE DEF Init
<1>1. mix \in Mixes /\ mix.faults \in Nat
  BY AutomationAssumption
<1>2. NoJob \in Job /\ NoJob.estado # "DONE"
  BY AutomationAssumption DEF NoJob, Job, JobState
<1>3. TablesTyped
  BY <1>1, <1>2 DEF TablesTyped, EmployeeRow, IdleClerk
<1>4. Tables
  BY <1>2 DEF Tables, Provisioned, DoneIsEncrypted, IdleClerk, Kind
<1>5. IdleWorker \in WorkerState /\ IdleWorker.pc = "idle"
  BY AutomationAssumption DEF IdleWorker, WorkerState, Kind
<1>6. Workings
  BY <1>5 DEF Workings, Knows
<1> QED
  BY <1>1, <1>3, <1>4, <1>6 DEF IInv

LEMMA HousekeepingInductive ==
    ASSUME IInv, NEW k \in Kind, NEW e \in Employee,
           Enqueue(k, e) \/ ReleaseStuck(k, e) \/ Purge(k, e)
    PROVE  IInv'
<1>1. \E job \in Job : job.estado # "DONE" /\ SetJob(k, e, job)
  <2>1. [estado |-> "PENDING", attempts |-> 0] \in Job /\ NoJob \in Job
    BY AutomationAssumption DEF Job, JobState, NoJob
  <2>2. [queue[k][e] EXCEPT !.estado = "PENDING"] \in Job
    BY DEF IInv, TablesTyped, Job, JobState
  <2>3. CASE Enqueue(k, e)
    BY <2>1, <2>3 DEF Enqueue
  <2>4. CASE ReleaseStuck(k, e)
    BY <2>2, <2>4 DEF ReleaseStuck, IInv, TablesTyped, Job
  <2>5. CASE Purge(k, e)
    BY <2>1, <2>5 DEF Purge, NoJob
  <2> QED
    BY <2>3, <2>4, <2>5
<1>2. UNCHANGED <<people, configured, clerk, worker, faults, mix>>
  BY DEF Enqueue, ReleaseStuck, Purge, KeepClerks
<1> QED
  BY <1>1, <1>2, JobKeeps, WorkingsStay DEF IInv
----------------------------------------------------------------------------
(* The steps of a worker *)

LEMMA NextJobIdle ==
    ASSUME NEW r \in WorkerState
    PROVE  NextJob(r) \in WorkerState /\ Knows(NextJob(r))
<1>1. IdleWorker \in WorkerState
  BY AutomationAssumption DEF IdleWorker, WorkerState, Kind
<1>2. r.k \in Kind /\ r.todo \in SUBSET Taken /\ OtherKind(r.k) \in Kind
  BY DEF WorkerState, OtherKind, Kind
<1>3. NextJob(r) \in WorkerState
  BY <1>1, <1>2 DEF NextJob, WorkerState
<1>4. NextJob(r).pc \in {"idle", "batch"}
  BY DEF NextJob, IdleWorker
<1> QED
  BY <1>3, <1>4 DEF Knows

LEMMA Raised ==
    ASSUME NEW r \in WorkerState, r.e \in Employee, NEW error \in Errors \cup {"retry"}
    PROVE  Raise(r, error) \in WorkerState /\ Knows(Raise(r, error))
  BY DEF Raise, WorkerState, Knows, Errors

LEMMA NewAttempts ==
    ASSUME NEW n \in 0..MaxAttempts PROVE Plus1(n) \in 0..MaxAttempts
  BY AutomationAssumption DEF Plus1

\* What a worker that is not between two jobs holds.
LEMMA Busy ==
    ASSUME IInv, NEW w \in Worker
    PROVE  /\ worker[w] \in WorkerState /\ Knows(worker[w])
           /\ worker[w].pc \notin {"idle", "batch"} => worker[w].e \in Employee
           /\ faults \in 0..mix.faults /\ mix.faults \in Nat
  BY AutomationAssumption DEF IInv, TablesTyped, Workings, Knows

LEMMA ReadingInductive ==
    ASSUME IInv, NEW w \in Worker, Fetch(w) \/ ReadEmployee(w) \/ FindUser(w)
    PROVE  IInv'
<1> DEFINE r == worker[w]
<1>0. /\ r \in WorkerState /\ Knows(r) /\ faults' \in 0..mix.faults
      /\ UNCHANGED <<people, queue, configured, clerk, mix>>
  BY Busy DEF Fetch, ReadEmployee, FindUser, KeepClerks
<1>1. SUFFICES \E x \in WorkerState : SetWorker(w, x) /\ Knows(x)
  BY <1>0, WorkerOnly
<1>2. CASE Fetch(w)
  <2> DEFINE jobs == {[e |-> x, attempts |-> queue[r.k][x].attempts] :
                         x \in {y \in Employee : Waiting(r.k, y)}}
  <2>1. jobs \subseteq Taken
    BY <1>0 DEF IInv, TablesTyped, Job, Taken, WorkerState
  <2> HIDE DEF jobs
  <2>2. [r EXCEPT !.todo = jobs] \in WorkerState
    BY <2>1, <1>0 DEF WorkerState
  <2>3. SetWorker(w, NextJob([r EXCEPT !.todo = jobs]))
    BY <1>2 DEF Fetch, jobs
  <2> QED
    BY <2>2, <2>3, NextJobIdle
<1>3. CASE ReadEmployee(w)
  <2> DEFINE row == employee[r.e]
  <2>1. r.pc = "claimed" /\ r.e \in Employee
    BY <1>3, <1>0 DEF ReadEmployee, Knows
  <2>2. row \in EmployeeRow /\ Provisioned(row)
    BY <2>1 DEF IInv, TablesTyped, Tables
  <2>3. \/ r.k = "encrypt" /\ SetWorker(w, [r EXCEPT !.pc = "encrypt", !.ent = row])
        \/ r.k # "encrypt" /\ SetWorker(w, [r EXCEPT !.pc = "done"])
        \/ r.k # "encrypt" /\ SetWorker(w, [r EXCEPT !.pc = "user", !.ent = row])
        \/ SetWorker(w, Raise(r, "ERROR_FATAL")) \/ SetWorker(w, Raise(r, "ERROR_CONFIG"))
    BY <1>3 DEF ReadEmployee
  <2>4. /\ [r EXCEPT !.pc = "encrypt", !.ent = row] \in WorkerState
        /\ Knows([r EXCEPT !.pc = "encrypt", !.ent = row])
    BY <1>0, <2>1, <2>2 DEF WorkerState, Knows
  <2>5. r.k # "encrypt" => /\ [r EXCEPT !.pc = "done"] \in WorkerState
                           /\ Knows([r EXCEPT !.pc = "done"])
    BY <1>0, <2>1 DEF WorkerState, Knows
  <2>6. r.k # "encrypt" => /\ [r EXCEPT !.pc = "user", !.ent = row] \in WorkerState
                           /\ Knows([r EXCEPT !.pc = "user", !.ent = row])
    BY <1>0, <2>1, <2>2 DEF WorkerState, Knows, Kind
  <2> HIDE DEF r, row
  <2> QED
    BY <2>1, <2>3, <2>4, <2>5, <2>6, <1>0, Raised DEF Errors
<1>4. CASE FindUser(w)
  <2>1. /\ r.pc = "user" /\ r.e \in Employee /\ r.k = "identity"
        /\ r.ent \in EmployeeRow /\ Provisioned(r.ent)
    BY <1>4, <1>0 DEF FindUser, Knows
  <2>2. \/ SetWorker(w, [r EXCEPT !.pc = "create"])
        \/ SetWorker(w, Raise(r, "ERROR_DUPLICATE"))
        \/ \E u \in User : SetWorker(w, [r EXCEPT !.pc = "company", !.u = u])
    BY <1>4 DEF FindUser
  <2>3. [r EXCEPT !.pc = "create"] \in WorkerState /\ Knows([r EXCEPT !.pc = "create"])
    BY <1>0, <2>1 DEF WorkerState, Knows
  <2>4. ASSUME NEW u \in User
        PROVE  /\ [r EXCEPT !.pc = "company", !.u = u] \in WorkerState
               /\ Knows([r EXCEPT !.pc = "company", !.u = u])
    BY <1>0, <2>1 DEF WorkerState, Knows
  <2> HIDE DEF r
  <2> QED
    BY <2>1, <2>2, <2>3, <2>4, <1>0, Raised DEF Errors
<1> QED
  BY <1>2, <1>3, <1>4

\* A claim moves the job and the worker together.
LEMMA ClaimInductive ==
    ASSUME IInv, NEW w \in Worker, Claim(w)
    PROVE  IInv'
<1> DEFINE r == worker[w]
<1>1. PICK j \in r.todo :
          /\ UpdateJob(r.k, j.e, "PROCESSING", Plus1(j.attempts))
          /\ SetWorker(w, [r EXCEPT !.pc = "claimed", !.todo = @ \ {j}, !.e = j.e,
                                    !.attempts = j.attempts])
  BY DEF Claim
<1>2. r \in WorkerState /\ j.e \in Employee /\ j.attempts \in 0..MaxAttempts /\ r.k \in Kind
  BY Busy DEF WorkerState, Taken
<1>3. PICK x \in WorkerState : SetWorker(w, x) /\ Knows(x)
  <2> DEFINE y == [r EXCEPT !.pc = "claimed", !.todo = @ \ {j}, !.e = j.e,
                            !.attempts = j.attempts]
  <2>1. r.todo \ {j} \in SUBSET Taken
    BY <1>2 DEF WorkerState
  <2>2. y \in WorkerState /\ y.pc = "claimed" /\ y.e = j.e
    BY <1>2, <2>1 DEF WorkerState
  <2>3. Knows(y)
    BY <1>2, <2>2 DEF Knows
  <2> QED
    BY <1>1, <2>2, <2>3
<1>4. [estado |-> "PROCESSING", attempts |-> Plus1(j.attempts)] \in Job
  BY <1>2, NewAttempts DEF Job, JobState
<1>5. UNCHANGED <<people, configured, clerk, faults, mix>>
  BY DEF Claim, KeepClerks
<1>6. TablesTyped' /\ Tables' /\ Forward
  BY <1>1, <1>2, <1>4, <1>5, JobKeeps DEF UpdateJob
<1>7. Knows(x)'
  BY <1>3, <1>6, KnowsStays
<1> QED
  BY <1>3, <1>5, <1>6, <1>7, WorkerMoves DEF IInv

\* The end of a job: what MarkDone says of an encryption job was seen to.
LEMMA EndInductive ==
    ASSUME IInv, NEW w \in Worker, MarkDone(w) \/ FailJob(w)
    PROVE  IInv'
<1> DEFINE r == worker[w]
<1>1. /\ r \in WorkerState /\ Knows(r) /\ r.e \in Employee /\ r.k \in Kind
      /\ queue[r.k][r.e].attempts \in 0..MaxAttempts
  <2>1. r \in WorkerState /\ Knows(r) /\ r.e \in Employee
    BY Busy DEF MarkDone, FailJob
  <2>2. r.k \in Kind
    BY <2>1 DEF WorkerState
  <2> QED
    BY <2>1, <2>2 DEF IInv, TablesTyped, Job
<1>2. PICK estado \in JobState :
          /\ UpdateJob(r.k, r.e, estado, queue[r.k][r.e].attempts)
          /\ estado = "DONE" /\ r.k = "encrypt" => ~provision[r.e]
  <2>1. CASE MarkDone(w)
    BY <2>1, <1>1 DEF MarkDone, Knows, JobState
  <2>2. CASE FailJob(w)
    <3>1. r.error \in Errors \cup {"retry"}
      BY <2>2, <1>1 DEF FailJob, Knows, WorkerState
    <3>2. FailedState(r) \in JobState /\ FailedState(r) # "DONE"
      BY <3>1 DEF FailedState, JobState, Errors
    <3> QED
      BY <2>2, <3>2 DEF FailJob
  <2> QED
    BY <2>1, <2>2
<1>3. /\ SetWorker(w, NextJob(r))
      /\ UNCHANGED <<people, configured, clerk, faults, mix>>
  BY DEF MarkDone, FailJob, KeepClerks
<1>4. [estado |-> estado, attempts |-> queue[r.k][r.e].attempts] \in Job
  BY <1>1 DEF Job
<1> HIDE DEF r
<1>5. TablesTyped' /\ Tables' /\ Forward
  BY <1>1, <1>2, <1>3, <1>4, JobKeeps DEF UpdateJob
<1>6. PICK x \in WorkerState : SetWorker(w, x) /\ Knows(x)
  BY <1>1, <1>3, NextJobIdle
<1>7. Knows(x)'
  BY <1>5, <1>6, KnowsStays
<1> QED
  BY <1>3, <1>5, <1>6, <1>7, WorkerMoves DEF IInv

\* A user is found or created before anything is granted to it.
LEMMA CreateUserInductive ==
    ASSUME IInv, NEW w \in Worker, CreateUser(w)
    PROVE  IInv'
<1> DEFINE r == worker[w]
<1>1. /\ r \in WorkerState /\ Knows(r) /\ r.pc = "create" /\ r.e \in Employee
      /\ r.k = "identity" /\ r.ent \in EmployeeRow /\ Provisioned(r.ent)
  BY Busy DEF CreateUser, Knows
<1>2. UNCHANGED <<employee, provision, grants, queue, faults, configured, clerk, mix>>
  BY DEF CreateUser, KeepClerks
<1>3. PICK x \in WorkerState : SetWorker(w, x) /\ Knows(x)
  <2>1. CASE SetWorker(w, Raise(r, "retry"))
    BY <1>1, <2>1, Raised
  <2>2. ASSUME NEW u \in User, SetWorker(w, [r EXCEPT !.pc = "company", !.u = u])
        PROVE  \E x \in WorkerState : SetWorker(w, x) /\ Knows(x)
    <3> DEFINE y == [r EXCEPT !.pc = "company", !.u = u]
    <3>1. y \in WorkerState /\ Knows(y)
      BY <1>1 DEF WorkerState, Knows
    <3> QED
      BY <2>2, <3>1
  <2> QED
    BY <2>1, <2>2 DEF CreateUser
<1>4. users' \in [User -> Email \cup {NoEmail}]
  <2>1. EmailOf[r.e] \in Email
    BY <1>1, AutomationAssumption
  <2> QED
    BY <2>1 DEF CreateUser, IInv, TablesTyped
<1>5. Forward
  BY <1>2 DEF Forward
<1>6. TablesTyped'
  BY <1>2, <1>4 DEF IInv, TablesTyped
<1>7. Tables'
  BY <1>2 DEF IInv, Tables, Provisioned, DoneIsEncrypted
<1>8. Knows(x)'
  BY <1>3, <1>5, KnowsStays
<1> QED
  BY <1>2, <1>3, <1>5, <1>6, <1>7, <1>8, WorkerMoves DEF IInv

\* The parts are granted in order, the link comes last.
LEMMA GrantInductive ==
    ASSUME IInv, NEW w \in Worker, GrantAccess(w)
    PROVE  IInv'
<1>1. PICK r \in WorkerState : r = worker[w]
  BY Busy
<1>2. /\ Knows(r) /\ r.pc \in {"company", "app", "role"} /\ r.e \in Employee /\ r.u \in User
      /\ r.k = "identity" /\ r.ent \in EmployeeRow /\ Provisioned(r.ent)
  BY <1>1, Busy DEF GrantAccess, Grant, Knows
<1>3. /\ grants' = grants \cup {<<r.u, r.pc>>}
      /\ UNCHANGED <<employee, provision, users, queue, faults, configured, clerk, mix>>
  BY <1>1 DEF GrantAccess, KeepClerks
<1>4. PICK x \in WorkerState : x = [r EXCEPT !.pc = AfterGrant(r.pc)]
  <2>1. AfterGrant(r.pc) \in {"app", "role", "link"}
    BY <1>2 DEF AfterGrant
  <2> QED
    BY <2>1 DEF WorkerState
<1>5. SetWorker(w, x)
  BY <1>1, <1>4 DEF GrantAccess
<1>6. Forward
  BY <1>3 DEF Forward
<1>7. Knows(r)' /\ Granted(r.u, r.pc)'
  BY <1>2, <1>3, <1>6, KnowsStays DEF Granted
<1>8. Knows(x)'
  <2>1. x.e = r.e /\ x.k = r.k /\ x.u = r.u /\ x.ent = r.ent
    BY <1>4 DEF WorkerState
  <2>2. CASE r.pc = "company"
    <3>1. x.pc = "app"
      BY <1>4, <2>2 DEF AfterGrant, WorkerState
    <3> QED
      BY <1>2, <1>7, <2>1, <2>2, <3>1 DEF Knows
  <2>3. CASE r.pc = "app"
    <3>1. x.pc = "role"
      BY <1>4, <2>3 DEF AfterGrant, WorkerState
    <3> QED
      BY <1>2, <1>7, <2>1, <2>3, <3>1 DEF Knows
  <2>4. CASE r.pc = "role"
    <3>1. x.pc = "link"
      BY <1>4, <2>4 DEF AfterGrant, WorkerState
    <3> QED
      BY <1>2, <1>7, <2>1, <2>4, <3>1 DEF Knows
  <2> QED
    BY <1>2, <2>2, <2>3, <2>4
<1>9. TablesTyped'
  BY <1>2, <1>3 DEF IInv, TablesTyped, Grant
<1>10. Tables'
  BY <1>3, <1>6 DEF IInv, Tables, Provisioned, DoneIsEncrypted
<1> QED
  BY <1>3, <1>5, <1>6, <1>8, <1>9, <1>10, WorkerMoves DEF IInv

\* The two saves of an employee: the user that was granted everything, and the data
\* encrypted under the user that was read.
LEMMA SavesInductive ==
    ASSUME IInv, NEW w \in Worker, LinkUser(w) \/ EncryptEmployee(w)
    PROVE  IInv'
<1>1. PICK r \in WorkerState : r = worker[w]
  BY Busy
<1>2. /\ Knows(r) /\ r.e \in Employee /\ r.ent \in EmployeeRow /\ Provisioned(r.ent)
  BY <1>1, Busy DEF LinkUser, EncryptEmployee, Knows
<1>3. UNCHANGED <<provision, users, grants, queue, faults, configured, clerk, mix>>
  BY DEF LinkUser, EncryptEmployee, KeepClerks
<1>4. \E row \in EmployeeRow : Provisioned(row) /\ employee' = [employee EXCEPT ![r.e] = row]
  <2>1. CASE LinkUser(w)
    <3> DEFINE row == [r.ent EXCEPT !.idUsuario = r.u]
    <3>1. /\ r.u \in User /\ Granted(r.u, "company") /\ Granted(r.u, "app")
          /\ Granted(r.u, "role")
      BY <2>1, <1>1, <1>2 DEF LinkUser, Knows
    <3>2. row \in EmployeeRow /\ row.idUsuario = r.u
      BY <1>2, <3>1 DEF EmployeeRow
    <3>3. Provisioned(row)
      BY <3>1, <3>2 DEF Provisioned, Granted, Grant
    <3> QED
      BY <2>1, <1>1, <3>2, <3>3 DEF LinkUser
  <2>2. CASE EncryptEmployee(w)
    <3> DEFINE row == [r.ent EXCEPT !.datosEncriptados = TRUE, !.plain = FALSE]
    <3>1. row \in EmployeeRow /\ row.idUsuario = r.ent.idUsuario
      BY <1>2 DEF EmployeeRow
    <3>2. Provisioned(row)
      BY <1>2, <3>1 DEF Provisioned
    <3> QED
      BY <2>2, <1>1, <3>1, <3>2 DEF EncryptEmployee
  <2> QED
    BY <2>1, <2>2
<1>5. Forward /\ TablesTyped' /\ Tables'
  BY <1>2, <1>3, <1>4, RowKeeps
<1>6. PICK x \in WorkerState : SetWorker(w, x) /\ Knows(x)
  <2>1. CASE LinkUser(w)
    <3> DEFINE y == [r EXCEPT !.pc = AfterGrant("link")]
    <3>1. r.k = "identity"
      BY <2>1, <1>1, <1>2 DEF LinkUser, Knows
    <3>2. y \in WorkerState /\ Knows(y)
      BY <1>2, <3>1 DEF AfterGrant, WorkerState, Knows
    <3> QED
      BY <2>1, <1>1, <3>2 DEF LinkUser
  <2>2. CASE EncryptEmployee(w)
    <3> DEFINE y == [r EXCEPT !.pc = NextAfterEncrypt]
    <3>1. y \in WorkerState /\ Knows(y)
      BY <1>2 DEF NextAfterEncrypt, WorkerState, Knows
    <3> QED
      BY <2>2, <1>1, <3>1 DEF EncryptEmployee
  <2> QED
    BY <2>1, <2>2
<1>7. Knows(x)'
  BY <1>5, <1>6, KnowsStays
<1> QED
  BY <1>3, <1>5, <1>6, <1>7, WorkerMoves DEF IInv

LEMMA ProvisionsInductive ==
    ASSUME IInv, NEW w \in Worker, EncryptProvisions(w)
    PROVE  IInv'
<1>1. PICK r \in WorkerState : r = worker[w]
  BY Busy
<1>2. Knows(r) /\ r.pc = "provisions" /\ r.e \in Employee
  BY <1>1, Busy DEF EncryptProvisions, Knows
<1>3. /\ provision' = [provision EXCEPT ![r.e] = FALSE]
      /\ UNCHANGED <<employee, users, grants, queue, faults, configured, clerk, mix>>
  BY <1>1 DEF EncryptProvisions, KeepClerks
<1>4. PICK x \in WorkerState : x = [r EXCEPT !.pc = "done"]
  BY DEF WorkerState
<1>5. SetWorker(w, x)
  BY <1>1, <1>4 DEF EncryptProvisions
<1>6. TablesTyped' /\ provision'[r.e] = FALSE
  BY <1>2, <1>3 DEF IInv, TablesTyped
<1>7. Forward
  BY <1>2, <1>3 DEF Forward, IInv, TablesTyped
<1>8. Tables'
  <2>1. DoneIsEncrypted'
    BY <1>3, <1>7 DEF IInv, Tables, DoneIsEncrypted, Forward
  <2> QED
    BY <1>3, <2>1 DEF IInv, Tables, Provisioned
<1>9. Knows(x)'
  <2>1. x.pc = "done" /\ x.e = r.e
    BY <1>4 DEF WorkerState
  <2> QED
    BY <1>2, <1>6, <2>1 DEF Knows
<1> QED
  BY <1>3, <1>5, <1>6, <1>7, <1>8, <1>9, WorkerMoves DEF IInv

\* A query fails, or the process dies.
LEMMA FaultInductive ==
    ASSUME IInv, NEW w \in Worker, QueryFails(w) \/ WorkerDies(w)
    PROVE  IInv'
<1>1. faults' \in 0..mix.faults
  BY Busy DEF QueryFails, WorkerDies
<1>2. UNCHANGED <<people, queue, configured, clerk, mix>>
  BY DEF QueryFails, WorkerDies, KeepClerks
<1>3. \E x \in WorkerState : SetWorker(w, x) /\ Knows(x)
  <2>1. CASE QueryFails(w)
    BY <2>1, Busy, Raised DEF QueryFails
  <2>2. CASE WorkerDies(w)
    <3>1. IdleWorker \in WorkerState /\ Knows(IdleWorker)
      BY AutomationAssumption DEF IdleWorker, WorkerState, Kind, Knows
    <3> QED
      BY <2>2, <3>1 DEF WorkerDies
  <2> QED
    BY <2>1, <2>2
<1> QED
  BY <1>1, <1>2, <1>3, WorkerOnly
----------------------------------------------------------------------------
(* HR *)

LEMMA LoadReadableInductive ==
    ASSUME IInv, NEW h \in Clerk, NEW e \in Employee, LoadReadable(h, e)
    PROVE  IInv'
<1> DEFINE row == [employee[e] EXCEPT !.plain = TRUE]
<1>1. /\ clerk' = [clerk EXCEPT ![h] = [e |-> e, ent |-> row]]
      /\ UNCHANGED <<people, configured, queue, worker, faults, mix>>
  BY DEF LoadReadable
<1>2. row \in EmployeeRow /\ Provisioned(row)
  <2>1. employee[e] \in EmployeeRow /\ Provisioned(employee[e])
    BY DEF IInv, TablesTyped, Tables
  <2>2. row \in EmployeeRow /\ row.idUsuario = employee[e].idUsuario
    BY <2>1 DEF EmployeeRow
  <2> QED
    BY <2>1, <2>2 DEF Provisioned
<1> HIDE DEF row
<1>3. Forward
  BY <1>1 DEF Forward, people
<1>4. TablesTyped'
  BY <1>1, <1>2 DEF IInv, TablesTyped, people
<1>5. Tables'
  <2>1. \A x \in Employee : Provisioned(employee[x])'
    BY <1>1 DEF IInv, Tables, Provisioned, people
  <2>2. DoneIsEncrypted'
    BY <1>1 DEF IInv, Tables, DoneIsEncrypted, people
  <2>3. ASSUME NEW x \in Clerk, clerk'[x].e # NoEmployee
        PROVE  clerk'[x].ent \in EmployeeRow /\ Provisioned(clerk[x].ent)'
    <3>1. CASE x = h
      <4>1. clerk'[x].ent = row
        BY <1>1, <3>1 DEF IInv, TablesTyped
      <4> QED
        BY <1>1, <1>2, <4>1 DEF Provisioned, people
    <3>2. CASE x # h
      <4>1. clerk'[x] = clerk[x]
        BY <1>1, <3>2 DEF IInv, TablesTyped
      <4> QED
        BY <1>1, <2>3, <4>1 DEF IInv, Tables, Provisioned, people
    <3> QED
      BY <3>1, <3>2
  <2> QED
    BY <2>1, <2>2, <2>3 DEF Tables
<1> QED
  BY <1>1, <1>3, <1>4, <1>5, WorkingsStay DEF IInv

\* HR saves the user it read: one with all grants then, and still now.
LEMMA SaveReadableInductive ==
    ASSUME IInv, NEW h \in Clerk, NEW activo \in BOOLEAN, NEW flag \in BOOLEAN,
           SaveReadable(h, activo, flag)
    PROVE  IInv'
<1> DEFINE row == [clerk[h].ent EXCEPT !.activo = activo, !.datosEncriptados = flag]
<1>1. /\ clerk[h].e # NoEmployee
      /\ employee' = [employee EXCEPT ![clerk[h].e] = row]
      /\ clerk' = [clerk EXCEPT ![h] = IdleClerk]
      /\ UNCHANGED <<provision, users, grants, configured, queue, worker, faults, mix>>
  BY DEF SaveReadable
<1>2. /\ clerk[h].e \in Employee /\ clerk[h].ent \in EmployeeRow
      /\ Provisioned(clerk[h].ent)
  BY <1>1 DEF IInv, TablesTyped, Tables
<1>3. row \in EmployeeRow /\ row.idUsuario = clerk[h].ent.idUsuario
  BY <1>2 DEF EmployeeRow
<1>4. Provisioned(row)
  BY <1>2, <1>3 DEF Provisioned
<1> HIDE DEF row
<1>5. Forward
  BY <1>1 DEF Forward
<1>6. TablesTyped'
  BY <1>1, <1>2, <1>3 DEF IInv, TablesTyped, IdleClerk
<1>7. Tables'
  <2>1. \A x \in Employee : Provisioned(employee[x])'
    BY <1>1, <1>4 DEF IInv, TablesTyped, Tables, Provisioned
  <2>2. DoneIsEncrypted'
    BY <1>1 DEF IInv, Tables, DoneIsEncrypted
  <2>3. ASSUME NEW x \in Clerk, clerk'[x].e # NoEmployee
        PROVE  clerk'[x].ent \in EmployeeRow /\ Provisioned(clerk[x].ent)'
    <3>1. clerk'[x] = clerk[x]
      BY <1>1, <2>3 DEF IInv, TablesTyped, IdleClerk
    <3> QED
      BY <1>1, <2>3, <3>1 DEF IInv, Tables, Provisioned
  <2> QED
    BY <2>1, <2>2, <2>3 DEF Tables
<1> QED
  BY <1>1, <1>5, <1>6, <1>7, WorkingsStay DEF IInv

LEMMA UpdateEmployeeInductive ==
    ASSUME IInv, NEW e \in Employee, NEW all \in BOOLEAN, UpdateEmployee(e, all)
    PROVE  IInv'
<1> DEFINE row == [employee[e] EXCEPT !.datosEncriptados = TRUE, !.plain = @ /\ ~all]
<1>1. employee[e] \in EmployeeRow /\ Provisioned(employee[e])
  BY DEF IInv, TablesTyped, Tables
<1>2. row \in EmployeeRow /\ row.idUsuario = employee[e].idUsuario
  BY <1>1 DEF EmployeeRow
<1>3. Provisioned(row)
  BY <1>1, <1>2 DEF Provisioned
<1>4. employee' = [employee EXCEPT ![e] = row]
  BY DEF UpdateEmployee, IInv, TablesTyped, EmployeeRow
<1> HIDE DEF row
<1>5. UNCHANGED <<provision, users, grants, configured, queue, worker, clerk, faults, mix>>
  BY DEF UpdateEmployee
<1> QED
  BY <1>2, <1>3, <1>4, <1>5, RowKeeps, WorkingsStay DEF IInv
----------------------------------------------------------------------------
LEMMA NextInductive == IInv /\ [Next]_vars => IInv'
<1> SUFFICES ASSUME IInv, [Next]_vars PROVE IInv'
  OBVIOUS
<1>0. mix.kinds \subseteq Kind /\ mix.employees \subseteq Employee
  BY AutomationAssumption DEF IInv
<1>1. ASSUME UNCHANGED <<people, queue, worker, clerk, faults, mix>>, configured' \in BOOLEAN
      PROVE  IInv'
  <2>1. Forward
    BY <1>1 DEF Forward, people
  <2>2. TablesTyped' /\ Tables'
    BY <1>1 DEF IInv, TablesTyped, Tables, Provisioned, DoneIsEncrypted, people
  <2> QED
    BY <1>1, <2>1, <2>2, WorkingsStay DEF IInv
<1>2. CASE UNCHANGED vars
  BY <1>1, <1>2 DEF vars, people, IInv, TablesTyped
<1>3. CASE Configure
  BY <1>1, <1>3 DEF Configure
<1>4. ASSUME NEW k \in mix.kinds, NEW e \in mix.employees,
             Enqueue(k, e) \/ ReleaseStuck(k, e) \/ Purge(k, e)
      PROVE  IInv'
  BY <1>0, <1>4, HousekeepingInductive
<1>5. ASSUME NEW w \in Workers, Work(w) \/ QueryFails(w) \/ WorkerDies(w)
      PROVE  IInv'
  <2>1. w \in Worker
    BY DEF Workers
  <2> QED
    BY <1>5, <2>1, ReadingInductive, ClaimInductive, CreateUserInductive, GrantInductive,
       SavesInductive, ProvisionsInductive, EndInductive, FaultInductive
    DEF Work
<1>6. ASSUME NEW h \in Clerks, NEW e \in mix.employees, LoadReadable(h, e)
      PROVE  IInv'
  BY <1>0, <1>6, LoadReadableInductive DEF Clerks
<1>7. ASSUME NEW h \in Clerks, NEW activo \in BOOLEAN, NEW flag \in BOOLEAN,
             SaveReadable(h, activo, flag)
      PROVE  IInv'
  BY <1>7, SaveReadableInductive DEF Clerks
<1>8. ASSUME NEW e \in mix.employees, NEW all \in BOOLEAN, UpdateEmployee(e, all)
      PROVE  IInv'
  BY <1>0, <1>8, UpdateEmployeeInductive
<1> QED
  BY <1>2, <1>3, <1>4, <1>5, <1>6, <1>7, <1>8 DEF Next

LEMMA Invariant == Spec => []IInv
  BY InitInductive, NextInductive, PTL DEF Spec

\* For any number of employees, users, workers and HR requests the queues, the tables
\* and what everybody holds of them stay well typed; a failed job is in a known state.
THEOREM QueuesTyped == Spec => []TypeOK
<1>1. IInv => TypeOK
  BY DEF IInv, TablesTyped, Workings, TypeOK
<1> QED
  BY <1>1, Invariant, PTL

\* An employee linked to a user can work (processIdentityJob grants before it links),
\* whatever workers share the job, fail or die, and whatever stale row HR saves.
THEOREM LinkedProvisioned == Spec => []LinkedIsProvisioned
<1>1. IInv => LinkedIsProvisioned
  BY DEF IInv, Tables, Provisioned, LinkedIsProvisioned
<1> QED
  BY <1>1, Invariant, PTL

\* A job of encryption that says DONE left no provision in plaintext, whatever attempts
\* died before it (processEncryptJob goes through the provisions before it ends).
THEOREM DoneEncrypted == Spec => []DoneIsEncrypted
<1>1. IInv => DoneIsEncrypted
  BY DEF IInv, Tables
<1> QED
  BY <1>1, Invariant, PTL
----------------------------------------------------------------------------
(* Who shares a user.  The linked employee with the greatest id decides     *)
(* (LinkedToRival); what one worker saw of it stays true until it links,   *)
(* while HR's stale saves can only unlink, or put back what is there.      *)

\* A finite set of ids has a greatest one.
LEMMA MaxMember ==
    ASSUME NEW S \in SUBSET Nat, IsFiniteSet(S), S # {}
    PROVE  Max(S) \in S
<1> DEFINE Above(x) == {y \in S : y > x}
           T == {Above(x) : x \in S}
<1>1. IsWellFoundedOn(StrictSubsetOrdering(S), SUBSET S)
  BY FS_StrictSubsetOrderingWellFounded, FS_FiniteSubsetsOfFinite
<1>2. T \subseteq SUBSET S /\ T # {}
  OBVIOUS
<1>3. PICK t \in T : \A s \in T : <<s, t>> \notin StrictSubsetOrdering(S)
  <2> HIDE DEF T
  <2> QED
    BY <1>1, <1>2, WFMin
<1>4. PICK x \in S : t = Above(x)
  BY <1>3
<1>5. ASSUME NEW y \in S, ~(x >= y) PROVE FALSE
  <2>1. x \in Nat /\ y \in Nat /\ y > x
    BY <1>5
  <2>2. ASSUME NEW z \in S, z > y PROVE z > x
    BY <2>1, <2>2
  <2>3. y \in Above(x) /\ y \notin Above(y)
    BY <2>1
  <2>4. <<Above(y), t>> \in StrictSubsetOrdering(S)
    BY <1>4, <2>2, <2>3 DEF StrictSubsetOrdering
  <2> QED
    BY <1>3, <2>4
<1> QED
  BY <1>5 DEF Max

\* None of those linked to the user is a rival of the employee.
KinTo(e, u) == \A x \in Employee : employee[x].idUsuario = u => <<e, x>> \notin Rival

KinRows == \A e, x \in Employee :
              <<e, x>> \in Rival => \/ employee[e].idUsuario = NoUser
                                    \/ employee[e].idUsuario # employee[x].idUsuario

\* A user that an employee is linked to has an address: it is none that is created.
UserKnown == \A e \in Employee : employee[e].idUsuario # NoUser =>
                                    users[employee[e].idUsuario] # NoEmail

\* What one HR request may save: the user the employee still has, or none.
HeldStill == \A h \in Clerks :
                clerk[h].e # NoEmployee /\ clerk[h].ent.idUsuario # NoUser =>
                    employee[clerk[h].e].idUsuario = clerk[h].ent.idUsuario

\* What a job may save: a user, for an employee without one (or with this one) who is
\* kin to all that share it.
MaySave(e, u) == /\ employee[e].idUsuario \in {NoUser, u}
                 /\ u # NoUser => users[u] # NoEmail /\ KinTo(e, u)

JobKin(r) ==
    /\ r.pc \in {"user", "create"} => employee[r.e].idUsuario = NoUser
    /\ r.pc \in {"company", "app", "role", "link"} =>
          employee[r.e].idUsuario = NoUser /\ MaySave(r.e, r.u)
    /\ r.pc = "encrypt" => MaySave(r.e, r.ent.idUsuario)

\* The inductive invariant, for one worker and requests that do not overlap.
KinInv == KinRows /\ UserKnown /\ HeldStill /\ \A w \in Workers : JobKin(worker[w])

Alone == /\ \A v, w \in Workers : v = w
         /\ \A g, h \in Clerks : g = h
         /\ KinIsTransitive

LEMMA KinTypes ==
    ASSUME IInv
    PROVE  /\ \A e \in Employee : employee[e] \in EmployeeRow
           /\ NoUser \notin User /\ NoEmail \notin Email
           /\ \A e, x \in Employee : <<e, x>> \in Rival => <<x, e>> \in Rival /\ e # x
  BY AutomationAssumption DEF IInv, TablesTyped

\* A step that links nobody: it may unlink an employee, or give a user its address.
Unlinks == /\ \A e \in Employee : employee'[e].idUsuario \in {NoUser, employee[e].idUsuario}
           /\ \A u \in User : users[u] # NoEmail => users'[u] # NoEmail

LEMMA RowsStayKin ==
    ASSUME IInv, IInv', Unlinks, KinRows, UserKnown
    PROVE  KinRows' /\ UserKnown'
<1>1. KinRows'
  BY DEF KinRows, Unlinks
<1>2. ASSUME NEW e \in Employee, employee'[e].idUsuario # NoUser
      PROVE  users'[employee'[e].idUsuario] # NoEmail
  <2>1. employee'[e].idUsuario = employee[e].idUsuario /\ employee[e].idUsuario \in User
    BY <1>2, KinTypes DEF Unlinks, EmployeeRow
  <2> QED
    BY <1>2, <2>1 DEF Unlinks, UserKnown
<1> QED
  BY <1>1, <1>2 DEF UserKnown

LEMMA MaySaveStays ==
    ASSUME IInv, Unlinks, NEW e \in Employee, NEW u \in User \cup {NoUser}, MaySave(e, u)
    PROVE  MaySave(e, u)'
<1>1. employee'[e].idUsuario \in {NoUser, u}
  BY DEF Unlinks, MaySave
<1>2. ASSUME u # NoUser PROVE users'[u] # NoEmail /\ KinTo(e, u)'
  BY <1>2 DEF Unlinks, MaySave, KinTo
<1> QED
  BY <1>1, <1>2 DEF MaySave

LEMMA JobStaysKin ==
    ASSUME IInv, Unlinks, NEW r \in WorkerState, Knows(r), JobKin(r)
    PROVE  JobKin(r)'
<1>1. ASSUME r.e \in Employee, employee[r.e].idUsuario = NoUser
      PROVE  employee'[r.e].idUsuario = NoUser
  BY <1>1 DEF Unlinks
<1>2. CASE r.pc \in {"user", "create"}
  BY <1>1, <1>2 DEF JobKin, Knows
<1>3. CASE r.pc \in {"company", "app", "role", "link"}
  BY <1>1, <1>3, MaySaveStays DEF JobKin, Knows
<1>4. CASE r.pc = "encrypt"
  <2>1. r.e \in Employee /\ r.ent.idUsuario \in User \cup {NoUser}
    BY <1>4 DEF Knows, EmployeeRow
  <2> QED
    BY <1>4, <2>1, MaySaveStays DEF JobKin
<1>5. CASE r.pc \notin {"user", "create", "company", "app", "role", "link", "encrypt"}
  BY <1>5 DEF JobKin
<1> QED
  BY <1>2, <1>3, <1>4, <1>5

\* A step of nobody's that links nobody.
LEMMA OthersKin ==
    ASSUME IInv, IInv', KinInv, Unlinks, HeldStill', UNCHANGED <<worker, mix>>
    PROVE  KinInv'
<1>1. KinRows' /\ UserKnown'
  BY RowsStayKin DEF KinInv
<1>2. ASSUME NEW w \in Workers PROVE JobKin(worker[w])'
  <2>1. PICK r \in WorkerState : r = worker[w] /\ Knows(r) /\ JobKin(r)
    BY Busy DEF KinInv, Workers
  <2>2. JobKin(r)'
    BY <2>1, JobStaysKin
  <2> QED
    BY <2>1, <2>2
<1>3. Workers' = Workers
  BY DEF Workers
<1> QED
  BY <1>1, <1>2, <1>3 DEF KinInv

\* A step of the one worker that leaves the employees alone.
LEMMA WorkerKin ==
    ASSUME IInv, IInv', Alone, KinInv, NEW w \in Workers, NEW r, SetWorker(w, r), JobKin(r)',
           \A u \in User : users[u] # NoEmail => users'[u] # NoEmail,
           UNCHANGED <<employee, clerk, mix>>
    PROVE  KinInv'
<1>1. Unlinks
  BY DEF Unlinks
<1>2. KinRows' /\ UserKnown'
  BY <1>1, RowsStayKin DEF KinInv
<1>3. HeldStill'
  BY DEF HeldStill, KinInv, Clerks
<1>4. Workers' = Workers /\ \A v \in Workers : v = w
  BY DEF Workers, Alone
<1>5. worker'[w] = r
  BY DEF SetWorker, IInv, Workings, Workers
<1> QED
  BY <1>2, <1>3, <1>4, <1>5 DEF KinInv

\* The one worker saves an employee and is done with it.
LEMMA SaveKin ==
    ASSUME IInv, IInv', Alone, KinInv, NEW w \in Workers, NEW r, SetWorker(w, r), JobKin(r)',
           NEW e \in Employee, NEW row \in EmployeeRow, MaySave(e, row.idUsuario),
           employee' = [employee EXCEPT ![e] = row],
           UNCHANGED <<users, clerk, mix>>
    PROVE  KinInv'
<1>1. /\ employee'[e] = row
      /\ \A x \in Employee \ {e} : employee'[x] = employee[x]
  BY DEF IInv, TablesTyped
<1>2. ASSUME row.idUsuario # NoUser, NEW x \in Employee, employee[x].idUsuario = row.idUsuario
      PROVE  <<e, x>> \notin Rival /\ <<x, e>> \notin Rival
  BY <1>2, KinTypes DEF MaySave, KinTo
<1>3. KinRows'
  <2> SUFFICES ASSUME NEW y \in Employee, NEW x \in Employee, <<y, x>> \in Rival,
                      employee'[y].idUsuario # NoUser,
                      employee'[y].idUsuario = employee'[x].idUsuario
               PROVE  FALSE
    BY DEF KinRows
  <2>1. x # y
    BY KinTypes
  <2>2. CASE y = e
    BY <1>1, <1>2, <2>1, <2>2
  <2>3. CASE x = e
    BY <1>1, <1>2, <2>1, <2>3
  <2>4. CASE x # e /\ y # e
    BY <1>1, <2>4 DEF KinInv, KinRows
  <2> QED
    BY <2>2, <2>3, <2>4
<1>4. UserKnown'
  BY <1>1 DEF KinInv, UserKnown, MaySave
<1>5. HeldStill'
  <2> SUFFICES ASSUME NEW h \in Clerks, clerk[h].e # NoEmployee,
                      clerk[h].ent.idUsuario # NoUser
               PROVE  employee'[clerk[h].e].idUsuario = clerk[h].ent.idUsuario
    BY DEF HeldStill, Clerks
  <2>1. clerk[h].e \in Employee /\ employee[clerk[h].e].idUsuario = clerk[h].ent.idUsuario
    BY DEF KinInv, HeldStill, Clerks, IInv, TablesTyped
  <2>2. CASE clerk[h].e = e
    BY <1>1, <2>1, <2>2 DEF MaySave
  <2>3. CASE clerk[h].e # e
    BY <1>1, <2>1, <2>3
  <2> QED
    BY <2>2, <2>3
<1>6. Workers' = Workers /\ \A v \in Workers : v = w
  BY DEF Workers, Alone
<1>7. worker'[w] = r
  BY DEF SetWorker, IInv, Workings, Workers
<1> QED
  BY <1>3, <1>4, <1>5, <1>6, <1>7 DEF KinInv
----------------------------------------------------------------------------
(* Steps *)

\* The user that FindUser takes: its last linked employee is kin, so all are.
LEMMA FoundIsKin ==
    ASSUME IInv, KinIsTransitive, KinRows, NEW e \in Employee, NEW u \in User,
           employee[e].idUsuario = NoUser, ~LinkedToRival(u, e)
    PROVE  KinTo(e, u)
<1> DEFINE linked == {x \in Employee : employee[x].idUsuario = u}
<1> SUFFICES ASSUME NEW x \in linked, <<e, x>> \in Rival PROVE FALSE
  BY DEF KinTo
<1>1. IsFiniteSet(linked) /\ linked \in SUBSET Nat /\ linked # {}
  BY AutomationAssumption, FS_Subset
<1>2. PICK m \in linked : m = Max(linked)
  BY <1>1, MaxMember
<1>3. m # e /\ <<m, e>> \notin Rival
  BY <1>1, <1>2, KinTypes DEF LinkedToRival
<1>4. <<e, m>> \notin Rival
  BY <1>3, KinTypes
<1>5. <<m, x>> \in Rival
  BY <1>4 DEF KinIsTransitive
<1> QED
  BY <1>5, KinTypes DEF KinRows

LEMMA ReadEmployeeKin ==
    ASSUME IInv, IInv', Alone, KinInv, NEW w \in Workers, ReadEmployee(w)
    PROVE  KinInv'
<1>1. PICK r \in WorkerState : r = worker[w] /\ r.e \in Employee
  BY Busy DEF ReadEmployee, Workers
<1>2. PICK row \in EmployeeRow : row = employee[r.e]
  BY <1>1, KinTypes
<1>3. UNCHANGED <<employee, users, clerk, mix>>
  BY DEF ReadEmployee, people, KeepClerks
<1>4. \E x : SetWorker(w, x) /\ JobKin(x)
  <2>1. \/ SetWorker(w, [r EXCEPT !.pc = "encrypt", !.ent = row])
        \/ SetWorker(w, [r EXCEPT !.pc = "done"])
        \/ row.idUsuario = NoUser /\ SetWorker(w, [r EXCEPT !.pc = "user", !.ent = row])
        \/ SetWorker(w, Raise(r, "ERROR_FATAL")) \/ SetWorker(w, Raise(r, "ERROR_CONFIG"))
    BY <1>1, <1>2 DEF ReadEmployee
  <2>2. MaySave(r.e, row.idUsuario)
    BY <1>1, <1>2 DEF MaySave, KinTo, KinInv, KinRows, UserKnown
  <2>3. JobKin([r EXCEPT !.pc = "encrypt", !.ent = row])
    BY <2>2 DEF JobKin, WorkerState
  <2>4. JobKin([r EXCEPT !.pc = "done"])
    BY DEF JobKin, WorkerState
  <2>5. row.idUsuario = NoUser => JobKin([r EXCEPT !.pc = "user", !.ent = row])
    BY <1>2 DEF JobKin, WorkerState
  <2>6. JobKin(Raise(r, "ERROR_FATAL")) /\ JobKin(Raise(r, "ERROR_CONFIG"))
    BY DEF JobKin, WorkerState, Raise
  <2> QED
    BY <2>1, <2>3, <2>4, <2>5, <2>6
<1>5. PICK x : SetWorker(w, x) /\ JobKin(x)
  BY <1>4
<1>6. JobKin(x)'
  BY <1>3, <1>5 DEF JobKin, MaySave, KinTo
<1> QED
  BY <1>3, <1>5, <1>6, WorkerKin

LEMMA FindUserKin ==
    ASSUME IInv, IInv', Alone, KinInv, NEW w \in Workers, FindUser(w)
    PROVE  KinInv'
<1>1. PICK r \in WorkerState : r = worker[w] /\ r.e \in Employee
  BY Busy DEF FindUser, Workers
<1>2. employee[r.e].idUsuario = NoUser /\ EmailOf[r.e] # NoEmail
  <2>1. r.pc = "user" /\ JobKin(r)
    BY <1>1 DEF FindUser, KinInv
  <2>2. EmailOf[r.e] \in Email /\ NoEmail \notin Email
    BY <1>1, AutomationAssumption
  <2> QED
    BY <1>1, <2>1, <2>2 DEF JobKin
<1>3. UNCHANGED <<employee, users, clerk, mix>>
  BY DEF FindUser, people, KeepClerks
<1>4. \E x : SetWorker(w, x) /\ JobKin(x)
  <2>1. \/ SetWorker(w, [r EXCEPT !.pc = "create"])
        \/ SetWorker(w, Raise(r, "ERROR_DUPLICATE"))
        \/ \E u \in User : /\ users[u] = EmailOf[r.e] /\ ~LinkedToRival(u, r.e)
                           /\ SetWorker(w, [r EXCEPT !.pc = "company", !.u = u])
    BY <1>1 DEF FindUser
  <2>2. JobKin([r EXCEPT !.pc = "create"])
    BY <1>2 DEF JobKin, WorkerState
  <2>3. JobKin(Raise(r, "ERROR_DUPLICATE"))
    BY DEF JobKin, WorkerState, Raise
  <2>4. ASSUME NEW u \in User, users[u] = EmailOf[r.e], ~LinkedToRival(u, r.e)
        PROVE  JobKin([r EXCEPT !.pc = "company", !.u = u])
    <3>1. KinTo(r.e, u)
      BY <1>1, <1>2, <2>4, FoundIsKin DEF Alone, KinInv
    <3>2. MaySave(r.e, u)
      BY <1>2, <2>4, <3>1 DEF MaySave
    <3> QED
      BY <1>2, <3>2 DEF JobKin, WorkerState
  <2> QED
    BY <2>1, <2>2, <2>3, <2>4
<1>5. PICK x : SetWorker(w, x) /\ JobKin(x)
  BY <1>4
<1>6. JobKin(x)'
  BY <1>3, <1>5 DEF JobKin, MaySave, KinTo
<1> QED
  BY <1>3, <1>5, <1>6, WorkerKin

\* A user that is created was without address, so nobody is linked to it.
LEMMA CreateUserKin ==
    ASSUME IInv, IInv', Alone, KinInv, NEW w \in Workers, CreateUser(w)
    PROVE  KinInv'
<1>1. PICK r \in WorkerState : r = worker[w] /\ r.e \in Employee
  BY Busy DEF CreateUser, Workers
<1>2. employee[r.e].idUsuario = NoUser /\ EmailOf[r.e] # NoEmail
  BY <1>1, KinTypes, AutomationAssumption DEF CreateUser, KinInv, JobKin
<1>3. UNCHANGED <<employee, clerk, mix>>
  BY DEF CreateUser, KeepClerks
<1>4. \A u \in User : users[u] # NoEmail => users'[u] # NoEmail
  BY <1>1, <1>2 DEF CreateUser, IInv, TablesTyped
<1>5. CASE SetWorker(w, Raise(r, "retry"))
  <2>1. JobKin(Raise(r, "retry"))'
    BY DEF JobKin, WorkerState, Raise
  <2> QED
    BY <1>3, <1>4, <1>5, <2>1, WorkerKin
<1>6. ASSUME NEW u \in User, users[u] = NoEmail, users' = [users EXCEPT ![u] = EmailOf[r.e]],
             SetWorker(w, [r EXCEPT !.pc = "company", !.u = u])
      PROVE  KinInv'
  <2>1. KinTo(r.e, u)'
    BY <1>3, <1>6, KinTypes DEF KinTo, KinInv, UserKnown
  <2>2. users'[u] # NoEmail
    BY <1>2, <1>6 DEF IInv, TablesTyped
  <2>3. employee'[r.e].idUsuario = NoUser
    BY <1>2, <1>3
  <2>4. MaySave(r.e, u)'
    BY <2>1, <2>2, <2>3 DEF MaySave
  <2>5. JobKin([r EXCEPT !.pc = "company", !.u = u])'
    BY <2>3, <2>4 DEF JobKin, WorkerState
  <2> QED
    BY <1>3, <1>4, <1>6, <2>5, WorkerKin
<1> QED
  BY <1>1, <1>5, <1>6 DEF CreateUser

LEMMA GrantKin ==
    ASSUME IInv, IInv', Alone, KinInv, NEW w \in Workers, GrantAccess(w)
    PROVE  KinInv'
<1>1. PICK r \in WorkerState : r = worker[w] /\ Knows(r) /\ JobKin(r)
  BY Busy DEF Workers, KinInv
<1>2. /\ UNCHANGED <<employee, users, clerk, mix>> /\ r.pc \in Grant
      /\ SetWorker(w, [r EXCEPT !.pc = AfterGrant(r.pc)])
  BY <1>1 DEF GrantAccess, KeepClerks
<1>3. AfterGrant(r.pc) \in {"app", "role", "link"}
  BY <1>2 DEF AfterGrant, Grant
<1>4. JobKin([r EXCEPT !.pc = AfterGrant(r.pc)])'
  BY <1>1, <1>2, <1>3 DEF JobKin, WorkerState, Grant, MaySave, KinTo
<1> QED
  BY <1>2, <1>4, WorkerKin

LEMMA SavesKin ==
    ASSUME IInv, IInv', Alone, KinInv, NEW w \in Workers, LinkUser(w) \/ EncryptEmployee(w)
    PROVE  KinInv'
<1>1. PICK r \in WorkerState : r = worker[w] /\ Knows(r) /\ JobKin(r)
  BY Busy DEF Workers, KinInv
<1>2. /\ r.e \in Employee /\ r.ent \in EmployeeRow
      /\ UNCHANGED <<users, clerk, mix>>
  BY <1>1 DEF LinkUser, EncryptEmployee, Knows, KeepClerks
<1>3. CASE LinkUser(w)
  <2> DEFINE row == [r.ent EXCEPT !.idUsuario = r.u]
  <2>1. r.u \in User /\ MaySave(r.e, r.u)
    BY <1>1, <1>3 DEF LinkUser, Knows, JobKin
  <2>2. row \in EmployeeRow /\ row.idUsuario = r.u
    BY <1>2, <2>1 DEF EmployeeRow
  <2>3. /\ SetWorker(w, [r EXCEPT !.pc = AfterGrant("link")])
        /\ employee' = [employee EXCEPT ![r.e] = row]
    BY <1>1, <1>3 DEF LinkUser
  <2>4. JobKin([r EXCEPT !.pc = AfterGrant("link")])'
    BY DEF AfterGrant, JobKin, WorkerState
  <2> HIDE DEF row
  <2> QED
    BY <1>2, <2>1, <2>2, <2>3, <2>4, SaveKin
<1>4. CASE EncryptEmployee(w)
  <2> DEFINE row == [r.ent EXCEPT !.datosEncriptados = TRUE, !.plain = FALSE]
  <2>1. MaySave(r.e, r.ent.idUsuario)
    BY <1>1, <1>4 DEF EncryptEmployee, JobKin
  <2>2. row \in EmployeeRow /\ row.idUsuario = r.ent.idUsuario
    BY <1>2 DEF EmployeeRow
  <2>3. /\ SetWorker(w, [r EXCEPT !.pc = NextAfterEncrypt])
        /\ employee' = [employee EXCEPT ![r.e] = row]
    BY <1>1, <1>4 DEF EncryptEmployee
  <2>4. JobKin([r EXCEPT !.pc = NextAfterEncrypt])'
    BY DEF NextAfterEncrypt, JobKin, WorkerState
  <2> HIDE DEF row
  <2> QED
    BY <1>2, <2>1, <2>2, <2>3, <2>4, SaveKin
<1> QED
  BY <1>3, <1>4

\* The steps that leave the worker before, between or at the end of its jobs.
LEMMA OutsideKin ==
    ASSUME IInv, IInv', Alone, KinInv, NEW w \in Workers,
           \/ Fetch(w) \/ Claim(w) \/ EncryptProvisions(w) \/ MarkDone(w) \/ FailJob(w)
           \/ QueryFails(w) \/ WorkerDies(w)
    PROVE  KinInv'
<1>1. PICK r \in WorkerState : r = worker[w]
  BY Busy DEF Workers
<1>2. UNCHANGED <<employee, users, clerk, mix>>
  BY DEF Fetch, Claim, EncryptProvisions, MarkDone, FailJob, QueryFails, WorkerDies, people,
         KeepClerks
<1>3. ASSUME NEW x, x.pc \in {"idle", "batch", "claimed", "done", "failed"}, SetWorker(w, x)
      PROVE  KinInv'
  <2>1. JobKin(x)'
    BY <1>3 DEF JobKin
  <2> QED
    BY <1>2, <1>3, <2>1, WorkerKin
<1>4. \A y : NextJob(y).pc \in {"idle", "batch"}
  BY DEF NextJob, IdleWorker
<1>5. CASE Fetch(w) \/ MarkDone(w) \/ FailJob(w)
  BY <1>3, <1>4, <1>5 DEF Fetch, MarkDone, FailJob
<1>6. CASE Claim(w)
  <2>1. PICK j \in r.todo :
           SetWorker(w, [r EXCEPT !.pc = "claimed", !.todo = @ \ {j}, !.e = j.e,
                                  !.attempts = j.attempts])
    BY <1>1, <1>6 DEF Claim
  <2> DEFINE x == [r EXCEPT !.pc = "claimed", !.todo = @ \ {j}, !.e = j.e,
                            !.attempts = j.attempts]
  <2>2. SetWorker(w, x) /\ x.pc = "claimed"
    BY <2>1 DEF WorkerState
  <2> HIDE DEF x
  <2> QED
    BY <1>3, <2>2
<1>7. CASE EncryptProvisions(w)
  <2> DEFINE x == [r EXCEPT !.pc = "done"]
  <2>1. SetWorker(w, x) /\ x.pc = "done"
    BY <1>1, <1>7 DEF EncryptProvisions, WorkerState
  <2> HIDE DEF x
  <2> QED
    BY <1>3, <2>1
<1>8. CASE QueryFails(w)
  <2>1. Raise(r, "retry").pc = "failed"
    BY DEF Raise, WorkerState
  <2> QED
    BY <1>1, <1>3, <1>8, <2>1 DEF QueryFails
<1>9. CASE WorkerDies(w)
  <2>1. IdleWorker.pc = "idle"
    BY DEF IdleWorker
  <2> QED
    BY <1>3, <1>9, <2>1 DEF WorkerDies
<1> QED
  BY <1>5, <1>6, <1>7, <1>8, <1>9

LEMMA LoadReadableKin ==
    ASSUME IInv, IInv', Alone, KinInv, NEW h \in Clerks, NEW e \in Employee, LoadReadable(h, e)
    PROVE  KinInv'
<1> DEFINE row == [employee[e] EXCEPT !.plain = TRUE]
<1>1. /\ clerk' = [clerk EXCEPT ![h] = [e |-> e, ent |-> row]]
      /\ UNCHANGED <<employee, users, worker, mix>>
  BY DEF LoadReadable, people
<1>2. row.idUsuario = employee[e].idUsuario
  BY KinTypes DEF EmployeeRow
<1> HIDE DEF row
<1>3. Unlinks
  BY <1>1 DEF Unlinks
<1>4. HeldStill'
  <2>1. Clerks' = Clerks /\ \A g \in Clerks : g = h
    BY <1>1 DEF Clerks, Alone
  <2>2. clerk'[h].e = e /\ clerk'[h].ent = row
    BY <1>1 DEF Clerks, IInv, TablesTyped
  <2> QED
    BY <1>1, <1>2, <2>1, <2>2 DEF HeldStill
<1> QED
  BY <1>1, <1>3, <1>4, OthersKin

\* The user HR saves is the one the employee has, or none.
LEMMA SaveReadableKin ==
    ASSUME IInv, IInv', Alone, KinInv, NEW h \in Clerks, NEW activo \in BOOLEAN,
           NEW flag \in BOOLEAN, SaveReadable(h, activo, flag)
    PROVE  KinInv'
<1>1. PICK e \in Employee, ent \in EmployeeRow : e = clerk[h].e /\ ent = clerk[h].ent
  BY DEF SaveReadable, Clerks, IInv, TablesTyped, Tables
<1> DEFINE row == [ent EXCEPT !.activo = activo, !.datosEncriptados = flag]
<1>2. /\ clerk[h].e # NoEmployee
      /\ employee' = [employee EXCEPT ![e] = row]
      /\ clerk' = [clerk EXCEPT ![h] = IdleClerk]
      /\ UNCHANGED <<users, worker, mix>>
  BY <1>1 DEF SaveReadable
<1>3. row.idUsuario = ent.idUsuario
  BY DEF EmployeeRow
<1>4. ent.idUsuario \in {NoUser, employee[e].idUsuario}
  BY <1>1, <1>2 DEF KinInv, HeldStill
<1> HIDE DEF row
<1>5. Unlinks
  BY <1>2, <1>3, <1>4 DEF Unlinks, IInv, TablesTyped
<1>6. HeldStill'
  <2>1. Clerks' = Clerks /\ \A g \in Clerks : g = h
    BY <1>2 DEF Clerks, Alone
  <2>2. clerk'[h].e = NoEmployee
    BY <1>2 DEF Clerks, IInv, TablesTyped, IdleClerk
  <2> QED
    BY <2>1, <2>2 DEF HeldStill
<1> QED
  BY <1>2, <1>5, <1>6, OthersKin

\* What changes no user of an employee and nothing anybody holds.
LEMMA RestKin ==
    ASSUME IInv, IInv', KinInv, \A e \in Employee : employee'[e].idUsuario = employee[e].idUsuario,
           UNCHANGED <<users, worker, clerk, mix>>
    PROVE  KinInv'
<1>1. Unlinks
  BY DEF Unlinks
<1>2. HeldStill'
  BY DEF HeldStill, KinInv, Clerks, IInv, TablesTyped
<1> QED
  BY <1>1, <1>2, OthersKin

LEMMA KinInductive == IInv /\ IInv' /\ (Alone => KinInv) /\ [Next]_vars => (Alone => KinInv)'
<1> SUFFICES ASSUME IInv, IInv', Alone => KinInv, [Next]_vars, Alone' PROVE KinInv'
  OBVIOUS
<1>0. /\ mix.kinds \subseteq Kind /\ mix.employees \subseteq Employee
      /\ Workers \subseteq Worker /\ Clerks \subseteq Clerk
  BY AutomationAssumption DEF IInv, Workers, Clerks
<1>1. mix' = mix
  <2>1. CASE \E w \in Workers : Work(w) \/ QueryFails(w) \/ WorkerDies(w)
    BY <2>1 DEF Work, QueryFails, WorkerDies, Fetch, Claim, ReadEmployee, FindUser, CreateUser,
       GrantAccess, LinkUser, EncryptEmployee, EncryptProvisions, MarkDone, FailJob, KeepClerks
  <2> QED
    BY <2>1 DEF Next, vars, Enqueue, ReleaseStuck, Purge, KeepClerks, LoadReadable, SaveReadable,
       UpdateEmployee, Configure
<1>2. Alone /\ KinInv
  BY <1>1 DEF Alone, Workers, Clerks
<1>3. CASE UNCHANGED vars \/ Configure
  BY <1>2, <1>3, RestKin DEF vars, people, Configure
<1>4. ASSUME NEW k \in mix.kinds, NEW e \in mix.employees,
             Enqueue(k, e) \/ ReleaseStuck(k, e) \/ Purge(k, e)
      PROVE  KinInv'
  BY <1>2, <1>4, RestKin DEF Enqueue, ReleaseStuck, Purge, people, KeepClerks
<1>5. ASSUME NEW w \in Workers, Work(w) \/ QueryFails(w) \/ WorkerDies(w)
      PROVE  KinInv'
  BY <1>2, <1>5, OutsideKin, ReadEmployeeKin, FindUserKin, CreateUserKin, GrantKin, SavesKin
  DEF Work
<1>6. ASSUME NEW h \in Clerks, NEW e \in mix.employees, LoadReadable(h, e)
      PROVE  KinInv'
  BY <1>0, <1>2, <1>6, LoadReadableKin
<1>7. ASSUME NEW h \in Clerks, NEW activo \in BOOLEAN, NEW flag \in BOOLEAN,
             SaveReadable(h, activo, flag)
      PROVE  KinInv'
  BY <1>2, <1>7, SaveReadableKin
<1>8. ASSUME NEW e \in mix.employees, NEW all \in BOOLEAN, UpdateEmployee(e, all)
      PROVE  KinInv'
  <2>1. \A x \in Employee : employee'[x].idUsuario = employee[x].idUsuario
    BY <1>0, <1>8 DEF UpdateEmployee, IInv, TablesTyped, EmployeeRow
  <2> QED
    BY <1>2, <1>8, <2>1, RestKin DEF UpdateEmployee
<1> QED
  BY <1>3, <1>4, <1>5, <1>6, <1>7, <1>8 DEF Next

LEMMA KinStart == Init => (Alone => KinInv)
<1> SUFFICES ASSUME Init PROVE KinInv
  OBVIOUS
<1>1. \A e \in Employee : employee[e].idUsuario = NoUser
  BY DEF Init
<1>2. \A h \in Clerks : clerk[h].e = NoEmployee
  BY DEF Init, Clerks, IdleClerk
<1>3. \A w \in Workers : worker[w].pc = "idle"
  BY DEF Init, Workers, IdleWorker
<1> QED
  BY <1>1, <1>2, <1>3 DEF KinInv, KinRows, UserKnown, HeldStill, JobKin

\* For any number of employees and users, one worker and HR requests one after the other
\* never leave rivals with one user, whatever fails, dies or is saved stale in between
\* (processIdentityJob checks the last linked employee before it takes a user).
THEOREM SharedUserKin == Spec => []SharedUserIsKin
<1>1. (Alone => KinInv) => SharedUserIsKin
  BY DEF Alone, KinInv, KinRows, SharedUserIsKin
<1>2. IInv /\ (Alone => KinInv) /\ [Next]_vars /\ IInv' => (Alone => KinInv)'
  BY KinInductive
<1> QED
  BY <1>1, <1>2, KinStart, Invariant, PTL DEF Spec
=============================================================================
