# NewKipital: the payroll system in TLA+

NewKipital (KPITAL 360 / TimeWise) is a NestJS API over MySQL and Redis with a React
client. Its core is the payroll: HR opens a payroll for a period, supervisors and HR
register and approve personal actions (absences, bonuses, overtime...), the payroll is
processed from the approved actions, verified and applied. Around it are the vacation
days of the employees, their moves between companies, the workers that provision their
users and encrypt their data, the authorization of users and their sessions, and the
outbox and caches all of them use. This directory models these parts, model-checks them
on small instances and proves theorems about them for every instance.

## 1. Inventory

Paths are relative to `src/api/src/`. "Hard" names what unit tests hardly reach.

| Component | State | Operations | Talks to | Hard | What makes it correct |
|---|---|---|---|---|---|
| Payroll life cycle `modules/payroll/payroll.service.ts` | `nom_calendarios_nomina` (estado, version lock, recalculation flag, slot key, slot flag), input snapshots, results, marks per employee, reactivation items, aguinaldo provisions | create, update, process, preview, verify, select employees, apply, reopen, inactivate, reactivate, reassign orphans | reads and writes actions; vacation ledger, audit outbox, events | entities saved from memory after awaits; two statements without a transaction; the slot index | one payroll at work per slot; applied payrolls are closed; apply pays what was selected; actions are paid once and not lost |
| Orphan cron `payroll-orphan-reassignment.service.ts` | none of its own | scan of active payrolls every five minutes | reassignment of the payroll service | races every request; one payroll's failure must not stop the rest | orphans are linked eventually, final actions are not |
| Personal actions `modules/personal-actions/personal-actions.service.ts` | `acc_acciones_personal`, lines, quotas, overtime uploads | per kind: create, edit, advance, invalidate; generic: create, approve, reject, associate, reactivate; bulk load | locks by payroll marks; flags payrolls for recalculation | checks and writes on different reads; late approval | verified employees are locked; final actions stay final |
| Hygiene, auto-invalidation, context listener (same directory) | none | nightly expiry, invalidation by context | actions | statements under open requests | only approved, unlinked actions close |
| Vacation ledger `modules/employees/services/employee-vacation.service.ts` | accounts; movements with a running balance | initialise, daily provision, deduction after apply, balance of a transfer | apply, transfer, worker, creation workflow | last balance read without a lock, found by index or by lookup; runs overlap and die | nothing booked twice; the provision catches up |
| Intercompany transfer `modules/payroll/intercompany-transfer.service.ts` | `sys_empleado_transferencias` | simulate, execute | employees, actions, vacation days, payrolls | state checked before the transaction, plan older than the move, FAILED after a rollback | executed once; days conserved |
| Employees `modules/employees/employees.service.ts`, creation workflow | employee rows with encrypted fields | create, change, inactivate, reactivate, liquidate | vacation account, automation, actions | whole decrypted entities saved from memory | no lost company, user or encryption |
| Automation worker `modules/employees/services/employee-data-automation-worker.service.ts` | identity and encryption queues | enqueue, release stuck jobs, purge, claim, work, retry | employees, users and their grants, HR | claims without a condition, several processes, crashes between steps | what is linked or done is complete; nobody is forgotten |
| Access control `modules/access-control/`, `modules/authz/`, `common/guards/` | companies, roles and overrides of users; the version; a cache per process | assign, revoke, resolve, guard | realtime, client | five reads for one answer, a version that comes back to the same value | bypasses are fresh, caches catch up, an administrator remains |
| Authorization realtime `modules/authz/` and the client's hook | event streams of a process; what the browser shows | notify, poll, refresh, focus, change of company | guard, version | lost and late events, answers out of order | the browser catches up |
| Authentication and sessions `modules/auth/`, `interceptors/httpInterceptor.ts` of the client | accounts with counters and locks, refresh sessions, cookies | sign in, lock, refresh, rotate, sign out, retry | administrators | stale accounts saved over each other, parallel refreshes, timeouts | one live session per chain, a page in use has one, locks come with blocks |
| Audit outbox and worker, domain events `modules/integration/` | domain events with a status, audit rows | publish, record, copy | every service | nobody waits for the record; overlapping ticks; crash between copy and mark | what says processed was copied; pending ends |
| Application cache `common/services/app-cache.service.ts`, `cache-response.interceptor.ts` | versions and entries in Redis or memory, circuit breaker | answer, store, invalidate | every list | load and invalidation overlap, Redis fails half-way | what was invalidated is not read; lists catch up |
| Distribution rules, payroll catalogues, companies, notifications, operations and health, web client's pages | see `PROJECT.json` | mostly single-row CRUD or read-only | - | - | - |

`PROJECT.json` lists every component with its status, and 40 hazards at their lines.

## 2. How the code interleaves, and how that is modelled

All handlers have one shape: `findOne` reads an entity; guards look at it; more queries
are awaited; then `repository.save(entity)`, an `UPDATE`, or a transaction writes. No row
is locked from the read to the write. A handler is therefore several actions, with what
it carries between them in a record of the request, run, worker or tick:

- `LoadX`: the first query and the guards on the entity (a refused request is a disabled action, or `Reject`);
- `ViewX`: the other checks, and the read that starts the transaction or with which
  TypeORM's `save` compares the entity; several awaited checks of one handler are merged here;
- `CommitX`: what reaches the tables, atomically when the code has a transaction (`create`
  has two: the `INSERT`, and the save of the same entity with its final name);
- follow-ups outside the transaction are steps of their own: the reassignment of orphans
  after create, reopen and reactivate (`orphans`, `link`), the mark for revalidation
  (`mark`), the recalculation flags (`flag`), the deduction of vacations after apply, the
  event, the invalidation of a cache, the notification of streams.

`save` re-reads the row and writes the columns in which the entity differs from it, so
that a stale entity overwrites just those columns (`MergePayroll`, `MergeAction`,
`SaveEmployee`, the saves of `AutomationQueue`, `UsersService` and `AuditOutbox`). For
payrolls, actions and the accounts of users, whose columns must agree with each other, the
two statements are two steps. For employees and the rows of the outbox they are one, and
write the whole entity: the properties there are about one column at a time (the user, the
state), which comes from a row somebody held in either case. This is the heart of the models:
most of section 5 comes from it. Transactions of the vacation ledger run at REPEATABLE
READ: they compute from a snapshot and only the unique indexes see what others committed
since (`Snapshot`, `LedgerAllows`).

### Modules

| Module | Models |
|---|---|
| `HrTables` | the tables of the payroll, the requests, `save`, the unique index, what the services share, `Init` |
| `PayrollService` | `payroll.service.ts` and the orphan cron |
| `PersonalActionsService` | `personal-actions.service.ts`, the nightly job, auto-invalidation, the context listener |
| `Nomina` | both services interleaved: `Next`, failures, `Spec`, `FairSpec`, the properties |
| `PayrollLifecycle` | the abstract promise: the state diagram and one payroll at work per slot; `Nomina` refines it |
| `NominaClaims` | statements of docs, comments and migrations that the payroll code refutes |
| `VacationTables` | the account, its ledger and indexes, the transactions, and the rows they meet |
| `VacationService` | the daily provision and the deduction of `employee-vacation.service.ts` |
| `EmployeesService` | creation, join date, inactivate, reactivate, liquidate with their stale saves |
| `IntercompanyTransfer` | simulate and execute |
| `Vacations` | the four of them, payrolls and actions interleaved |
| `AutomationQueue` | both queues of the worker, several processes, and HR's saves |
| `AuthzService` | how a permission is resolved, cached, versioned and changed |
| `PermissionsClient` | the guard, the realtime events and the browser that follows them; composes `AuthzService` |
| `UsersService` | accounts, wrong passwords and locks, and administrators that change them |
| `RefreshSessions` | sign-in, refresh with rotation, sign-out, the page's calls; composes `UsersService` |
| `AuditOutbox` | publish, record, and the worker of every process |
| `ResponseCache` | the interceptor and the cache of one scope; composes `AuditOutbox`, whose trail it caches |
| `MC...` | values for TLC: `MCNomina`, `MCRaces`, `MCVacations`, `MCAutomation`, `MCAuthz`, `MCAccess`, `MCCache` |
| `NominaProofs`, `LifecycleProofs`, `VacationProofs`, `AccessProofs`, `CacheProofs`, `AutomationProofs`, `AuthzProofs`, `SerialProofs` | the theorems (section 4) |

Most specifications have a variable `mix` (in `MCRaces`, `plan`) that is chosen by `Init`
and never changes: which actors, operations and faults this behaviour has. TLC thus
checks several small compositions in one run instead of one large one. No operation looks
at it: it only bounds what may happen together.

### Correspondence and abstractions

| In the model | In the code |
|---|---|
| `payroll[p].slot`, `slotKey`, `isActiveSlot` | the columns of company, dates, type and currency; `slot_key`, built from them (`buildSlotKey`) and with the suffix `\|inactive\|id` if `tagged`; `is_active_slot`; the unique index is on the last two |
| `activo` | `esInactivo = 1` (the column's name is inverted) |
| `selection[p][e]` | `nomina_empleado_verificado`: `out`, `in` (included and verified), `reval` (pending revalidation) |
| `inputs[p]`, `results[p]` | the actions in `nomina_inputs_snapshot`, the employees with a row in `nomina_resultados` |
| `orphans` | unprocessed reactivation items; duplicates collapse to one |
| `Late`, `Unfit`, `Period`, `Owner` | approval after the cutoff; ended employment, other company or currency; effect dates; employee |
| `SocialCharges` | the company has social charges, which are inputs without an action |
| `account[e].activa` | `estado_vacaciones_cuenta`: set when the account is opened, from the state of its owner, and never again |
| `ledger[e]`, `account[e].ultima`, `NextDue` | `sys_empleado_vacaciones_ledger` in order of id, `ultima_provision`, `addOneMonthWithAnchor`; a month has two days |
| `Crossing`, `Copies` | actions that begin before the date of a transfer and end after it, and the rows of their second halves |
| `queue[kind][e]` | the row of the identity or encryption queue under the key of employee and kind, which is unique for ever |
| `Unqueued`, `Scanned`, `ScanLimit` | the candidates of an enqueueing query, and those within its `ORDER BY id LIMIT 200` |
| `employee[e].plain`, `encrypted` | the sensitive columns as they are, and the flag `datos_encriptados`: two fields, since they can disagree |
| `configured`, `Rival`, `EmailOf` | the application and role the worker grants exist; other company or cedula; address |
| `version[r]`, `token` of `AuthzService` | `sys_authz_version`: the row of the system and that of the user (0 when missing), which together are the token; `ensureRows` is an upsert that sets an existing row back to 1 |
| `cache[p]` | the map of a process from company and token to an answer, in order of entry |
| `seen`, `Parts`, `lost` | what `resolvePermissions` has read so far, query by query; the answers of caught queries that failed (`ReadLess`) |
| `users[u].lockedUntil`, `Updated` | the time a lock ends (0: none), a number that no other lock has, since `save` compares times; the columns in which an entity differs from the row read before the `UPDATE` |
| `sessions[s]`, `root` | `sys_refresh_sessions` in order of creation, the sign-in a chain of rotations started from |
| `calls[b][k].client`, `server` | a call of the page in the interceptor and its refresh in `auth.service.ts` |
| `writer[m].todo`, `floor` | the scopes a mutation still invalidates; the mutations that had done so when a reader asked (a history variable of the properties) |

Abstracted everywhere: texts, amounts and times of day. A time that a property depends on
is a nondeterministic step (a lock that is ten minutes old, an entry that reaches its TTL,
a token or a session that expires, a fetch that times out). In the payroll: amounts, taxes and
proration (a result exists or not; its gross is positive, so apply provisions an aguinaldo
for it); `lastSnapshotAt`; the version lock of actions, which no code reads; quotas and
lines; one company and currency; the preview of the bulk load, whose refusal of verified
rows may have passed before the mark. The nine kinds of action have nine copies of four
handlers with the same reads, guards and writes: they are one here. CONTABILIZADA and
NOTIFICADA are states no handler writes. `process` begins by deleting the snapshots of its
payroll, whose row locks keep a second `process` of it waiting (`Processing`). In the
vacation model a request is one day long and a simulation is one step, since what
`simulate` reads `execute` reads again. In the authorization model one user, one
application and one permission are followed. In the cache one scope is followed, and the
lock of an entry keeps nobody out: who does not get it waits, looks again and loads. While
a session is being restored the page shows a spinner: nobody signs in (`Restoring`).

## 3. Runs

Every cfg gives its constants only. `CHECK_DEADLOCK FALSE` is said where the system may
stop: at a bound, or because nothing is left to do. Symmetry is used with safety
properties only. Times are those of two TLC workers.

| Run | Instance | Shows |
|---|---|---|
| `one_at_a_time` | 2 payrolls, 1 slot, 1 action, 1 session, all operations, `MaxVersion` 6; 1.6 million states, 1 min | requests served one after the other: the state diagram (`ImplementsLifecycle`), one payroll at work per slot, applied payrolls are closed, actions are consumed by the right payroll and not lost, final ones stay; the aguinaldo matches the results; apply respects HR's marks |
| `races` | three plans: 2 sessions on 2 payrolls and 2 slots (`SlotRace`, version 2); 2 sessions on 1 payroll (`ApplyRace`, 4); 1 session on 2 payrolls of 2 periods that share an action (`BothPeriods`, 8 and 4), which is released, approved again and collected by the other; 1.4 million, 95 s | the index keeps one payroll at work per slot under races, both saves of `create` included; apply succeeds only from VERIFICADA with nothing to recalculate; two applied payrolls never pay one action; an inactive payroll holds nothing payable |
| `cron` | cron and nightly job, 1 session, 2 payrolls, 1 failure, `FairSpec`, `MaxVersion` 3; 210 thousand, 25 s | no orphan waits for ever |
| `vacations` | four mixes: 2 provisions with leaves and returns; a provision and 2 requests on 1 transfer; transfers and payrolls; a provision and a payroll; 2 companies, 5 days of 3 months, employees and accounts there before the migration, active and not, 1 death; 830 thousand, 90 s | nothing is booked twice, transfers balance, the provision catches up |
| `workers` | eight mixes of 1 or 2 workers, 1 or 2 employees of one address, both queues, HR, the application configured and not, `ScanLimit` 1, at most 1 fault; 790 thousand, 90 s | who is linked has all grants; strangers do not share a user; DONE is encrypted; every candidate within the scan is served |
| `authz` | eight mixes: a guard with 1 or 2 administrators, processes, parts, the answer for all companies, queries that fail; a browser with events, polls, a fault, or changes of company; 440 thousand, 120 s | a bypass is fresh; caches and the browser catch up |
| `access` | seven mixes: 1 administrator on 3 users, 2 on 2, sign-ins with right and wrong passwords, pages with 1 or 2 calls whose tokens and sessions expire; `MaxAttempts` 3; 540 thousand, 120 s | an administrator remains, locks come with blocks, wrong passwords end, sessions of a chain, pages have sessions, calls end |
| `cache` | ten mixes: 2 mutations with 2 ticks in 1 or 2 processes; 2 readers with 1 or 2 mutations, 1 or 2 processes, Redis or memory, warm or cold, at most 1 fault; the trail read while it is written; 300 thousand, 95 s | what says processed was copied, copies are bounded, pending ends; no invalidated list is read, lists catch up |
| `claim_*` | see below | a statement of the repository that the code refutes |

Bounds, and why they are enough:

- `MaxVersion` stops new requests on a payroll whose version exceeds it. A life from
  create to APLICADA takes five increments (mark, process twice, verify, apply): 6 leaves
  room for a reopen, a second process or a change of marks after the verification; 4 in
  `ApplyRace` lets verify and apply start while the other session holds any of its
  requests; 8 for one payroll of `BothPeriods` and 4 for the other is enough for the first
  to compute an action, lose it to the other, come back, and be processed again and applied
  after the other was.
- Two payrolls are enough for every property that relates two (slots, paid once,
  hand-over of actions); handlers treat actions and employees independently, so one of
  each suffices. With one session the question is whether the guards are right at all:
  several of those properties are false when requests interleave (section 5).
- A month of two days is the shortest in which an anchor can differ from the first day;
  day 4 is the third month, so that a run can be two months late. `LastHire` 0: who is hired
  later is provisioned later. Two runs overlap, and a third would find what two leave.
- `MaxAttempts` 2 and 3 instead of 5: the first failure, the one in between and the last
  are told apart. `MaxWrong` 10 is beyond what `WrongPasswordsEnd` allows for 3 (9).
  `MaxSession` 4 and `MaxExpiries` 2: two calls that rotate twice.
  `MaxLocks` 5: the times of all locks that accounts and requests may hold at once.
- `ScanLimit` 1 instead of 200: with two candidates one stands behind a full scan.
- Two processes, readers, ticks, administrators: every hazard of section 1 is a race of
  two. `MaxFaults` and `mix.faults` bound what fails half-way; a system that fails every
  time justifies no liveness.

Some properties hold under a condition on the mix that is part of them and says where the
code stops keeping them: `SharedUserIsKin` with one worker and requests of HR that do not
overlap, `CandidateServed` of candidates within the scan, `BypassIsFresh` of requests none of whose
queries failed, `LockComesWithBlock` with two sign-ins at a time and no administrator,
`AnAdminRemains` with one administrative request at a time and no wrong passwords,
`WrongPasswordsEnd` with no administrator and no dying process, `OneLivePerChain` with one
call at a time that waits for its answer, `ReadsSettled` once versions exist and while
nothing fails, `OneOperationalInRaces`, `InactivesHoldNothing` and `PaidAtMostOnce` in their
plans, the first while no payroll is moved that another request is about to save (`MovesApart`).
The excluded cases are in the same runs, for the other properties, and in section 5.

Fairness, and why the code justifies it:

- `cron`: weak fairness of the tick, of the visit of the next payroll and of the
  reassignment itself: `@Cron('0 */5 * * * *')` fires whatever happened before, and the
  loop catches the error of one payroll and goes on. Nothing is assumed of HTTP requests;
  ticks do not overlap.
- `vacations`: weak fairness of each provision that is not dead: the worker starts it
  every hour. Nothing is assumed of requests.
- `workers`: weak fairness of each worker's work (`setInterval`) and of the ages at which
  the queries enqueue, release and purge rows. Nothing is assumed of HR.
- `authz`: requests are answered, entries expire after a minute, an administrator's
  request ends. The stream and the poll are not relied on. Strong fairness of `Focus` is
  an assumption on the user, who comes back to the window now and then: without it a
  browser that lost its event would have to rely on a poll that may compare equal tokens.
- `access`: the event loops of the API and the page run what is ready, and a fetch
  answers, fails or reaches its timeout.
- `cache`: timers fire, requests under way go on, rows in memory are written, entries
  reach their TTL.

### Disagreements found

| Run | The repository says | The code does |
|---|---|---|
| `claim_applied_immutable` | "Aplicada = inmutable" (entity) | `reopen` saves an entity read before `apply` committed: APLICADA becomes ABIERTA |
| `claim_usage` | "Las vacaciones ejecutadas por planilla aplicada restan dias" (vacation design) | the deduction looks for approved actions after apply made them CONSUMED: it finds none |
| `claim_encrypted` | "Empleado activo debe terminar con datos sensibles cifrados" (rules of the automation) | inactivate, reactivate and liquidate save the decrypted entity under the flag that says it is encrypted |
| `claim_logout` | "Logout revoca refresh activo y limpia cookies" (report on authentication) | after the access token expired the request is refused; session and cookie stay |

Further statements of the repository fail in the models. They are definitions that a cfg
can name as its property; with the instance given here TLC refutes each:

| Definition | Instance | The repository says | The code does |
|---|---|---|---|
| `HistoryDoesNotBlock` | `MCNomina`, `TwoInARow`, 2 payrolls, 1 slot | "unicidad operativa sin bloquear historicos" (migration) | apply keeps the key and writes flag 0: the second payroll of a slot can never be applied |
| `OneOperationalPerSlot` | `MCNomina`, `SlotRaces`, 2 sessions, 2 payrolls, 2 slots, `MaxVersion` 2 | "no duplicar planilla operativa ... para mismo slot" (entity) | an update that overlaps the inactivation and reactivation of its payroll saves part of each: two payrolls work in one slot |
| `PendingNotConsumed` | `MCNomina`, `LateAdvance` | pending actions are not consumed (manual) | the "approved" aliases contain PENDING_SUPERVISOR |
| `PaidOnce` | `MCNomina`, `LateAssociate`, 2 payrolls | "no hay doble consumo" (design note) | `associate` moves an action that another payroll has computed |
| `SelectionRespected` | `MCNomina`, `Excluded`, `MaxFaults` 1 | an unmarked employee is not applied (manual) | marks and payroll are two saves; if the second fails, apply pays the employee |
| `VerifiedEmployeesLocked` | `MCNomina`, `AdvanceAfterMark` | nothing is approved for a verified employee (manual) | `advance` approves without looking at the marks |
| `VersionInvalidates` | `MCAuthz`, the mixes of `authz` | "versionado de autorizacion para invalidar cache de permisos" (entity) | the upsert sets the version back before the increment: it has the same value after every change |
| `MutationInvalidates` | `MCCache`, the mixes of `cache` | every mutation of payrolls must invalidate their scope (rules) | a request that names no company leaves the list of its company |

## 4. Proofs

All of them checked by TLAPS, for any constants satisfying the assumptions of the modules.

`NominaProofs` (from `SetsAssumption` and `FunctionsAssumption` of `HrTables`):

- `TypeCorrect`: `Spec => []TypeOK`;
- `AppliedThroughCAS`: `Spec => AppliedOnlyThroughCAS`, an action property: with any
  number of concurrent requests and any stale save, only the compare-and-set of apply
  makes a payroll APLICADA;
- `RacingSlots`: `Spec /\ []MovesApart => []OneOperationalPerSlot` for any interleaving of
  requests, cron and jobs in which nothing is applied (`"apply" \notin Requests`: a stale
  save after an apply may put a payroll back to work, `claim_applied_immutable`) and no
  payroll is moved while another request on it is under way (the case above);
- `RacesKeepSlots`: `RacesSpec => []OneOperationalInRaces`, the same for the plans of
  `MCRaces`, two of which apply payrolls, for any finite number of sessions.

`TypeOK` is not inductive: it says nothing of what a request holds at a given step, so a
commit could write an id or an entity that is none. `IInv` adds `WellFormed`: which
requests hold a payroll, an action, an entity and the row it will be compared with, and
that **only apply may hold a payroll it will turn into APLICADA**. The latter is what the
second theorem rests on: `save` writes the state of the row or the state of the entity,
the entity of every handler but apply is unapplied, hence no save applies anything. The
proof has one lemma per group of actions (load, view, commit, reassign, cron, jobs) and
one step per action in each.

`RaceInv` is the invariant of the races. Nothing it says depends on what a request read
being still true: a row that is neither missing nor applied has its `activo`, its key (the
one of its slot, tagged while it is inactive) and its slot flag in agreement (`Keyed`), and
so have the entity and the compared row of every save, the second one of `create` among
them (`Carries`). `save` writes the columns that differ. All but `update` leave the slot
as it is (`Tied`), so that the merge of three such rows takes the three columns from one of
them and is such a row again; an `update` that moves a payroll needs the other two rows to be
active, which is what `MovesApart` is for. And the index (`Indexed`) refuses a row that
would work in a taken slot.

`LifecycleProofs`: `OneAtWork`, the abstract life cycle keeps one payroll at work per
slot. The invariant is inductive as it stands; steps that let nobody in preserve it
(`StayApart`), and the three that let somebody in find the slot free (`EntersFree`).

`VacationProofs` (from `VacationAssumption`): `MovementsBookedOnce` (`[]NoMovementTwice`)
and `TransfersAreBalanced` (`[]TransfersBalance`). Everybody computes movements from an
old snapshot; what protects the ledger is that it is append-only and has two unique
indexes. The invariant `VInv` says that the rows of a ledger are distinct in the sense of
the indexes and that every end of a transfer has its other end (`LedgerOk`), that whoever
has an account, a movement, an action or a transfer was hired (`OnlyHired`: a hiring
books into an empty ledger without an index check), that what runs and requests hold was
once read (`Processes`: a snapshot never shows more rows than there are), and that a
transfer that says EXECUTED is booked (`Executed`). `AppendDistinct` and `AppendBalanced`
carry both facts over concatenation; `BookKeeps` is the one lemma all bookings use; and
`Grows` states what the others rely on while one process moves (nobody is unhired, no row
disappears, actions and transfers keep their employees), so that `FrameKeeps` leaves each
of the 22 actions to look after the process it moves only. `VacationsTyped` (`[]TypeOK`)
adds `DateInv`: what needs an argument is the dates, since a run goes on with the anchor,
the cutoff and the last month it read at its start. It is never ahead of the calendar
(`Timely`), and whatever a request may still write is a row (`Writable`).

`AccessProofs` (from the assumptions of `UsersService` and `RefreshSessions`):

- `AccountsTyped`: accounts and the copies of them in flight are well typed;
- `LockIsABlock` (`[]LockComesWithBlock`): no account, and **no copy** of one that a sign-in
  holds, has a lock or the last permitted count without the block (`Sound`). That alone does
  not survive the `UPDATE` of the columns that differ: if the copy to compare with was read
  after the other sign-in's block, the state is left out. What saves it is `Alone`: nobody
  comes in to an account that is blocked, so whoever is still inside is there alone, and the
  row he reloaded while it was blocked is the row his `UPDATE` finds (`HeldSound`). A third
  sign-in, or an administrator, is what `Alone` has no room for. It holds when the process
  dies as well;
- `AdminRemains` (`[]AnAdminRemains`): with one administrative request at a time, the
  request that passed its count still finds another administrator when it saves, because
  nobody else restricts one in between (`AdminIInv`);
- `SessionsTyped` (`[]TypeOK`): a rotation finds a row to rotate to because there are as many
  unused rows as calls under way may still need (`Counted` in `SessInv`), which is
  counting over finite sets of calls and sessions; the chains of two browsers have no row
  in common (`Apart`);
- `PageKeepsSession` (`[]PageHasSession`): `PageInv` says that the session of a page is
  kept, which is live or expired but not revoked, or one of its calls is at a step that will
  find out (`Explains`), that no idle call
  has a refresh under way with the cookie of the page, and that a page being restored has
  that one call only: `App` shows a spinner and nobody signs in meanwhile (`Restoring`);
- `OneLiveSession` (`[]OneLivePerChain`): with one call at a time that waits for its answer,
  `ChainInv` follows the rotation: it revokes the row it found, which was the one kept row
  of its chain even if it expired since, before it saves the new one;
- `GuessesEnd` (`[]WrongPasswordsEnd`): for any `MaxAttempts`. `DoorInv` weighs the wrong
  passwords tried against the count in the row and the copy in the other sign-in's hands
  (`WithOther`): two that overwrite each other leave a higher count in each round. An
  `UPDATE` that leaves the count out, because the reload found it written already, counts as
  done (`WritesCount`, `Place`); that it cannot unblock the account is `LockInv` again. The
  property needs a mix without administrators and without processes that die: an attempt
  that was compared and not yet counted would be free.

`CacheProofs` (from `OutboxAssumption` and `CacheAssumption`):

- `OutboxTyped`, and `NothingSkipped` (`[]ProcessedIsCopied`): the invariant adds `Marks`: a
  tick that is about to mark a row has copied it, and copies are never taken back; hence
  it does not matter which worker's old row is saved last;
- `CopyBound` (`[]CopiesBounded`): `CountInv` says that the copies made and the ticks that
  may still make one (`MayCopy`) are together within the bound; a fault gives every tick
  another try and raises the bound by as much. The argument is one of finite sets;
- `CacheTypes` (`[]TypeOK`);
- `ReadersSeeWhatSettled` (`[]ReadsSettled`), with one memory for all (`OneMemory`) and while
  nothing fails. `ReadInv` says, of each key: no reader and no entry has a version later
  than the present one (`NoneAhead`); what is kept or about to be kept under the present
  one has all that was invalidated (`LatestSettled`); and a reader with an older version
  asked before those invalidations (`FoundSettled`), so that a reader that stores late
  stores under a version that only readers as old as itself look at.

`AutomationProofs` (from `AutomationAssumption`): `QueuesTyped`, `LinkedProvisioned`
(`[]LinkedIsProvisioned`) and `DoneEncrypted` (`[]DoneIsEncrypted`). The invariant has
what every worker knows at its step (`Knows`: which grants of its user it has seen to,
that what it encrypted is encrypted) and that every row, and **every copy** of one that a
worker or a clerk of HR may still save, names nobody or a user with all grants. It holds
whoever else works on the same job because every step goes `Forward`: no grant is taken
back and no provision returns to plaintext. `SharedUserKin` (`[]SharedUserIsKin`) has an
invariant of its own, `KinInv`, for one worker and clerks that take turns: while a worker
holds a user for an employee, no rival has it and none can get it (`JobKin`), and a clerk
saves back no user that the employee has not (`HeldStill`). The worker compares an employee
with the last one linked to the user only, so kinship must be transitive
(`KinIsTransitive`; same company and cedula is).

`AuthzProofs` (from `AuthzAssumption` and `ClientAssumption`): `BypassFresh`
(`[]BypassIsFresh`). The invariant follows a bypassing request through its resolution
(`Shape`) and says of one that met no change and no failed query that the parts read so far, the companies
decided before the present one and the value are those of the tables (`Accurate`).
`AuthzTyped` (`[]TypeOK`) adds `ClientTypes`; its content is the bound of a version (each
administrator adds one, `Versions` counts who has yet to) and that no answer is kept, and
no token remembered by the browser, for a row that does not exist.

`SerialProofs` (from the assumptions of `HrTables` and `Alone`: no two sessions, so that
requests do not overlap; the cron, the nightly job and the events still run between the
steps of a request):

- `RefinesLifecycle`: `Spec => ImplementsLifecycle`, every step of the tables is a step of
  the state diagram or a stutter;
- `SlotExclusive` (`[]OneOperationalPerSlot`), `AppliedStays` (`AppliedIsFinal`),
  `ConsumedStaysPaid` (`[]ConsumedByAppliedPayroll`), `AguinaldoSettled`
  (`[]AguinaldoMatchesResults`);
- `SelectionKept`: `SelectionRespected`, also assuming `MaxFaults = 0`. It fails without:
  the last table of section 3 has the instance.

None of these is inductive: a save could write anything the request holds. `SerialInv`
says what it holds (`Holds`): the entity is the row of the table with what the handler
edits (`Edits`), the row that `save` compares with is the row of the table, and actions it
will link are not consumed. So a save writes exactly its entity (`SavesItsEntity`), and
the edits are moves of the diagram. `Fits` (a payroll at work is active, untagged and in
the active slot) and `Indexed` (the unique index) make a slot exclusive: the index lets
nobody else in (`FreeSlot`). `SelectionKept` adds `Computed`: results that need no
recalculation are those of included employees, unless the marks are just being changed,
and such a change is followed by its save, which the index cannot refuse
(`MarksAreSaved`). Overlapping requests break part of this: `claim_applied_immutable` is a
run that does, and `OneOperationalInRaces` is what `races` still finds true.

The second part of `SerialProofs` is about the actions, with the cron, the nightly job and
the events off (`NoJobs`): they write what a request has read, and each theorem fails with
them (section 5).

- `FinalStay` (`FinalActionsStay`) and `NothingLost` (`NoActionLost`), both action properties;
- `PaidOnceAlone` (`[]PaidOnce`, without `associate`) and `InactiveHoldsNothingAlone`
  (`[]InactiveHoldsNothing`, also without `revive`, which brings an action back to life in
  the payroll that was inactivated around it);
- `RacesPayOnce` (`[]PaidAtMostOnce`) and `RacesHoldNothing` (`[]InactivesHoldNothing`): the
  same for `RacesSpec` with any finite number of sessions that take turns, where requests
  are those of the plans (`Planned`): an inactivation releases actions, `approve` and
  `advance` approve them again into another payroll or into none, and any payroll collects.

`OpenInv` is their invariant. `Read` says of each request at each step that what it read is
what the tables hold: the payroll (`ReadsPayroll`), the orphans it will link or close
(`ReadsOrphans`: each item it closes is of an action it links, of a final one, of one with
a payroll or of another period) and the action it carries (`ReadsAction`: in a state from
which its operation may leave). `InputsLinked` says that the actions in the snapshots of a
computed payroll are linked to it and approved or consumed: `PaidOnce` follows, as an
action has one link. Every step is shown to keep it while its request is the only one
under way (`Solo`), which follows from `Alone` or from the bound of the plan
(`UndisturbedSolo`); two kinds of lemmas carry the steps, for those that only read
(`ReadsOnly`) and for those that write actions (`ActionsOpen`, action by action).

Only model-checked, since liveness is out of the prover's reach: `OrphansReassigned`,
`ProvisionCatchesUp`, `CandidateServed`, `CacheCatchesUp`, `ClientCatchesUp`, `CallsEnd`,
`PendingEnds`, `ListsCatchUp`. Every invariant and action property that a passing run
checks is the subject of a theorem.

## 5. Seen while modelling

Behaviour of the code that the models show and that no run states, since nothing in the
repository promises otherwise or the property is limited to the case that holds.

Payroll and actions:

- A reopened applied payroll (above) can work beside a new payroll of its slot.
- `create` saves its entity a second time for the name. That entity is as old as the
  `INSERT`: what a process, an inactivation or a reactivation wrote between is taken back, or
  half of it if it came between the reload and the `UPDATE`. `RacingSlots` shows that
  harmless for the slot; it may still lower the version. An update that overlaps an
  inactivation and a reactivation is not harmless: it can leave a payroll at work under a
  key or flag of another slot or state, beside which the index lets another in (`MovesApart`).
- Apply consumes by link and employee: an approved action that entered after the results
  were computed is consumed and in no snapshot; one of an unselected employee stays
  APPROVED in a closed payroll, against the comment at `payroll.service.ts:1983`.
- The nightly job expires PENDING_SUPERVISOR actions too (same aliases).
- The cron links an orphan that was rejected after its eligibility was computed (the
  UPDATE at `payroll.service.ts:2470` only asks for no link), and may link orphans to a
  payroll that was inactivated meanwhile. Hence `FinalActionsStay` and
  `InactiveHoldsNothing` are checked without it.
- advance and reject save the action they read: an expiry in between is undone.
- An action linked between the SELECT and the UPDATE of inactivate loses its item.
- Stale saves can lower the version lock, which weakens the compare-and-set of apply.

Vacation days and transfers:

- Two movements of one account computed from the same snapshot leave a `saldo` that is not
  the sum of the deltas; the next movement goes on from it.
- An employee who is inactive at the moment of a month skips it, and the run goes on:
  that month is never provisioned.
- The state of an account is that of its owner when the account was opened: by the migration,
  by a change of the join date or by a transfer, all of which meet inactive employees.
  `reactivate` (`employees.service.ts:636`) does not touch it, so that the months of such an
  employee are never provisioned after he comes back. `ProvisionCatchesUp` is therefore a
  property of active accounts.
- inactivate, reactivate and liquidate save the company they read: a transfer in between
  is undone for the employee, not for its account and actions.
- Actions are moved with the plan: one consumed since is moved as well, and a payroll that
  consumed it is no longer the one it points to.
- FAILED may be saved after another request committed EXECUTED.

Workers:

- The claim of a job has no condition: two workers run one job; a second worker can
  reclaim a job that failed since its batch was read.
- The scans that enqueue take the 200 candidates of lowest id, and a candidate whose row is
  DONE or failed stays one: `INSERT IGNORE` does nothing for him, but he takes his place.
  Behind 200 of them nobody is queued until the rows are purged (`Scanned`).
- Two workers both find a user linked to nobody: two employees share it. So do two requests
  of HR: one unlinks an employee, the other saves the old user back once a rival has it.

Authorization and sessions:

- The queries of global roles and their exclusions, of the exceptions and of the global
  denials are caught ("no existe aun") and count as empty. A failed query of the roles takes
  permissions away; one of the exceptions or of the denials gives what is denied, though
  the comment says "Denegacion global: ... NUNCA aplica" (`auth.service.ts:410`). The answer
  is cached like any other, and `CacheCatchesUp` bounds it by the minute of an entry.
- Two administrators each count the other and remove both. Roles and wrong passwords
  count nobody.
- A refresh does not look at the state of its user: a blocked user keeps his sessions.
- A rotation revokes what it read without a condition: two parallel refreshes leave two
  live sessions, and a refresh that timed out leaves one whose cookie nobody holds.
- Parallel sign-ins lose counts of wrong passwords, even a block, though not for ever.
- `registerFailedAttempt` saves the columns that differ from a row it has just reloaded. If
  that row is blocked already and an administrator reactivates the account before the
  `UPDATE`, only the time of the lock is written: an active account is locked for a quarter of
  an hour although it was reactivated ("Al reactivar se limpian `failedAttempts`,
  `lockedUntil`", `15-ModeladoSysUsuarios.md:146`). A third
  sign-in that takes a block back does the same. Hence the condition of `LockComesWithBlock`.
- An idle page goes on showing the application after its refresh session has expired: only
  its next request finds out. `PageHasSession` is about sessions that somebody revoked.

Outbox and caches:

- Two events of one name, aggregate and millisecond have one key: the second is lost.
- A failed first question is remembered as a missing table (`schemaReady`): that process
  never copies again. If it is the only one, pending events stay.
- A row that was copied may say failed, or be copied twice.
- A reader that finds no version writes 1 over an increment, and a version incremented in
  memory while Redis failed is not seen when it answers again: old lists come back until
  their TTL.
- The cached trail lacks what the worker copied since; no mutation invalidates it in time.

## 6. Not modelled

- Calculations: taxes, social charges, proration, overtime and the amounts of actions,
  the monetary provision that mirrors vacation days, the aguinaldo of a transfer. They
  are sequential arithmetic over decimals, within reach of unit tests; no property here
  depends on an amount.
- The reactivation items, quotas and lines a transfer touches, and the screening of a
  simulation.
- Microsoft sign-in (external), the rate limit and the reset of passwords.
- Catalogues (payroll, companies, organisation, roles and permissions), distribution
  rules, notifications, operations and health: single-row CRUD or read-only, with no
  state that two steps could disagree about; where their changes matter (roles,
  companies) they are changes of the tables of `AuthzService`.
- The pages of the web client: forms and queries. What they send are the inputs of the
  other modules; its session and permission handling are modelled.

Most of the repository's 123 thousand lines are of these kinds, or are the nine
near-identical copies of the handlers of actions, of which one is mapped. What is left to
do is in the proofs there are: which of the theorems about requests that take turns still
hold, in a weaker form, when they overlap.

## 7. Running

    tlc -workers 2 -config one_at_a_time.cfg MCNomina
    tlc -workers 2 -config vacations.cfg MCVacations
    tlapm VacationProofs.tla

`PROJECT.json` names the module of every run, what each definition translates, and a
plausible bug for each property with which its run finds the property violated.
