# Verification of CrewOps

TLA+ specifications of [CrewOps](../src/README.md), the field-operations system in
`src/`: a NestJS API (`apps/api`), a Next.js client (`apps/web`), a Postgres schema with
its migration tools (`packages/db`), and shared contracts (`packages/shared`).  Each module
says what part of the code it models; TLC checks it on small instances, and TLAPS proves
every safety property that holds, for every value of the constants.  The three liveness properties
are model-checked only.

The code implements identity and sessions, users, branches, technicians, customers,
service addresses, audit, health probes, the web shell and the database tooling.  Tickets,
work orders, dispatch, offline synchronization, evidence and location exist as tables and as
documents only; nothing here models them, because there is no code to be faithful to.

    SessionLifecycle   abstract: sessions are opened once and closed at most once
      ^ implemented by
    Sessions           login, refresh, logout, guard, user changes, statement by statement
      MCSessions, MCSessions*.cfg      runs
      SessionsProofs                   theorems

    MigrationHistory   abstract: a history that grows and shrinks at its end
      ^ implemented by (tools taking turns)
    Migrations         db:migrate and db:rollback from several working trees
      MigrationGate                    its pure checks
      MCMigrations, MCMigrations*.cfg  runs
      MigrationsProofs                 theorems

    Registry           branches, users, technicians, customers, addresses: the requests
                       of the API over five tables, their constraints and guards
      MCRegistry, MCRegistry.cfg       run
      RegistryProofs                   theorems

    Schema             the tables and their foreign keys
      ^ used by
    Seed               db:seed, with and without --reset
      MCSeed, MCSeed*.cfg              runs
      SeedProofs                       theorems

    CustomersPage      the list of customers in the panel, over its two statements
    CustomerDetails    the page of a customer, the session client, the CSRF cookie
      MCCustomersPage, MCCustomerDetails, *.cfg   runs
      CustomersPageProofs, CustomerDetailsProofs  theorems

    LoginLimiter       attempts to log in, per address and window
    Health             readiness probes, their timers and the connection pool
      ^ composed by
    ApiProcess         one process: its clock and its restarts
      MCApiProcess, MCApiProcess.cfg   run
      ApiProcessProofs                 theorems


## 1. Inventory

For each component: the state it keeps, its operations, how it meets the others, what is
hard about it, and what makes it correct.

**Sessions** (`auth.service.ts`, `session.repository.ts`, `token.service.ts`,
`auth.controller.ts`, `authenticated.guard.ts`).  State: the tables `users` and `sessions`,
three cookies per browser, and an in-memory limiter of logins.  Operations: login, refresh,
logout, me, csrf, and the guard in front of every other route.  A handler is a chain of
statements, each awaited on its own pooled connection; no transaction is opened, so
handlers interleave at every await, and with the statements of user administration.  A
statement may fail and the process may stop between any two.  Correct when: a revoked
session is refused and stays revoked; a request never runs with authority its user had lost
when it arrived; every session has a bounded life; a security change ends the sessions it
should; service under a revoked session drains.

**User administration** (`users.service.ts`).  State: `users`.  Operations: list, create,
update, deactivate.  update is the hub: after the UPDATE it revokes the user's sessions when
the patch names role, status or password.  Hard: the two are separate statements.  Correct
when: both happen, e-mails stay unique within a company.

**Audit trail** (`audit.service.ts`).  State: `audit_logs`, append only.  Every service
writes to it after its own statement; a failure is logged and swallowed.  Correct when: it
tells nothing that did not happen; payloads carry no credential.

**Role, company, branch, ownership and CSRF guards** (`common/guards`).  No state of their
own; decisions on the request and `req.user`, some with one lookup.  Correct when: their
composition equals the documented permissions.

**Branches, technicians, customers, service addresses.**  State: one table each, soft
deletion for branches and customers.  Operations: list, get, create, update, delete.  Hard:
the parent row is checked in one statement and used in another; unique indexes that soft
deletion does not release; offset pagination.  Correct when: rows belong to their company, a
child's parent existed and was active when it was checked, unique keys hold.

**Migration tools** (`rollback.ts`, `migrate-check.ts`, `migration-journal.ts`, drizzle-kit).
State: the schema, the table `drizzle.__drizzle_migrations`, and the Drizzle journal of the
working tree a tool is run from.  Operations: db:migrate, db:rollback, db:migrate:check.
Hard: the journal is not the database's but the developer's, and may hold another branch or
an edited migration; the rollback reads the table before its transaction; a script may fail.
Correct when: the table names the migrations in effect, and a rollback reverts the latest
migration and deletes its row and no other.

**Seed** (`seed.ts`).  Clears tables in a fixed order and inserts a pilot data set, in one
transaction.  Hard: the order against the foreign keys; two seeds at once.

**Health** (`health.service.ts`).  Probes of the database, Redis and the queues raced against
a timer.  Hard: answers that settle after the timer.

**Web** (`lib/session.ts`, `hooks/useAuth.ts`, the pages).  State: cookies, local storage,
component state.  Hard: the CSRF cookie is shared by all tabs and replaced by each; answers
out of order; a logout that fails half way; operations that outlive their page and its session.

**Bootstrap, realtime gateway, HTTP plumbing, shared contracts, documentation checks.**
Straight-line code with no state that outlives a call.  Not modelled.

`PROJECT.json` lists these with their files ("components") and what can go wrong in each at
its line ("hazards").


## 2. Plan

The components were taken in the order of what they decide: sessions, migrations, the
registry with its constraints, the seed, the pages, and what a process keeps in memory.  All
of these are modelled (sections 3 to 8).  What is left, in this order:

1. The other half of the audit trail: that an event which
   `group-06-identidade-organizacao-autorizacao.md:424` lists is recorded unless its insertion
   failed (section 9).
2. Tickets, work orders, dispatch and synchronization, when there is code for them.

Every invariant and action property that a run shows to hold is a theorem too, of the same
specification.  Model-checked only are `RevokedSessionDrains`, `DeactivatedUserDrains` and
`EveryCheckIsReported`, because liveness under fairness is out of the prover's reach, and the three
properties of section 10 that are violated.  Each inductive invariant was checked by TLC on the
instance of its run before it was proved.


## 3. Sessions

### State

| variable | code |
|---|---|
| `users` | the columns `status` and `role` of `users`; `gen` counts the committed changes of role, status or password |
| `sessions` | the rows of `sessions`: user, role, `expires_at`, `revoked_at` |
| `audit` | the rows of `audit_logs` written by the session and user services |
| `held`, `accessExp` | the cookies clients have received: refresh tokens, and for each session the latest expiry of an access token |
| `handler` | the requests in progress: where each is and its locals |
| `now` | `Date.now()`, one clock for the API and Postgres |
| `missed` | history: users with a change whose revocation was cut short |

A session stands for its refresh token, which is random and unique.  `gen` and `born` of a
row, `revokedBefore` of a request, and `missed` are history: no action reads them to decide
anything, they let a property speak of the past.

### Actions

An action runs a handler from one await to the next.

| actions | code |
|---|---|
| `LoginFind`, `LoginVerify`, `LoginInsert` | `AuthService.login`: find the user; bcrypt, token and expiry; insert and sign |
| `RefreshFind`, `RefreshUser`, `RefreshRevoke`, `RefreshExtend` | `AuthService.refresh` |
| `LogoutFind`, `LogoutRevoke` | `AuthService.logout` |
| `UpdateUser`, `UpdateRevoke` | `UsersService.update` and `deactivate` |
| `AuditAndRespond` | `AuditService.write`, then the response and its cookies, which the client may not receive |
| `RequestArrives`, `GuardSession`, `GuardUser`, `Served` | `AuthenticatedGuard`: arrival, the query on `sessions`, the query on `users`, the route |
| `Abort` | a statement fails or the process stops: what is committed stays |
| `Tick` | time passes |

Abstractions.  A password is right or wrong for the hash that was read.  The status
`blocked` is treated like `inactive`, as every query does.  Requests that are refused before
they touch the database, 404 and 409 answers, and a login with several candidate users
change no state and are left out.  A user's older access tokens expire no later than the
latest, so only the latest is kept.  The check of the token and the query on `sessions` that
follows it at once are one step, as are a row's `revoked_at` and the moment of its UPDATE.
The administrator who changes a user need not be one of `Users`: his own request is that of
`UpdateUser`, after its guard.  `cleanupExpired` and `findActiveById` have no caller.

### Properties

| property | what it says |
|---|---|
| `TypeOK` | types of all variables |
| `NoServiceAfterRevocation` | a request that arrives after its session was revoked is never served |
| `AuthorityIsCurrent` | a request is served as an active user with the role of the record, unless the record changed after it arrived |
| `SurvivorsAreExplained` | a usable session older than the last security change belongs to a revocation that is pending, or was cut short, or to a login that overlapped the change |
| `WindowsAreBounded` | no session and no access token has more than its time to live left |
| `RevocationIsFinal` | the time of a revocation is never changed or cleared |
| `AuditIsTruthful` | the trail tells of no login, refresh or logout that did not happen |
| `ImplementsLifecycle` | the handlers implement `SessionLifecycle`, through `lifeBar` and `callBar` |
| `RevokedSessionDrains` | service under a revoked session ends for good |
| `DeactivatedUserDrains` | service to a user who stays deactivated ends for good |

### Runs

| run | bounds | checks |
|---|---|---|
| `sessions_core` | 1 user, 2 roles, 1 session, 2 handlers, time 0..3, 2 changes | the safety properties and the refinement |
| `sessions_live` | fair, no symmetry, 1 role, time 0..2, 1 change, login and logout rows kept | the two liveness properties, `AuditIsTruthful` |
| `sessions_older` | 1 role, time 0..2, 1 change | a violation, section 10 |

Two handlers suffice for every race between two requests.  A race of three, a guarded call
with a refresh and a revocation, and a revocation of several rows are left to the theorems,
which hold for any number of handlers and sessions.
`MaxTime` 3 exceeds
`SessionTTL` 2, so sessions expire, are extended and expire again; `MaxChanges` 2 allows a
change during the revocation of another.  `Tracked` keeps audit rows only where a property
reads them.  Symmetry permutes handlers and sessions; it is not used with liveness.

Fairness: `Continue(h)` is weakly fair for each handler.  Postgres answers or the statement
fails, and the event loop of the one Node process runs every continuation; nothing is
assumed of clients, administrators or the clock.

### Theorems (`SessionsProofs`)

All eight safety properties, the refinement included, are proved for any number of users,
sessions and handlers, any times to live and any bounds.  From `SessionsAssumption` only.

`TypeOK` is not inductive: an insert must know that no other handler holds its session, and
the guard that the session it reads is stored.  `Wiring` says so, and `TypeOK /\ Wiring` is
the invariant of `SessionsTyped`; each other theorem adds the part it needs:

* `NoServiceAfterRevocation`: a handler past the session query whose request arrived after
  the revocation would contradict the finality of revocations, so the flag is false there.
* `AuthorityIsCurrent`: `gen` of a user never decreases, and equal `gen` means equal record,
  so it suffices that arrival recorded the `gen` of its time.
* `SurvivorsAreExplained`: a case for each step that stores or revokes a session, changes
  `gen`, or ends a handler that owed a revocation.
* `WindowsAreBounded`: expiries still in a handler's locals obey the same bound, because
  they were computed at an earlier `now`.
* `ImplementsLifecycle`: one step per action, mapped to `Open`, `Close`, `Arrive`, `Admit`,
  `Leave` or a stutter.

The two liveness properties are model-checked only: liveness under fairness is out of
the prover's reach.


## 4. Migrations

### State

A migration is its checksum, which is all the tools know it by.  `schema` is the sequence of
migrations in effect; `table` is `drizzle.__drizzle_migrations` in id order and `nextId` its
serial; `tree[r]` is the journal in the working tree of developer `r`; `runner[r]` is the
tool that `r` runs, with what it has read.  `UpWorks` and `DownElsewhere` say what a script
makes of a schema it may not have been written for; a down script run on a schema whose latest migration is
its own reverts it, which is the one thing assumed of down scripts, since no checksum covers
them.

### Actions

| actions | code |
|---|---|
| `RollbackReadJournal` | `readJournalMigrations` |
| `RollbackReadTable` | the SELECT and `validateAppliedPrefix` |
| `RollbackRun` | BEGIN, the down script, the DELETE, COMMIT |
| `MigrateRead`, `MigrateRun` | drizzle-kit, external: read the latest timestamp; apply newer entries in one transaction |
| `Fail` | a statement fails, its transaction is rolled back, or the tool is stopped |
| `Checkout` | the developer changes to another journal while no tool of theirs runs |

`Spec` lets the tools of several developers overlap; `SerialSpec` lets only one run at a time,
from whatever trees.  `MigrationGate` holds the two pure checks; an issue is its kind.
The refusal in production is a precondition of every rollback here.

### Properties and runs

| property | run | what it says |
|---|---|---|
| `TypeOK` | `migrations_race` | types; above all, what a failing script leaves is never committed |
| `RollbackDeletesItsOwnRow` | `migrations_race` | a rollback deletes no row but one of the migration its down script reverts, whatever ran meanwhile |
| `TableTellsSchema` | `migrations_serial` | the tracking table names exactly the migrations in effect |
| `UpToDateIsTrue` | `migrations_serial` | a journal that db:migrate:check calls up to date is the schema |
| `ImplementsHistory` | `migrations_serial` | every change extends the history at its end or reverts its latest entry |

The instance has the two migrations of `packages/db/drizzle`, `a` and `b`, with what their
scripts really do on other schemas: `a`'s down script drops only what exists, without
CASCADE; `b`'s drops its tables if they exist and then recreates those of `a`.  `bb` is `b`
edited after it was applied, and `c` a migration of another branch older than `b`: with them the
journals diverge in all the ways the gate tells apart (edited, missing, inserted before,
ahead).  `MaxId` 6 lets the history be rolled back and migrated again.

### Theorems (`MigrationsProofs`)

From `MigrationsAssumption` (journals have growing timestamps) and nothing about scripts:

* `UpToDateMeansEqual` and `ValidMeansPrefix`: what the two checks accept, for all lists;
  in the runs they act as the gate of every rollback and of `UpToDateIsTrue`.
* `MigrationsTyped`.
* `RollbackExact`: rows are found again by an id that is never reused.  The invariant
  `RowsInv` says that ids in the table are distinct and older than `nextId`, that the row a
  rollback means to delete is the only one with its id or gone, and that the journal agrees
  with it on the checksum.
* `SerialTableTells`, `SerialUpToDate`, `SerialImplements`: with `SerialInv`, that at most
  one tool is busy and a rollback past the gate has seen the current table, so the row it
  deletes is the last and the script it runs is that of the latest migration.


## 5. Registry

### State

| variable | code |
|---|---|
| `branches`, `users`, `technicians`, `customers`, `addresses` | the five tables: an id, and the columns that a check, a guard or a constraint looks at |
| `handler` | the requests of more than one statement: where each is and its locals |

`edits` stands for all columns that only change.  `closings` of a branch, `seen` of a
customer, `seenLive` of an address and `byAdmin` of a request are history.

### Actions

| actions | code |
|---|---|
| `BranchCreate`, `BranchUpdate`, `BranchDeactivate` | `BranchesService`, one statement each |
| `UserCreate`, `UserUpdate` | `UsersService`: e-mail and branch; role, status and password are in `Sessions` |
| `TechnicianCreate`, `TechnicianUpdate`, `TechnicianDeactivate` | `TechniciansService` |
| `CustomerCreate`, `CustomerInsert` | `CustomersService.create`: `assertBranch`, then the INSERT |
| `CustomerGet`, `CustomerCheck`, `CustomerUpdate` | `update`: `get`, `assertBranch`, then the UPDATE |
| `CustomerDeactivate` | `deactivate` |
| `AddressCreate`, `AddressInsert`, `AddressGet`, `AddressUpdate`, `AddressRemove` | `ServiceAddressesService` |
| `Abort` | a check finds nothing, a constraint refuses, a statement fails, the process stops |

`BranchGuard` and the roles stand before the first statement.  `Refers` is a composite
foreign key and `Free` a unique key; they decide in the statement that writes, and a
statement they refuse changes nothing.  The `get` after the write, which only shapes the
answer, is left out.  No service opens a transaction, so any two requests interleave.

### Properties

| property | what it says |
|---|---|
| `TypeOK` | types; above all, that a PATCH without `branchId` writes none |
| `ReferencesStayInCompany` | no row refers to a row of another company |
| `OrphansAreExplained` | a customer is under a closed branch only if it was closed after the check made for that customer |
| `DeletedIsFrozen` | a deleted branch, customer or address never changes |
| `OnlyAdminsNameBranches` | a customer comes under a branch only by the request of an admin |

Run `registry`: two companies, one branch, one user, two technicians, one customer, one
address, one key, two handlers, three rows in all, one edit of a row, one closing.  Two companies and two
handlers are what a foreign reference or a window between check and write needs; three rows
are the longest chain (branch, customer, address).  A registry whose rows are used up and
deleted may stop, so deadlock is not checked.

### Theorems (`RegistryProofs`)

All five properties, for any number of companies, rows, keys and handlers, from
`RegistryAssumption` (NULL and "left out" are no value of a column).  Every step is first
shown to be one of six kinds: a row of one of the five tables is written, or the locals of
one handler are (`StepsHaveKinds`).  A kind says only what a constraint or an earlier
statement has established, and each invariant is kept by every kind:

* `Wired` types the locals by program counter; `Earned` says what the statements before have
  established: that the branch of a pending write was open when it had been closed
  `seen` times, and that a request that names a branch is an admin's.
* `BranchesKept` carries that across the steps of others: a branch keeps its row and its
  company, and counts each closing.
* `ReferencesInCompany` rests on no check of the services at all, only on the constraints and on rows
  never changing company.
* `AdminsNameBranches` and `DeletedFrozen` are read off the kinds.


## 6. Schema and seed

`Schema` is the graph of foreign keys, of all tables.  `Seed` runs `seedDatabase` as the one
transaction it is, with the locks of READ COMMITTED: a DELETE waits for rows another has
deleted, and then passes over those committed meanwhile.

| variable | code |
|---|---|
| `info`, `live` | all rows ever committed, with the rows they name; those there now |
| `tx` | the transaction of each seed: its position in `TABLES_TO_CLEAR`, rows deleted but not committed, what a waiting DELETE saw |
| `writes` | rows inserted by other programs |

| actions | code |
|---|---|
| `SeedBegin`, `SeedCheck`, `DeleteTable`, `Resume`, `SeedInsert` | `seedDatabase`: BEGIN; the check that no company is there, or the DELETEs in order; the inserts and COMMIT |
| `Abort` | a statement fails, a deadlock is broken, the process stops: ROLLBACK |
| `Write` | the API, or a developer, inserts a row |

| property | run | what it says |
|---|---|---|
| `TypeOK` | `seed` | types; no seed that has ended holds a lock |
| `ResetFailureIsExplained` | `seed` | a foreign key stops a reset only if something overlapped it |
| `ResetLeavesNothingOld` | `seed` | a reset that succeeds leaves none of the rows it found |
| `SecondSeedRefuses` | `seed` | a second company comes only of seeds that overlapped |
| `PilotIsWhole` | `seed` | the rows of a seed are there all or not at all |
| `ReferencesHold` | `seed` | no row names a row that is gone |
| `LoneResetSucceeds` | `seed_reset` | violated, section 10 |

`seed` has two seeds and two inserted rows, in the tables the API inserts into and the pilot
leaves alone (`sessions`, `audit_logs`), and `users`.  `seed_reset` has one seed and any table,
those of tickets and work orders included, which have no writer yet.  The seeds end, so
deadlock is not checked.  Column values and the hashing of the pilot passwords are left out.

### Theorems (`SeedProofs`)

All six invariants, for any number of seeds and of inserted rows, from `SeedAssumption`: other
programs write into tables of the schema, and not into `companies`, which nothing but the seed
inserts into.

`TypeOK` and the properties are far from inductive; `SeedInv` adds what ties the transactions to
the rows, and every step is shown to keep it:

* `Closed`: no row that a transaction leaves names one it has deleted.  A DELETE that would break
  this is refused, so a COMMIT keeps `ReferencesHold`.  `Apart`: no row is deleted by two
  transactions, since the second DELETE waits.
* `Clearing`: of the rows a reset found, those of the tables behind it are deleted, and those of
  the table it waits for were seen by its DELETE.  With the companies last in
  `TABLES_TO_CLEAR` and every table in it (`TablesFacts`), nothing old is left at the COMMIT.
* `Whole` and `Taking`: the rows of a pilot name its company.  A reset that has deleted one of them
  will delete the company, which the foreign keys allow only with all the rest.
* `Alone` and `OneCompany`: a seed that met no other inserts its company into a database
  without one.

`ResetFailureExplained` has one hypothesis more, `Written \subseteq InUse`: other programs insert only
into the tables of the pilot, `sessions` and `audit_logs`.  Those are the tables that some
statement of the code inserts into (the services of users, branches, technicians, customers and
addresses, `session.repository.ts`, `audit.service.ts`); the order of `TABLES_TO_CLEAR` follows the
foreign keys among them (`OrderFollowsReferences`), and not among all tables, as `seed_reset` shows.


## 7. The pages

### CustomersPage

State: the customers, newest first, and those that a narrow filter lets through; the page
(`view`), its unanswered `requests`, and the answer `shown`.  A page is the set of the customers
whose `Rank` among the `Rows` of the filter lies between its offset and the next; how they are laid out
on the screen is left out.  `ReadItems` and `ReadTotal` are
the two statements of `CustomersService.list`, which run at the same time; `Receive` shows an
answer whichever request it belongs to; `Add`, `Remove`, `Edit` are other users.  `walk`,
`since`, `split`, `turned` and `late` are history.

* `StaleIsExplained`: a page at rest shows what it asks for, unless a request failed or an
  answer overtook that of a later request.  The effect cancels nothing, so the second happens.
* `PagesTileTheList`: reading page after page, no customer comes twice unless another entered
  the list, and none that stayed is missed unless another left it or a change fell between the
  two statements of a page.

Run `customers_page`: three customers, pages of one, two requests in flight, at most two
customers at first, one change.  Two requests make every overtaking; pages of one make every
change shift a page.  A user may leave, so deadlock is not checked.

Theorems (`CustomersPageProofs`): all three invariants, for any customers, page size, requests in
flight and changes, from `PageAssumption`: ids are finitely many, and `None` is neither a page, a
number nor an answer.  `PageInv` adds:

* `AskedLast`: what the page asks for is its last request, or that was answered, and then what
  is still on its way is `late`.
* `Ahead`: as long as none leaves the list no rank gets smaller, so the customers still to come
  stay behind the pages that were shown.  `Behind`: as long as none enters, no rank gets larger.
  `Counted`: a total read together with its page tells whether more is to come.
  They hold of the walk and of every request that would extend it.  The lemmas about `Rank`
  (`RankInjective`, and what adding, removing and editing do to it) carry them across changes.

### CustomerDetails

State: the cookies that all tabs share, which are those of one login (`session`, 0 for none) and a
CSRF token; the logins so far and those `live`; how often the customer or its addresses were
changed; the page and React state of each `tab`; the operations `op` that clicks have started.
"details" stands for the pages of the panel, with their logout button.

| actions | code |
|---|---|
| `Mount`, `MeAnswers`, `MeFails`, `Navigate` | `useAuth`: the page is ready whatever `/auth/me` answered (`.finally`), and loads, while the tab is still to go to the login page |
| `UpdateCustomer`, `SaveAddress`, `Logout`, `Login` | a click; nothing disables the buttons of the page |
| `CsrfAnswers`, `Send` | `csrfToken`, then `apiFetch` with the header and whatever cookies there are by then |
| `Serve` | the guards and the handler |
| `Receive` | `apiFetch`, its cookies, then the handler of the page |
| `Read`, `LoadEnds`, `LoadFails` | `load()` |
| `Lose`, `SessionEnds` | no answer; an expiry or a revocation from elsewhere |

A tab is left in two ways (`Goes`).  `router.replace` (logout, login, `useAuth`) unmounts the page and ends
no script: its operations run on with `mounted` FALSE, ask for their token, are sent and
load, under whatever session the cookies then hold, and only `setState` has no effect any more.
`window.location.assign` (a 401) ends the scripts; what was sent is still served, and its
cookies are kept (`Departed`).

Abstractions: a navigation follows the answer that causes it in one step, except after `/auth/me`;
what the page could start in between it could have started just before.  An answer is lost as a
whole: a login whose cookies arrive and whose body does not is left out.  A load is as old as
the older of its two answers, so the model holds one.

* `TypeOK`: types; only a page of the customer is ready, so the state of a page goes with it.
* `RefusedOnlyWhenOvertaken`: a change is refused for its token only when another operation of
  the browser replaced or removed the cookie in between.  Two operations
  make it happen, of one tab or of two.
* `ServedUnderItsToken`: a change that the guards let pass was sent under the login under which
  its token came.  An operation that outlived its session may well be served under a later
  login; what cannot happen is that the login comes between its token and its sending, because
  login brings a token of its own.
* `OwnUpdateIsShown`: a page that loads nothing shows the customer as it last changed it, however its
  operations overlap, unless the load that ended last failed, or had begun before that
  change was acknowledged.  The exception is the older load whose answer comes last: nothing cancels it.
* `SavedAddressIsShown`: violated, section 10.

Run `customer_details`: one tab, two operations, two changes, two logins; deadlock is checked.
The cookies know no tabs: an operation whose page is gone acts on them as one of another tab does,
so two operations of one tab make every overtaking.  The second login is what an operation may
outlive its session into, and two changes tell which of them a page shows.  Two tabs and one
change (`Tabs = {t1, t2}`, `MaxSaves = 1`) are 4.9 million states, which TLC has searched without
an error; that takes too long for a run.  Any number of tabs is what the theorems are for.
Run `details_saved`: one tab, one operation.

Theorems (`CustomerDetailsProofs`): the four invariants, for any number of tabs, operations,
changes and logins, from `DetailsAssumption`.  `DetailsInv` says of each operation what it may hold
where it is (`OpPlace`); that a token which does not match was overtaken, and one which does came
under the present login (`OpToken`); and that a load of a page that no change of this page has
overtaken has read all of them (`OpLoad`).  Of each tab it says `OwnUpdateIsShown` itself, with a
customer that is there (`TabGood`).  Every step is about one operation or leaves one tab:
`Kept` is what it may do to all other operations, and `OtherKept` shows that they keep the invariant.


## 8. One process of the API

`LoginLimiter` holds a `counter` per address, with the attempts used and the ticks left of its
window: `Attempt` is `consumeLogin`, and `LimiterTick` the passing of time.  `admitted` (attempts
admitted, by how many ticks back one looks) and `refused` are history.  `Health` holds the
`database` (up, failing or hung), the queries in the `pool`, and each `check`: `CheckBegin`
queues a SELECT, `DatabaseAnswer` serves a query that has a connection, the timers and
`RedisAnswer` settle the two probes, `Report` answers.  `DomainQuery` is a query of any handler.
`ApiProcess` composes the two: they share `Tick`, and `Restart` forgets both.

* `TypeOK`: types; a window never outlives its duration.
* `AdmissionsAreBounded`: in any 15 minutes of one process fewer than twice the points are
  admitted.  The plan's "5 per 15 minutes" (`auth.service.ts:41`) is true of fixed windows only.
* `RefusalIsEarned`: being refused does not prolong the window.
* `ServingIsTruthful`, `OutageIsExplained`: a 200 means the database was up during the check; a
  503 that it was not, or that the pool was full.  Neither depends on late answers.
* `EveryCheckIsReported`: every check is answered, however long its dependencies take.

Run `process`: one address, two points, a window of two ticks, two checks, a pool of one
connection with one place behind it, a timeout of one tick.  A pool of one makes a check wait
behind another; times are kept as ticks left, so time has no bound.  Requests need not come,
so deadlock is not checked.

Theorems (`ApiProcessProofs`): all but `EveryCheckIsReported`, for any number of addresses and
checks, any points, window, pool and timeout, from `LimiterAssumption` and `HealthAssumption`.  The two
components meet in `Tick` and `Restart` only, so each has an invariant of its own.

* `LimiterInv`: the attempts of the open window are those younger than it (`InWindow`), and the
  earlier ones still remembered are fewer than the points, for they come from a window that has
  lost its first attempt (`BetweenWindows`).  `AdmissionsAreBounded` says nothing of the window
  and is not inductive without this.
* `HealthInv`: the checks in the pool are those that wait for it, once each (`PoolInv`); the answers a
  check holds are grounded in what it saw (`Grounded`); a check under way has seen
  the present moment (`Sees`).

Fairness: time passes (strongly fair, since a database that goes up and down may keep a tick
from its moment), timers fire, a settled check is reported, and a database that stays up
answers.  Redis owes nothing.  A tick waits for a database that is up to answer the checks
that hold a connection: two seconds are long for a SELECT 1.


## 9. Not modelled

* **That the audit trail is complete.**  `AuditIsTruthful` says that sessions record nothing that did
  not happen.  The converse is documented: `group-06-identidade-organizacao-autorizacao.md:424-429` lists a
  successful login, logout and revocation, the creation, edit and deactivation of users, changes of
  role, and denied attempts across companies or branches; `:453` and `:457` ask for the
  rows of login, logout and a denied cross-company attempt.  The same document lets the insertion
  fail without failing the response (`:450`), so the statement would be "recorded unless the
  insertion failed".  For what `AuthService` and `UsersService` do (`AuditAndRespond` is their
  insertion) it comes down to that one call; the guards record no denied attempt at all
  (section 10).  Redaction is formatting.
* **`CompanyGuard`** refuses a body that names another company.  The schemas of all bodies
  drop `companyId`, so no state depends on it.  **The ownership guard** protects a
  test route only.
* **`cleanupExpired`, `findActiveById`, `snapshot.ts`**: nothing calls them.
* **`AdminResource.tsx`, `CustomerForm.tsx`**: one request of the kind `CustomerDetails`
  models.  `AdminResource` passes a new array to `useAuth` at each render, whose effect depends
  on it and asks again; how React repeats effects is not modelled.
* **The landing page and the redirection by role**: presentation.
* **Bootstrap, configuration, error filter, validation pipe, hashing, shared contracts**:
  straight-line code; the contracts are the input sets of the modules above.
* **Realtime gateway and operations routes**: placeholders with no state.
* **Tickets, work orders, dispatch, synchronization, evidence, location**: tables, whose
  references are in `Schema`, and documents.
* **Documentation checks and CI**: sequences of text searches and jobs.


## 10. Where the code and its words differ

Shown by runs:

* `sessions_older` (`session.repository.ts:149`): a login that overlaps a password, role or
  status change inserts its session after `revokeForUser` ran, and keeps it.  For a role or
  status change the guard reads the new record anyway (`AuthorityIsCurrent`); after a password
  change nothing else ends the session.
* `seed_reset` (`seed.ts:13`): "deletes all rows", but `TABLES_TO_CLEAR` deletes evidences
  before the events that name them, and events before sync receipts.  With such rows a reset
  is refused and deletes nothing.  The circular references leave no order that always works.
* `details_saved` (`group-07-clientes-enderecos.md:62`): after an address is stored,
  `event.currentTarget` is null, the handler throws, and the page shows an error and not the
  address.  `AdminResource.tsx:10` does the same.

Met while modelling, without a run:

* A user's change and the revocation are two statements (`users.service.ts:98`), and audit
  rows are not in the transaction of the domain (`group-06-identidade-organizacao-autorizacao.md:441`).
  `SurvivorsAreExplained` bounds what the first leaves behind.
* Refreshes whose updates land in the other order shorten the window (`auth.service.ts:146`).
* A rollback decides on a table it read outside its transaction, so a second one may run a
  down script again and delete nothing (`rollback.ts:88`).
* `company.guard.ts:13` and `branch.guard.ts:16` say that repositories answer FORBIDDEN for
  rows of another company; the services answer NOT_FOUND.
* `group-06-identidade-organizacao-autorizacao.md:392` and `:406`, and `group-07-clientes-enderecos.md:34`,
  want 401 and 403 to clear local data and lead to the login page.  `apiFetch` does so for a 401 only
  (`session.ts:10`); after a 403 the page stays (`Receive` in `CustomerDetails`), and no property
  here says that it should.
* A login with wrong credentials is a 401 too, so the page reloads and its message is lost
  (`group-06:375`).  `useAuth` redirects on any failure of `/auth/me` (`group-06:325` says 401).
* `group-06:429` and `:453` want an audit row `auth.denied` after an attempt across companies or
  branches.  Neither the guards nor the services that refuse one write it; only a failed login is
  recorded.
* `schema.ts:462` gives the current dispatch ON DELETE SET NULL over `company_id`, which is NOT
  NULL: the deletion fails instead (`DATABASE_MAP.md:204`).
* `technician.ts:8` speaks of one active technician per user; the unique index, which is all that
  keeps it, counts the deleted ones too.


## 11. Running

    tlc -workers 2 -config MCSessionsCore.cfg MCSessions
    tlapm SessionsProofs.tla

The larger runs (`seed`, `registry`, `customers_page`) take one to four minutes
each with two workers.

The definitions whose comment starts with "Mutant:" are not used by any specification.  Each is
what a plausible mistake in the code would make of the definition after it; replacing that
definition's body by it must violate the property `PROJECT.json` names ("mutants").
