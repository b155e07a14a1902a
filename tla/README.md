# Formal models of ecom-backend-nestjs

TLA+ modules that model the parts of this service whose correctness depends on
more than one line of code: the commands on its tables and the queries of them,
the `@Transactional` decorator they run in, the migrations at start-up, the map of
data sources and the consumer of a queue.
TLC checks them on small instances; TLAPS proves the most important properties
for every size of instance. Paths below are relative to the repository, which
is mounted as `src/` (so `src/src/main.ts` is `src/main.ts` of the service).

## 1. The system

One process is a NestJS application on Node's event loop. Requests run
concurrently: they interleave at every `await`, never in between. Each HTTP
request carries a tenant; each tenant has a PostgreSQL schema, a TypeORM data
source and, in it, a pool of (by default ten) connections. Several replicas of
the process run against the same databases.

A request goes: middleware (tenant context) → controller → a request-scoped
service whose methods are decorated with `@Transactional` → DAO → SQL. The
decorator takes the tenant's data source from `DatasourceManager`, leases a
connection, sets `search_path`, opens a transaction with PostgreSQL's default
isolation (READ COMMITTED), runs the method body, and commits or rolls back.

| Component | State it keeps | Operations | Talks to | What is hard |
|---|---|---|---|---|
| Address commands (`address/command`) | table `address`: rows with `user_id`, `is_default` | add, update, setDefault, delete | Transactions, DB; users by foreign key | "one default per user" is kept by several statements and by no constraint |
| Product commands (`product/command`) | table `product` | create, put, patch, delete, activate, deactivate, adjust stock | Transactions, DB; categories by foreign key | read–then–write over concurrent writers; stock without a lower bound; cascade from categories |
| Category commands (`category/command`) | table `category`, unique name | create, update, delete | products by `ON DELETE CASCADE` | the delete takes products with it while they are being changed |
| Carts and cart items (`cart`, `cart-item`) | tables `cart` (unique user), `cart_items` (unique cart, product) | create/delete cart; add, update, delete item | users, products by foreign key | check-then-insert; cascades |
| Favourites (`favourites`) | table `favourites` (unique user, product) | add, remove, remove by user and product | users, products | check-then-insert |
| Users (`user`) | table `user`, unique e-mail | create, update, delete | everything by cascade | uniqueness of name and phone is only checked |
| Query services (`*/query`, `user/querry`) | none | SELECTs | DB | several statements, each with a snapshot of its own |
| Customs (`customs`) | none | findAll, findOne with joined and nested transactions, event | Transactions, SNS | event after commit; two connections per request |
| Transactions (`shared/transaction`) | the entity manager of the open transaction, in the `AsyncLocalStorage` of `transaction-context.ts`, so one per asynchronous call chain | REQUIRED, REQUIRES_NEW | DatasourceManager, pool | nesting, failure of each step, connections lost, pool exhausted by nesting |
| Data sources (`shared/database`) | map tenant → data source | getDataSource, getDataSources | providers of tenant configuration | fill of the map across an `await` |
| Migrations and bootstrap (`shared/database/migrations`, `main.ts`) | `migrations` table and advisory lock of each schema | runMigrations… | DB, other replicas | replicas in parallel, crashes, sessions that outlive processes, rolling releases |
| Tenant context (`shared/kernel/tenant`) | the request's country | middleware | – | – |
| Circuit client (`shared/http`, `clients`) | that of the opossum library | get, post | downstream HTTP | in the library, not in this code |
| Messaging (`shared/sqs`, `shared/sns`, `events`, `examples`) | queue (external) | publish, listen | Transactions | at-least-once delivery; an event may get out although `publish()` fails |
| Health endpoints (`actuator`) | none | health, readiness, liveness | DatasourceManager | data sources opened by every check |
| Logging, filters, configuration, stubs | – | – | – | – |

What makes each correct:

* Address commands: a user with addresses has exactly one default; the default
  is not deleted; nobody else's rows are touched; an "ok" means what it says.
* Catalog: the stock is what the adjustments since the last absolute write add up
  to; no product without its category; the stock answered is one the
  transaction saw.
* Transactions: 200 means durable; a joined method shares its caller's fate; an
  event tells of committed work only, and a 200 means that it is out; every
  connection goes back to the pool exactly once.
* Users, carts, items, favourites: nothing outlives what it belongs to; a unique key
  decides races between requests that look before they insert; a deletion that
  succeeds took everything below it; a creation or update that succeeds is stored.
* Query services: the parts of one answer, and the pages of one listing, disagree
  only about rows that were changed while they were read.
* Messaging: a message is deleted only after it was handled, and is handled in the
  end; connections go back to the pool.
* Data sources: a request is served by an open pool of its own tenant; the
  number of pools is bounded.
* Migrations: each runs once per schema; who serves has migrated; no start waits
  for ever.

## 2. Modules

| Module | Models | State | Extends / instantiates |
|---|---|---|---|
| `ReadCommitted` | what the services rely on in PostgreSQL (external): row versions, row locks, snapshots of a statement, COMMIT, ROLLBACK, waiting cycles | committed version, lock holder and uncommitted version of each row | – |
| `AddressCommand` | `AddressCommandService` and its DAO, the removal of a user | an address table, the users, and per request slot the next statement and the locals of the method | `ReadCommitted` |
| `AddressBook` | abstract specification: what the address commands promise | a set of addresses and of defaults for each user | – |
| `Transactional` | `transactional-method.decorator.ts`, the pool, the service methods of `customs` and the one-method shape of all domain services | per frame (one run of the decorator) its position, connection, open writes; replies, commits, events sent and accepted | – |
| `AtomicMethods` | abstract specification: the methods of a request, each committed in one step, to who knows nothing of frames and connections | requests being served, replies, what is committed, events | – |
| `MigrationService` | `main.ts` and `migration.service.ts` in several replicas | per replica position, schema, session; advisory locks; the `migrations` tables | – |
| `DatasourceManager` | `datasource.manager.ts`, `getDataSource` | the map, the data sources, per request the locals | – |
| `Catalog` | `ProductCommandService`, `CategoryCommandService`, their DAOs, the foreign key between them | two tables, per request the statement, body, entity found | two instances of `ReadCommitted` |
| `CatalogBook` | abstract specification: the catalog of a client that knows nothing of transactions; `Promised` are the steps the API describes, `Departure` the two for which it has a 409 and which the code takes | the products and the categories as they were committed | – |
| `CustomerCommand` | the command services of users, carts, cart items and favourites, their DAOs, the foreign and unique keys between their tables, the deletion of a product | one set of rows for all tables, per request the statement, the row it is about, what is left to check or to delete | `ReadCommitted` |
| `CustomerBook` | abstract specification: tables in which a row comes, changes or goes, with all that hangs from it, in one step | the rows | – |
| `QueryServices` | all 17 methods of the query services and their DAOs | a table, the parts of the answer read so far, what changed since, the client's walk through pages | – |
| `SampleConsumer` | `SampleSqsConsumer.onMessage` and the options of its container; queue (external) | the queue, acknowledgements not sent, per call position, message and connection | extends `DatasourceManager` |
| `AddressSerial_proofs` | theorems about `AddressCommand` for requests that do not overlap | – | `AddressCommand_proofs` |
| `SampleConsumer_proofs` | theorems about `DatasourceManager` and about `SampleConsumer`, which extends it | – | `SampleConsumer`, TLAPS |
| other `…_proofs` | the theorems about the module in the name | – | the module, TLAPS |
| `MC…` | the small instances for TLC | – | the module |

`map` in `PROJECT.json` gives the source lines behind every definition.

### How the state and the actions correspond to the code

* *One action per statement.* A method body runs on the event loop without being
  interrupted up to its next `await`, and every `await` of a command is one SQL
  statement. So the label `pc[t]` is the next statement of request `t`, and an
  action is that statement with the code up to the next one: the checks on its
  result, the early returns and the `throw`s. `Start` is the arrival of a
  request up to its open transaction (`setupQueryRunner`, detailed in
  `Transactional`); `Commit` and `Rollback` end it with the answer.
* *Statements that are not atomic in PostgreSQL are not atomic here.* The
  multi-row `UPDATE` of `unsetDefaultAddress` takes a snapshot (`Unset`), visits
  the rows in any order, waiting for each (`UnsetRow`), and re-evaluates its
  condition on the version it finds. An `INSERT` or `UPDATE` that sets a foreign
  key first writes and locks its row, then waits for the category (`Reference`).
  `ON DELETE CASCADE` scans (`EraseCategory`), then waits for every row of the
  scan (`Cascade`). What gets past these points is exactly what the row locks
  and `FOR KEY SHARE` let past.
* *`CustomerCommand`.* The eleven commands of four services are one machine: those
  that create look, insert and have their foreign keys checked (`Look`, `Insert`,
  `Reference`); the others find the row and then update and read it back (`Write`,
  `Reread`) or delete it with all that cascades (`Erase`, `Sweep`). Which rows a
  lookup is about (`Twins`, and for users the same name), which keys are checked
  (`Parents`) and which errors become a 409, a 404 or a 500 is what distinguishes
  the services. `Insert` waits for a request that has written a row with the same
  unique key, as PostgreSQL's index does.
* *`QueryServices`.* Each method is the sequence of its statements (`Body`), each
  statement an action that reads one snapshot; `CommitElsewhere` is the commit of
  any command in between. A client of a listing asks for page after page. A query
  that sorts leaves equal rows in any order, differently each time. TypeORM may
  do without COUNT after a page that is not full; both are explored.
* *`SampleConsumer`.* A call of `onMessage` is a request of `DatasourceManager`, with
  that module's actions inside its own; `RestartConsumer` is its `Restart`.
* *Publishing.* `Send` is the call of `publish()`. From then on SNS (external) may accept
  the event (`Accept`) at any time or never, also after its sender has given up or
  died. `PublishResolves` needs the acceptance; `PublishRejects` may come before
  or after it. So a request may have its event out and its client told of an
  error, or of nothing; committed work may also have no event.
* *Failures.* A connection may be lost at every statement (`ConnectionLost`,
  `Abort`), a COMMIT may take effect although its answer is lost (`Abort`,
  `CommitFails`, `StatementFails`), a cycle of waiting requests is broken
  (`DeadlockAbort`; in `Catalog` `Abort`, which may always happen, includes it).
  In `Transactional` each of connect, `SET search_path` and `BEGIN` may fail;
  they stand before the `try` whose `finally` releases the connection, so a
  failure of the last two puts the connection into `leaked`. Processes crash in
  `Transactional`, `MigrationService`, `DatasourceManager` and `SampleConsumer`, whose
  queue also delivers a message again whenever its visibility timeout passes.
* *Data.* An address is its `is_default` flag and its existence; a product is
  `category_id`, `stock` and `is_active` (name, price and the other columns are
  assigned by patch as `is_active` is, and always present in a put); a category is
  its existence. The constant `Put` is the columns that puts come with. A put
  without `is_active` would write back the value it read before its `UPDATE`
  (`product.command.service.ts:131`); `Assigned` does so.
  Whether the name of a category is taken (23505) is left open: both outcomes are
  explored; in `CustomerCommand`, whose unique keys matter, it is not. In
  `Transactional` the data are tokens, one per method: its writes took effect.
* *Ids* are UUIDs, so an id of a deleted row is never used again: rows are
  "unborn", live, or deleted for good. The number of rows bounds the number of
  creations. The only counters that are capped are the commits during one walk
  (`MaxCommits`) and the failures of the consumer's surroundings (`MaxFailures`).
* *`MigrationService`.* The action of each `await` of `runMigrationsOnDatabase`.
  Reading the `migrations` table and running what is pending are two steps
  (`LoadExecuted`, `RunMigrations`), since TypeORM reads before its transaction
  begins; the advisory lock is what protects the gap. `ReleaseAdvisoryLock`
  runs in the `finally` block whether the lock was taken or not. The session of
  a dead replica (`orphans`) keeps its lock until the server notices (`Reap`).

## 3. Runs

All runs together take some ten minutes with two workers.

| Run | Instance | What it shows |
|---|---|---|
| `AddressOverlap` | 1 user, 3 rows, 2 requests, all commands but delete, `Overlap` | `SomeDefault`: a user with addresses has a default, `SetDefaultTakesEffect`: an "ok" of setDefaultAddress is true, `EveryCommandAnswered` through lock waits and deadlocks, `AddressInv`: the invariant of the proof, types included |
| `AddressSerial` | 2 users, 3 rows, 2 requests, all commands, requests about one user do not overlap | refinement of `AddressBook`, `AtMostOneDefault`, `DefaultNotDeleted`, `OwnBookOnly` |
| `AddressTwoDefaults` | as `AddressOverlap`, with delete | **violation**: two defaults |
| `TransactionalPool` | 2 requests of the three shapes, 3 connections, set-up may fail | durability, nesting, events, connections, no pool deadlock with a spare connection, every request answered, `FrameInv`, refinement of `AtomicMethods` |
| `TransactionalPoolFull` | 2 requests, 2 connections, set-up does not fail | **violation**: `REQUIRES_NEW` waits for ever |
| `MigrationSafety` | 2 replicas with releases {m1} and {m1, m2}, 2 schemas, 3 sessions | each migration once, who serves has migrated what it did not skip, every start ends, `MigrationInv` |
| `MigrationSkipped` | same, 1 schema | **violation**: a replica serves an unmigrated schema |
| `Messaging` | 2 tenants, 2 messages, 2 calls at a time, 4 data sources of 2 connections, 1 failure | `ServedByOwnTenant`: own tenant, open data source; `PoolsBounded`; `DeletedOnlyIfQueried`: no message lost; `ConnectionsReleased`; `Handled`: every message that names its tenant is handled and deleted |
| `CatalogSafety` | 1 product, 2 categories, 2 requests, stock −1..2, all ten commands, puts with all columns | no orphans, no lost update, the stock answered is the stock committed, `CatalogInv`, refinement of `CatalogBook`, departures included |
| `CatalogCascade` | same | **violation**: a category with products is deleted |
| `CustomerSafety` | 2 users with one e-mail, 1 product, 2 carts, 1 item, 2 favourites, 2 requests, all eleven commands and the deletion of a product | `NoOrphanRows`, `UniqueKeys`, `RemovedWithAll`: a deletion took everything with it, `StoredAsSent`: a creation or update that succeeds is stored, `CustomerInv`, refinement of `CustomerBook` |
| `Queries` | 3 rows of 2 owners, values 1..3, pages of 1 or 2, 2 commits meanwhile, all 17 operations | `ExplainedByCommits`: parts of an answer disagree only about changed rows, `WalkComplete`: a walk through the pages misses no row that was there while others only came, `TypeOK`: and asks for no page too many |

Every property of a passing run has a mutant in `PROJECT.json`: a plausible bug
in one definition with which the run fails.

### The bounds

* *Requests.* Two slots, each reused without limit, so any number of requests
  follow each other and any two overlap. Two transactions already make every
  conflict between a pair of statements. What needs three – a chain of waiting
  requests – adds no new conflict on a row, since a row has one lock holder;
  the proofs hold for any number. In `TransactionalPool` a request has up to two
  frames.
* *Rows.* Three addresses: one that is the default, one that becomes it and one
  that is added; a multi-row `UPDATE` then visits up to three, and a deadlock needs
  two. One product suffices in `CatalogSafety` since no command touches two products
  but the cascade, whose rows are independent; the same run with two products (2.5
  million states) was checked as well. Two categories, so that products move.
* *Stock* −1..2 with entered stock 1 and adjustments ±1: both ends of the range
  are reached, hence the out-of-range error too, and a stock below zero.
* *Puts* have all columns: `specs/product.command.yaml:344-349` requires `is_active`,
  and the `ValidationPipe` of `main.ts:27` refuses a body that does not conform to
  the class generated from it. Without that, `NoLostUpdate` fails: a mutant that
  lets puts without `is_active` in is found. `Catalog` itself allows both.
* *Releases.* The second replica runs one migration more, as in a rolling
  deployment. Three sessions for two replicas: a dead one's session lives on
  while its successor starts; a server that admits no further session also
  happens. Two schemas exercise the loop.
* *Customers.* Twins of each kind of key: two users with one e-mail, two carts and
  two favourites of one user and product. Items have one row only, as they follow
  the same rule as favourites; the one there is may lose both its parents, cart and
  product, to different requests, and hangs two levels below the user.
* *Queries.* Three rows in pages of one make a walk of three pages; two commits
  put changes before the second and before the third page, or between the first and
  the last of three statements. Two owners, so that what belongs to another must be
  left out. Value 3 doubles as `is_default`.
* *Messaging.* Two calls fill the map concurrently, at most one data source each
  and tenant: four. One failure is one connection less than a pool has; with two
  a pool whose connections are all lost makes every message wait for ever, which
  is a consequence of the hazard at `sqs-listener.sample.ts:62`.
* *Symmetry* is used in safety runs only: pools and slots, products and
  categories, which no definition distinguishes.

### Fairness

Safety is checked without fairness. The liveness properties assume

* `AddressOverlap`, `TransactionalPool`: strong fairness of `Advance` per request or
  frame. The event loop runs each callback that is ready, PostgreSQL queues the
  waiters of a row and its deadlock detector runs after a fixed time, and the
  pool serves its waiters first come first served, so that a step that keeps
  becoming possible is taken. Weak fairness would not express the queues. No
  client need send a request, no failure need happen. A `publish()` is assumed to
  settle in the end, as the SNS client gives up after its retries; whether SNS
  accepts the event is left open.
* `MigrationSafety`: weak fairness of `Progress` per replica: the steps of the
  bootstrap that wait for nothing. It includes no crash, no `Reap`, and no
  failing statement but the server's refusal of a session, which otherwise would
  have to be waited for.
* `Messaging`: weak fairness of the steps of each call (promises that are settled are
  continued), of the batch of acknowledgements, which is sent after a second at
  the latest, and of the visibility timeout; strong fairness of receiving each
  message, since one that stays in the queue is delivered some time although it may
  be in flight in between. Failures, restarts and missing data need not happen.
* `TransactionalPoolFull` (a temporal counterexample) is found under the same
  fairness: both frames wait for a connection, and none of their steps is
  possible any more.

### Where the code and its words disagree

1. `AddressTwoDefaults`. `address.command.service.ts:56` "If setting as default,
   unset any existing default": two overlapping requests each unset what they see
   and each set their own. Nothing in the table prevents it. `AddressSerial` shows
   that overlap is what it takes. `address.command.service.ts:247` "Prevent deleting
   default address" fails by the same cause: it is decided on a row that is not
   locked. With deletes and overlap `DefaultNotDeleted`, `SomeDefault` and
   `SetDefaultTakesEffect` fail too; therefore `AddressOverlap` and the theorems about
   overlapping requests leave deletes out.
2. `TransactionalPoolFull`. `docs/transaction.md:53` "Always create a new
   transaction": with as many such requests as connections (ten by default) none
   is ever created. `NoPoolDeadlock` states the exact condition under which it
   is: more connections than requests in flight.
3. `MigrationSkipped`. `README.md:83` "Migrations are run automatically on
   bootstrap for all tenant schemas": by some replica, perhaps later.
4. `CatalogCascade`. The 409 "Cannot delete category with associated products"
   (`category.command.service.ts:173`) waits for an error that `ON DELETE CASCADE`
   never raises.

More have no run of their own:

* `specs/product.command.yaml:237-238` answers an adjustment 409 "Insufficient stock";
  `adjustProductStock` checks nothing, and the stock goes below zero. In
  `CatalogBook` this is `Oversell`, apart from what is promised. In the same way
  `DeleteWithProducts` is point 4.
* `docs/transaction.md:63` "If innerMethod fails, outer transaction can still commit":
  only if the caller catches the error. `findOneInTransaction`, the one caller of a
  `REQUIRES_NEW` method, does not (`query.service.ts:100`), so its transaction is
  rolled back, and `Commit` of `AtomicMethods` requires the inner method's.
* `specs/product.command.yaml:143` has a 409 for the deletion of a product, "cannot be
  deleted due to dependencies" (line 280); what depends on a product goes with it
  (`ON DELETE CASCADE`), and `deleteProduct` has no such answer.
* `docs/multi-tenancy.md:511` describes one cached data source per tenant,
  `PoolsBounded` is what holds.
* Migrations take their schemas from `databases.connections`, requests theirs from
  `database.databases.<key>`.

## 4. Proofs

`tlapm` proves the following for every value of the constants that meets the
`ASSUME`s of the modules (types of the parameters, null values that are not
members; TLC evaluates them in every run).

| Module | Theorems | Further assumption |
|---|---|---|
| `AddressCommand_proofs` | `TypeCorrect`; `Invariance`, `SomeDefaultHolds`, `SetDefaultHolds` | the last three: `"delete" \notin Ops` |
| `AddressSerial_proofs` | `SerialInvariance`, `ImplementsAddressBookHolds`, `AtMostOneDefaultHolds`, `DefaultNotDeletedHolds`, `OwnBookOnlyHolds` | `Overlap = FALSE` |
| `Transactional_proofs` | `TypeCorrect`, `Invariance`, `ConnectionsHold`, `OkHolds`, `JoinedHolds`, `PublishedHolds`, `ImplementsAtomicMethodsHolds`, `NoPoolDeadlockHolds` | the last: finitely many requests |
| `MigrationService_proofs` | `TypeCorrect`, `Invariance`, `AppliedOnceHolds`, `ServesHolds` | – |
| `Catalog_proofs` | `TypeCorrect`, `Invariance`, `NoOrphansHolds`, `NoLostUpdateHolds`, `StockAnsweredHolds`, `ImplementsCatalogBookHolds` | `NoLostUpdateHolds`: puts have all columns (`Put \subseteq {Columns}`) |
| `CustomerCommand_proofs` | `TypeCorrect`, `Invariance`, `NoOrphanRowsHolds`, `UniqueKeysHolds`, `RemovedWithAllHolds`, `StoredAsSentHolds`, `ImplementsCustomerBookHolds` | – |
| `SampleConsumer_proofs` | of `DatasourceManager`: `Invariance`, `TypeCorrect`, `ServedByOwnTenantHolds`, `PoolsBoundedHolds`; of the consumer: `DeletedOnlyIfQueriedHolds`, `ConsumerImplements`, `ConsumerServedByOwnTenant`, `ConnectionsReleasedHolds`, `ConsumerTypeCorrect` | `PoolsBoundedHolds`: finitely many requests |
| `QueryServices_proofs` | `TypeCorrect`, `WalkCompleteHolds`, `ExplainedByCommitsHolds` | a table is finite (`RowAssumption`) |

The modules of the commands, the decorator and the migrations state at their end an
inductive invariant as a conjunction of named parts (`AddressInv`, `FrameInv`,
`MigrationInv`, `CatalogInv`, `CustomerInv`); the same one is an invariant of a run.
The other invariants stand in the proof modules. The arguments:

* *Addresses.* A user's last default can go only with a request that has unset
  it. `UnsetThenSet`: such a request is on its way to set another, and at its
  commit holds it. `TargetLive` and `LockedRowsLive`: what it sets is there.
  `SomeDefault` is not inductive without them: it speaks of committed rows only,
  a commit installs uncommitted ones. A delete breaks `TargetLive`.
* *Addresses without overlap.* `SerialInv` says what every position of a request
  implies for the book of its user (`Phase`): which rows are uncommitted and what
  they will be. No other request touches that book (`Apart`), so each step changes
  the abstract book by its command, at the commit, or not at all.
* *Transactions.* `SuspendedForInner` ties the two frames of a request together;
  `WorkSoFar` says what has been written at each position, so that "ok" at the
  end implies that it was committed. `NoPoolDeadlock` is a counting argument: if
  no frame can proceed, every leased connection belongs to a suspended outer
  frame, so there are at most as many as requests.
  A COMMIT is one step of `AtomicMethods`: `OwnWritesOnly` (a frame has written for its
  own method and for the one that joined it, and nothing once it has ended) and
  `WorkSoFar` say exactly what it makes durable; `CommittedIsEnding` that it is the only
  one of its method. The end of a frame is an answer, or shows to nobody.
  `PublishedAfterCommit` rests on `WorkSoFar`: an event is sent when the decorated
  method has returned; its tokens and the event are forgotten together, when the
  slot is used again. It does not say how the request is answered.
* *Migrations.* `MigratorHoldsLock` and `SessionsApart` make at most one replica
  migrate a schema; hence `PendingNotRun`: what it found pending still is; hence
  a migration is run once. `MigratedSoFar` accumulates this over the loop.
  Two schemas may hash to one lock key (`generateLockKey` keeps 32 bits): the
  proof does not assume keys to be distinct.
* *Catalog.* `NoOrphans` rests on `ReferencesHeld` (past the foreign-key check
  the category cannot be deleted) and `CascadeComplete` (each product of a
  category being deleted is locked by the delete or still to be visited).
  `NoLostUpdate` rests on `DraftsAssigned`: an uncommitted version is the
  assignment applied to the *committed* row, which its lock keeps from changing;
  `ProductFound` is there for the value that a put without `is_active` writes back.
  `StockAnswered` rests on `AnswersReady`.
  A COMMIT is one step of `CatalogBook`: `ProductWriters` and `LockedCategories` say
  which rows a request has locked by the command it runs, so a COMMIT of any
  command but the deletion changes one row, by what the command was asked to do to
  the *committed* row. Which of the steps of the API, or which departure from them,
  this is depends on the sign of the stock and on whether the category is empty. `CascadeExact` says that the deletion of a category has locked
  no product but those in it, `CascadeComplete` that it has locked all of them.
* *Customers.* `NoOrphanRows` as `NoOrphans` in the catalog, down two levels of tables:
  `ReferencesHeld`, and `SweepComplete` (each row that hangs from one being deleted
  is locked by the delete or still to be visited). `UniqueKeys` rests on
  `InsertedAlone`: of the rows with the key of one that a request has inserted, none
  is committed and none is locked. `WorkDone` ties what is about to be
  committed to the answer. For `CustomerBook`, `SweepExact` is the converse of
  `SweepComplete`: what a deletion has locked is a target of it or hangs from a row it
  has locked. There are three levels of tables and, by `UniqueKeys`, one target, so
  what a deletion has locked at its COMMIT is what hangs from that target then.
* *Data sources.* A data source that is not in the map yet belongs to one request;
  each request opens at most one while its tenant has none in the map, and those
  opened are told apart by their requests: `PoolsBounded` counts them.
* *Consumer.* Every step of the consumer is a step of `DatasourceManager` or leaves
  its variables alone (`ConsumerImplements`), hence its theorems. `ConnectionsReleased`
  and the type invariant need each other: `Return` gives back what `Connect` took.
* *Query services.* For `WalkComplete`, a row that is in the result throughout moves
  only towards the end of it while others only come; so each row of the walk was
  met, or lies at or behind the position where the next page begins, and the last
  page ends behind all of them. That it is met once needs that nothing changes.
  For `ExplainedByCommits`, a part of the answer that was read differs from what the
  table says now only by rows in `changed`; counts and totals are sums over the
  finite table, of which lemmas say that equal summands make equal sums. Those are
  proved by induction on finite sets, in the form of a well-founded minimum
  (`WFMin`), since the library's induction theorems take an operator.

Every safety property that a passing run checks, the four refinements included, is
thereby proved, under the assumptions of the table. Checked by TLC only: liveness
(`EveryCommandAnswered`, `EveryRequestAnswered`, `BootstrapEnds`,
`Handled`), which rests on fairness and so on ENABLED, beyond TLAPS's reach. No
module has a RECURSIVE operator.

## 5. What is left out

### Abstractions within the modules

* `RemoveUser` of `AddressCommand` removes a user and the addresses that cascade from
  it in one step (`CustomerCommand` has the cascade row by row); it cannot happen
  while the rows or the user are locked.
* `Rename` of `Catalog` always excludes references to its row, which PostgreSQL does
  when the name is in the `SET` list.
* Answers are reduced to the kind of result and the parts that properties speak of.
  So activate and deactivate, which answer the flag they read before their
  `UPDATE`, are modelled without that part of their answer.
* In `CustomerCommand` an update sends a new content; name and phone number of a
  user are one column. The price of an item, a constant in the code, is left out.
* `listCategories` answers `total_pages` as `total / limit` with the number of rows for
  both (`category.query.service.ts:51-53`): 1, or NaN for an empty table. That part
  of its answer is left out of `QueryServices`; no page depends on it.
* In `QueryServices` one column stands for all that a query filters or sorts by,
  and the joined product of an item or favourite is left out, as are the columns
  that an answer only copies.
* SNS accepts an event at most once in `Transactional`: what a retry of the client
  library sends twice is not told apart.
* `Fail` of `DatasourceManager` takes the pool of a failed `initialize()` to be gone.

### Not modelled

* *Circuit client.* The repository's code is a straight line around
  `circuit.fire()`. The states, time-outs and late answers are those of the opossum
  library; its model would have no line of this repository behind it.
* *Health endpoints*, `getDataSources`. Sequential probes on data sources that no
  other request sees. That they are never destroyed is listed as a hazard.
* *Tenant context, configuration providers.* Parsing of headers, files and
  environment. The models take a tenant with or without configuration as input.
* *Logging, filters, telemetry, configuration, controllers, mappers, stubs and
  demonstrations*: no state.
* *Table migrations* as data definition; their constraints are in the models.

## 6. Plan

Done, in this order: address commands with their abstract specification, the
decorator and its pool, migrations, data sources, catalog; then the commands of
customers, the query services, the consumer; then the theorems about each of them, and
the refinements of the four abstract specifications for any number of users, rows
and requests.

What could follow:

1. `Transactional` composed with the statements of one of the services, in place of
   the tokens.
2. Liveness of `CustomerCommand`: the end of lock waits, as in `AddressOverlap`.
3. The promise of the migrations as an abstract specification of its own.
