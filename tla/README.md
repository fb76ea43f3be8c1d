# A TLA+ model of the LogiKhata backend

LogiKhata is an Express + Prisma + PostgreSQL backend for small traders: customers
with running balances, purchases and invoices, payments and their reversal,
deliveries, users and sessions. These modules model the parts of it whose
correctness depends on the order of things: money that several services write,
transactions that run at once, deliveries that are assigned without a lock,
refresh tokens presented twice, permissions read in three statements, retried
requests, lists read while they change, and processes that stop. Paths below are
relative to the repository (`src/modules/...` is the code); every definition that
models code is listed with its lines in `PROJECT.json` under `map`.

## 1. The system

Every API process handles requests concurrently; all durable state is in one
PostgreSQL database, so that requests interact only through its rows. Redis
carries domain events to a worker that only logs them.

| Component | State | Operations | What is hard | What makes it correct |
|---|---|---|---|---|
| Customer accounts (`customers`, `purchases`, `payments`) | Customer.currentBalance, Invoice, Payment, PaymentAllocation, CustomerLedgerEntry | createCustomer, updateCustomer, createPurchase, createPayment, reversePayment | five services keep five tables consistent over long sequences | balance = opening balance + dues; dues = totals - confirmed allocations; ledger runs; every document posted once; history immutable; credit limit |
| Transactions (`shared/database`) | PostgreSQL snapshots and row locks | retrySerializable around the three money services | stale snapshots, deadlocks, aborts, bounded retries | implements the atomic services; oldest due first at commit; every request answered |
| Reports (`reports`, `dashboard`) | read accounts | getDueAging, getReportSummary, the due of getDashboardSummary | several queries without a transaction, cached columns of three tables | buckets add up to the balance; sales less collections is the due; the dashboard shows the same due |
| Lists (eleven, in eight services) | read one table page by page | listCustomers, listUsers, ..., getSmsHistory | rows come, leave and move between two pages; order with ties; a count from a second snapshot | a walk misses only what the order and departures excuse |
| Deliveries (`deliveries`) | Delivery, DeliveryStatusHistory, Driver, Vehicle | createDelivery, updateDeliveryStatus, driver and vehicle updates, the delivery of createPurchase | READ COMMITTED, check-then-write, optimistic version from the client | legal status history, assigned deliveries name both resources, nothing overwritten, no double booking |
| Sessions (`auth`, part of `users`) | RefreshSession, User.status | login, rotateRefreshToken, logout, updateUserStatus | one token presented by several clients, rotation racing revocation | a family is one chain with one live session; dead families stay dead; reuse revokes |
| Users and permissions (`users`, `shared/auth`) | User.role and status, RolePermission, UserPermissionOverride | createUser, updateUser, updateUserStatus, replaceUserPermissionOverrides, requirePermission, the seed run again | three reads make one decision; replacements at READ COMMITTED; a role is rewritten in two statements | nobody is let in with a permission they never had; overrides mix only when replacements overlap; nobody locks everybody out alone |
| Idempotency (`shared/middleware`) | IdempotencyKey | middleware around every critical write | crash between two writes, unawaited writes, expiry, retries | implements a once-only request: one handler at a time, faithful replay, repetition after an error only |
| Server, events, worker (`server.ts`, `shared/queue`, `workers`) | processes, Redis connection, BullMQ jobs | publishDomainEvent, shutdown, the worker's job and shutdown | Redis is away at the start, or comes and goes between commit and answer; crash, restart, signals; websockets that stay open, clients that hang up | events of committed writes only; graceful exits cut nobody who waits; shutdown ends; committed writes are answered, and handled if the queue works |
| Settings, audit log, PDFs, gateways | - | single-row writes, reads, formatting | - | not modelled, see section 8 |

How they meet: `createPurchase` also inserts the delivery of the sale (an action of
`Delivery`); `updateUserStatus` revokes sessions (in `AuthSessions`) after it has
written the status (in `Users`); the idempotency middleware wraps purchase,
payment, reversal and delivery writes and knows of a handler only whether it
committed and what it answered (`Handle` in `Idempotency`); between that commit
and that answer the event is published (`Publish`, `LoseEvent` in `Server`). The
tables of the areas are disjoint except for the reads `createDelivery` makes of
customer, purchase and invoice, none of which changes after it was read in a way
the delivery depends on, and the user's row, of which `AuthSessions` keeps the
status and `Users` the role and the status.

## 2. Modules

* `CustomerAccount` - the abstract specification of an account: each service is
  one atomic step on `customers`, `invoices`, `payments` and `ledger`. Rows are
  numbered in creation order. An allocation plan is a function from invoices to
  amounts; `CreatePayment` accepts any valid plan, as the service does with the
  client's.
* `AccountTransactions` - the three money services as the database runs them. A
  slot is a request being served. `Begin` takes the snapshot; `LockPayment`,
  `LockCustomer` and `LockInvoice` are the `SELECT .. FOR UPDATE` statements, each
  enabled when the row is free and not changed since the snapshot; the checks sit
  where the code makes them; `Commit...` writes what the code computes *from the
  snapshot*. `Abort` is any failure the database may report, followed by a retry
  while attempts are left or by an answer. `UpdateCustomer` runs outside and makes
  the row stale. It instantiates `CustomerAccount` as `CA`, with the tables as they
  are, and `ImplementsAccount` (`CA!Spec`) is the refinement.
* `Reports` - the reports as readers beside the account services: the aging report
  reads the customers, then their invoices (a Prisma `include` is a second query),
  the summary makes its three aggregates in any order, and a service may commit in
  between.
* `Lists` - a client walks one of the lists page by page while rows of the table
  are inserted, leave or enter its filter, or move in its order. The eleven lists
  are eleven values of `list`: what each is sorted by, whether the order is total,
  what an update may change, and whether the count uses the filter. `ReadItems`
  returns any page that ORDER BY allows; `ReadCount` is the second statement.
* `Delivery` - requests as one step per statement at READ COMMITTED: read and
  transition check, driver check, vehicle check, conflict check, write. Two slots
  interleave at every statement.
* `AuthSessions` - login in two steps around the password check; a rotation as
  its snapshot and its end, where the update fails when the row was changed in
  between; logout and status changes revoke row by row. `DetectReuse` changes
  nothing: the code's revocation is undone by the exception it throws.
* `Users` - `Authenticate` reads the role, `ReadRolePermissions` and
  `ReadOverrides` the rest, in either order as `Promise.all` has them;
  `RequirePermission` decides. The handlers follow with the role the request
  carries. A replacement takes its snapshot, locks the rows in it, deletes those
  that are still there, and inserts: `LockedByOthers` and `KeyTaken` are what
  PostgreSQL makes it wait for and refuse. The seed is four steps and may stop
  between any two. `held` and `moved` are history for the properties only.
* `OnceOnly` - the promise to clients: a request takes effect at most once per
  lifetime of its key unless the client was told of an error, and a repetition
  hears the first answer or that nothing was done.
* `Idempotency` - one key. A request is one step per statement; the completing
  update and the deletion are left in `late` and run, in any order, or never. A
  handler may commit or not and answer ok, a refusal or an error, and an error may
  follow a commit. `Crash` drops everything in memory. The refinement mapping
  (`Once`) takes committed handlers for effects and answers sent for what was
  heard; record, phases and unawaited statements have no counterpart.
* `Server` - a write request from its commit to its answer, the connection to
  Redis, the job of the event, the worker, and both processes' ways to end.
  `HangUp` is a client that closes its connection while its handler runs: `gone` has
  those requests, and `httpServer.close` (`NoConnection`) no longer waits for them.
  `connection` is the client as ioredis keeps it, which connects again and again;
  `queue` is the promise of the queue's first connection, which BullMQ makes once:
  `Connect` resolves it, `FirstConnectFails` rejects it for the life of the process.
  The worker has the same (`StartWorker`): started while Redis is away it is "stuck",
  alive and without its loop. Since the queue's constructor has connected the client,
  the status is never "wait" where `publishDomainEvent` and the readiness check ask
  for it, so that neither has a step for that. Of BullMQ, ioredis and PostgreSQL the
  module has only what the code relies on, which `map` marks external.
* `*_proofs` - theorems (section 6). `MC...` - bounds, inputs and symmetry for TLC.
  `MCAccess` and `MCReports` explore two independent modules in one state graph:
  `part` says which, so that a behavior is one of either, with the other at rest.

Operators marked `mutant:` are deliberately wrong variants of the definition that
follows them, one plausible bug each, used by no specification: replacing the
definition by its variant must make TLC report the property that `PROJECT.json`
pairs with it, which shows that the property can fail.

Conventions: a request the code refuses has no effect and is a guard that is
false, or an explicit `Refuse`/`Fail` where a request occupies a slot; 0 is null;
money is in the smallest unit; one shop, since every query filters by `shopId`.

## 3. What is checked

Passing runs (states are distinct states):

| Run | Instance | Shows |
|---|---|---|
| `account` (490 969) | 2 customers, 2 invoices, 2 payments, amounts 0-2 | `BalanceExplained`, `PaidByAllocations`, `InvoicesSettled`, `LedgerRunsToBalance`, `EveryDocumentPostedOnce`, `HistoryKept`, `CreditLimitHeld` |
| `account_transactions` (322 997) | 2 requests at once, 2 attempts, 2 customers, 2 invoices, allocations that name the other's invoices in the opposite order | `ImplementsAccount`, `OldestDueFirst`, `InvoicesContendedByForeignOnly`, `RequestsAnswered`, deadlocks included |
| `reports` (1 587 715) | 1 customer, 2 invoices on days 1 or 62, 2 payments, 1 commit while a report is made, report on days at every bucket boundary; or a list of 3 rows with 2 dates or names, pages of 1 or 2, 2 writes during the walk | `AgingAddsUp`, `SummaryBalances`, `DuesAgree`, `WalkMisses` |
| `delivery` (725 968) | 2 requests at once on 1 delivery, 1 sale, all versions up to the current | `HistoryIsLegalLife`, `AssignedHasBoth`, `UpdatesSeeTheRow` |
| `delivery_serial` (909 984) | 1 request at a time, 2 deliveries, times 1, 3, 4 with a window of 2 | `NoDoubleBooking` |
| `auth_sessions` (1 313 002) | 2 requests at once: 1 user, 3 sessions; or 2 users, 2 replacements of the second's overrides, 1 more run of the seed | `FamilyIsChain`, `SignedOutStaysOut`, `AdmittedHeldPermission`, `OverridesOfConcurrent`, `LastActiveOvertaken` |
| `idempotency` (346 082) | 3 requests, 2 bodies | `HandlersExclude`, `RepeatedOnlyAfterError`, `ReplaysAreFaithful`, `ImplementsOnceOnly` |
| `server` (206 713) | 2 writes whose clients may hang up, any number of stops, crashes and restarts of both processes and of outages of Redis | `EventsOfCommitted`, `GracefulExitServesWhoWaits`, `ShutdownEnds`, `CommittedAnswered`, `EventsHandled` |

Some of them say exactly how far the code holds, where a simpler statement fails:

* `AdmittedHeldPermission` - role, role permissions and overrides are three reads.
  One change among them is harmless; with two, a request may be let in with a
  permission that its user had at no moment (a role taken away while an override
  is replaced). "Always held it at some moment" is false, and TLC shows how.
* `OverridesOfConcurrent` - two replacements that overlap may leave the union of
  both; two that do not never do.
* `LastActiveOvertaken` - `SELF_DEACTIVATION_NOT_ALLOWED` keeps one active user only
  while requests come one at a time: two users who disable each other leave none.
* `WalkMisses` - each row that leaves a list moves the ones behind it to an earlier
  page; rows that the order leaves tied may be shown twice or never. New rows, and
  the count taken after the page, cause repetitions at most.
* `GracefulExitServesWhoWaits`, `ShutdownEnds` - the graceful path never ends while a
  websocket is open, since only the callback of `httpServer.close` closes Socket.IO;
  then the timer ends the process, and what it cuts was cut by code 1. "Exit 0 cuts
  no request" is false: `close` waits for connections and not for handlers, so that
  the handler of a client that hung up is cut in its transaction, or between commit
  and publication. No request whose client is still there is.
* `EventsHandled` - is about writes that a process with a working queue goes on to
  publish. Their events are lost only when the process ends first, or when the queue
  is closed beneath the handler of a client that hung up; an outage of Redis delays
  them. A process whose first connection was rejected loses every event until it is
  restarted, and a worker started in an outage handles none: "the worker's loop runs
  in the end" is a hypothesis.
* `CreditLimitHeld` - is about steps that raise a balance. `updateCustomer` may lower
  the limit below it, and an opening balance may lie above it.
* `SignedOutStaysOut` - is about families without a live session. A logout that names
  a token which a rotation has replaced meanwhile revokes what is dead already, and
  the successor lives on.

Runs that end in a violation, each a disagreement between code and documentation
recorded in `PROJECT.json` under `findings`:

* `auth_reuse` - `rotateRefreshToken` answers "the session family was revoked" and
  the exception that carries the answer rolls the revocation back.
* `idempotency_retry` - a request that commits and then fails (the read-back after
  the commit, for example) is answered 500, its key is deleted and the retry is
  executed again.
* `delivery_double_booking` - with two requests at once the conflict check of
  `assertResourcesAvailable` does not hold; afterwards each delivery blocks every
  transition of the other. `delivery_serial` shows that concurrency is the cause.
* `delivery_version_ahead` - `input.version` guards the write, `current` the
  transition, and nothing compares the two: with a client that sends a version
  one ahead (`Ahead = 1`) an illegal transition is committed. With `Ahead = 0`,
  the run `delivery`, clients send versions they have seen and all is well.

## 4. Bounds and why they are enough

Two customers, invoices and payments are what the properties tell apart: a
payment over two invoices, an initial payment with a later one, a reversal between
two payments, an allocation on somebody else's invoice. Amounts 0, 1 and 2 give
nothing, part and all of a due, and credit limits below, at and above a balance.
Two concurrent requests suffice for every race in the code, since each conflict
is between two transactions; a third request appears only as the retry. The
retry bound is 2 where the code has 3 attempts: an attempt starts from nothing
but its counter. In `Delivery` and `AuthSessions` rows only ever relate in pairs
(two deliveries near each other, a session and its successor), and a third session
gives a chain of two replacements or a second family. In `Reports` one commit
between two queries already makes them disagree; `AgingAddsUp` says how far: with a
purchase or reversal in between the buckets exceed the total shown, they never fall
short of it. In `Lists` three rows give a full page, a partial one and a tie across
the boundary of two pages, and two writes one departure between each pair of
statements. In `Users` two users are an owner and another who may be given any
role, the smallest number at which a lock-out needs two actors; two replacements
are two that overlap or do not; bodies allow, deny or drop the one key that is
asked for, or set another key. `Idempotency` needs a first request, its retry and a
third that meets what both left. In `Server` the two writes meet at the connection
and at shutdown, and nothing else is bounded.

`MaxCustomers`, `MaxInvoices`, `MaxPayments`, `MaxSales`, `MaxDeliveries`,
`MaxSessions`, `MaxUsers`, `MaxReplacements`, `MaxSeeds`, `MaxRequests`, `MaxRows`,
`MaxWrites` and `MaxMeanwhile` bound rows, requests, committed replacements, runs of
the seed and writes beside a reader; `Overridden` names the users whose overrides
are replaced, `Inputs` the bodies; `Values` and `Limits` are the dates or names and
the page sizes of a list; `HasRoom` keeps clients of `AccountTransactions` from
filling the tables. None of them is in the code. The proofs do without them.

Deadlock checking is off in `account` (the tables are full), `idempotency` (all
requests are sent and answered) and `auth_sessions` (the tables of either part are
full); everywhere else TLC found none.

Assumptions about things outside the repository: Prisma's batch transactions and
plain statements run at READ COMMITTED, with a snapshot per statement; `updateMany`
and `deleteMany` re-check rows they waited for; two rows of a list have different
`createdAt` unless one transaction made both; BullMQ adds a job id once and runs a
stalled job once more before it fails it; ioredis keeps commands until it is
connected; BullMQ's Queue and Worker call `connect()` on a lazy client in their
constructors and keep that one promise, which ioredis rejects when the first attempt
fails, although it goes on trying.

## 5. Fairness

`AccountTransactions` assumes weak fairness of `Step(r)` for each request under way:
Node keeps running the promise, PostgreSQL answers each statement, and after 15 s
(`SERIALIZABLE_TRANSACTION_OPTIONS`) the transaction is aborted, which is why a wait
for a lock cannot last: `Abort` is always possible for an open transaction, and a
deadlock is broken by it. Nothing is assumed about clients.

`Server` assumes weak fairness of `Process(r)` (the event loop runs what can run),
`Work(r)` (the worker takes, finishes and recovers jobs while it and Redis are
up), `Connect` (ioredis tries for ever, as no `retryStrategy` limits it) and
`TimeOut` (the 15 s timer). Nothing is assumed of Redis, of clients, their
connections and websockets, of signals, or of whoever restarts a process:
`CommittedAnswered` and `EventsHandled` have "Redis stays up in the end" and "the
worker's loop runs in the end" as hypotheses, which TLC's behaviors satisfy or not. The graceful path has no
fairness: `ShutdownEnds` holds by the timer alone.

The other specifications have safety properties only.

## 6. What is proved

All theorems hold for all values of the constants (any number of customers,
requests, sessions, users, rows, writes, ...), under the named assumptions of the
modules: bounds and amounts are natural numbers, there is room for a user
(`BoundsAssumption`), and a page has one row at least, as the schemas of the lists
demand (`ListsAssumption`). Every safety property that a passing run checks is
stated by one of them.

| Module | Theorems | Property |
|---|---|---|
| `CustomerAccount_proofs` | `TypeCorrect`, `InvoicesStaySettled`, `LedgerStaysRunning`, `HistoryStaysWritten`, `CreditLimitStaysHeld`, `BalanceStaysExplained`, `PaidStaysAllocated`, `DocumentsStayPosted` | `TypeOK`, `InvoicesSettled`, `LedgerRunsToBalance`, `HistoryKept`, `CreditLimitHeld`, `BalanceExplained`, `PaidByAllocations`, `EveryDocumentPostedOnce` |
| `AccountTransactions_proofs` | `TypeCorrect`, `AccountImplemented`, `ContendedByForeignOnly`, `OldestDuesFirst`, `BooksStayRight` | `TypeOK`, `ImplementsAccount`, `InvoicesContendedByForeignOnly`, `OldestDueFirst`; the properties of `CustomerAccount` |
| `MCReports_proofs` | `DuesStayEqual`, `SummaryStaysBalanced`, `AgingStaysAddedUp`; `WalkStaysComplete` | `DuesAgree`, `SummaryBalances`, `AgingAddsUp`; `WalkMisses` |
| `Idempotency_proofs` | `TypeCorrect`, `OneHandler`, `RepetitionNeedsError`, `FaithfulReplays`, `MiddlewareIsOnceOnly` | `TypeOK`, `HandlersExclude`, `RepeatedOnlyAfterError`, `ReplaysAreFaithful`, `ImplementsOnceOnly` |
| `Delivery_proofs` | `TypeCorrect`, `AssignedNamesBoth`, `NothingOverwritten`, `LivesAreLegal`, `SerialBooking` | `TypeOK`, `AssignedHasBoth`, `UpdatesSeeTheRow`, `HistoryIsLegalLife`, `NoDoubleBooking` |
| `Users_proofs` | `TypeCorrect`, `AdmittedHeld`, `MixedOnlyIfConcurrent`, `LastOnlyOvertaken` | `TypeOK`, `AdmittedHeldPermission`, `OverridesOfConcurrent`, `LastActiveOvertaken` of `Users` |
| `MCAccess_proofs` | `TypeCorrect`, `FamiliesAreChains`, `SignedOutIsFinal` of `AuthSessions`; `AccessSessions`, `AccessTypeCorrect`, `AccessAdmittedHeld`, `AccessMixedOnlyIfConcurrent`, `AccessLastOnlyOvertaken` of both as the run has them | `TypeOK`, `FamilyIsChain`, `SignedOutStaysOut`, `UsersTypeOK`, `AdmittedHeldPermission`, `OverridesOfConcurrent`, `LastActiveOvertaken` |
| `Server_proofs` | `TypeCorrect`, `EventsAreOfCommitted`, `GracefulExitIsClean` | `TypeOK`, `EventsOfCommitted`, `GracefulExitServesWhoWaits` |

`NothingOverwritten` and `LivesAreLegal` assume `Ahead = 0`: clients send versions they
have seen. With `Ahead = 1` both are false, which is the run `delivery_version_ahead`.
`SerialBooking` assumes that there is one slot at most: requests come one at a time.
With two it is false, which is the run `delivery_double_booking`.

The arguments:

* `CustomerAccount`. `TypeOK` is not inductive alone: a step indexes one table by an
  id stored in another. `TypeInv` adds `RowsRefer`: the ledger has one sequence per
  customer and payments refer to customers that exist. `InvoicesSettled` is not
  inductive either: on an invoice with a total of 0, nothing paid would be UNPAID
  and fully paid at once, so that `SettledInv` adds that totals are positive, which
  the check on the net amount in createPurchase ensures. `SettleSound` is its core:
  paying at most the due, or giving any amount back, keeps an invoice settled.
  `LedgerRunsToBalance` is inductive with `TypeInv`: each service appends one or two
  entries that start from the balance column, which the previous entry shows; the
  lemma `PostingRuns` says that once for all services. The two action properties
  follow from `TypeInv` by cases on the step. The other three need `DocumentsRefer`:
  documents refer to customers that exist, and a payment allocates its amount to
  invoices of its payer.
  - `BalanceExplained` and `PaidByAllocations` compare a column with a sum over a
    table. Without induction over data, the laws of sums are proved from a smallest
    counterexample: among the subsets of a finite set for which the law fails there is
    a smallest one, and taking an element out of it gives a smaller one (`SumRemove`,
    `SumPointwise`, `SumAgree`, `SumWithin`). A plan of allocations then moves what is
    owed by its sum (`PlanMovesOwed`), as a new invoice does by its due
    (`InvoiceMovesOwed`), and the postings move the balance by the same amount
    (`BalanceMoves`); `OneMorePaid` does it for one payment and one invoice.
  - `EveryDocumentPostedOnce`: a new document is posted by the entry of its own step
    (`NewlyPosted`), an older one neither gains nor loses an entry (`OthersStayPosted`);
    `OnePostingPosts` serves payments and reversals, which write one entry each.
* `AccountTransactions`. The step simulation onto `CustomerAccount`. What makes an
  interleaved commit one step of the account is `Grown`: since its snapshot, rows that
  a transaction has not been marked to have missed are as they were, none has changed
  its customer, and a customer that is not written has got no invoice. A locked row is
  never missed (`Sees`) and two transactions never hold one row (`LocksExclude`), so
  that at its commit a transaction computes from rows of the snapshot that equal the
  tables (`CommitFacts`). `Looping` says how far the loop over the invoices is: what is
  planned is locked and is of the invoices the request names, an automatic plan never
  exceeds a due, a reversal plans what the payment allocated. `OldestFirstSoFar` carries
  `OldestDueFirst` through that loop. `Room` counts the rows that the requests under way
  will create, so that the bounds of the tables are respected. That the tables the
  commits leave are in order is not proved again: it is `CustomerAccount_proofs`,
  instantiated, for the steps the simulation yields. In the same way `BooksStayRight`
  carries the properties of the account back: what was shown of services that run one
  at a time holds of the transactions that run at once.
* `Reports`. Every step of the specification is one of `CustomerAccount` or leaves its
  tables alone (`BehaviorOfTables`), so that its invariants can be used.
  - `DuesAgree`: `LedgerRunsToBalance` has no balance below 0, and balances of 0 add
    nothing (`DuesOfBalances`).
  - `SummaryBalances`: the totals are sums over three tables, which are turned into
    sums over customers and over allocations. `SumSwap` exchanges the order of a double
    sum, `SumGrouped` adds up a table by the customers its rows belong to. With
    `BalanceExplained`, `InvoicesSettled` and `PaidByAllocations` the books balance at
    any moment (`BooksBalance`); `ReadStillTrue`, that what a report has read is still
    so while nothing was committed, brings that moment to the answer.
  - `AgingAddsUp`: the buckets partition the unpaid invoices by age (`BucketSums`), and
    what is unallocated goes to the youngest, so that they add up to the greater of the
    balance shown and what is owed on invoices (`AgingOfCustomer`). Equality needs
    `DuesBelowBalances`: as long as only payments came in between, what is owed now is
    not above the balance that was read. It holds at the query by `BalanceExplained`,
    as no opening balance is negative, and payments only lower it (`PaymentsLower`).
* `Lists`. What is still to be shown (`Pending`: in the list from the beginning, not
  shown, not moved, not tied) has a place each, the number of rows before it, and no
  two share one once a page was read (`PendingOrdered`). `FewPassed` is the invariant:
  of these rows no more than rows have left are at a place the walk has gone past. A
  write brings a row forward by one place at most, and only if it takes a row out of
  its place, so at most one row slips past (`OneSlips`, `WritePasses`). A page brings
  the walk past no row that it does not show (`BehindThePage`: what ORDER BY, skip and
  take put in front of a row are rows before it). The last page reaches the total that
  was counted (`PagesCover`), so that whatever is pending then has been passed.
* `Idempotency`. `IInv` adds five facts to the types. `PhasesFit` and `LateFits` say
  what a request's fields and the statements it left running tell of it; `RecordFits`
  that the record belongs to a request with its body, and is completed only with the
  answer that one was given. The two that carry the argument: `HandlersHold`, whoever
  is in the handler owns the record, and it is not expired; `CommittedHold`, whoever
  committed in this lifetime still owns it, or was answered with an error. A second
  handler would have to own the one record too, and a second commit meets the first
  one's record unless that was deleted after an error. The refinement then maps each
  action, under `IInv`, to a step of `OnceOnly` or to a stutter.
* `AuthSessions` (in `MCAccess_proofs`). `FamilyIsChain` follows from `Chain`, which is inductive by parts:
  `Rooted` (a family is named by its first session), `OneLive`, `Forward` (a replaced
  session is revoked and its successor is of its family), `Backward` (every session
  but the first has exactly one predecessor). `Backward` needs `OneLive`: a rotation
  replaces the only session without a successor that a second one could replace too.
  A type invariant alone needs `RotationsRefer`, the token of a rotation under way.
* `Delivery`. An update remembers the row it read. `RequestsFit` types that memory;
  `NothingOverwritten` adds that a row's version counts its history, so that equal
  versions mean that nothing was written since the read; `LivesAreLegal` rests on it.
  `SerialBooking` rests on `SerialInv`: what the conflict check of the one request under
  way has found is still so, since the one delivery that may be written in between,
  that of a sale, names neither driver nor vehicle; that a new row conflicts with no
  other is then that no other conflicts with it, as the window is symmetric
  (`ApartSymmetric`).
* `Users`. `ReplacementInv`: a row that a replacement under way could see when it
  took its snapshot is among those it will delete (`SeenIsTaken`), so that what
  survives it was committed after its snapshot. `AdmissionInv`: `Fits` says, for a
  request between its reads, that whatever it has read of a table that has not
  changed for its user is what the table says now; with one table changed, the other
  two parts and the values before or after the change make the decision one that was
  right at some moment. `TypeInv` adds to the types that whoever was let in is still a
  row of the table and a replacement is about one, which needs both invariants. From it
  `LastActiveOvertaken`: nobody can change their own status, so an actor who is active
  when the request is carried out stays so (`ActorActive`), and no other step makes
  anybody inactive (`StatusesStep`). `MCAccess_proofs` carries all of it over to the
  specification that the run checks.
* `Server`. A request publishes only after its commit (`EventsInv`); once the callback
  of `close` runs, nothing is received and what is in flight is of clients that hung
  up, which stay away (`NothingLeft`); only the callback ends with code 0
  (`OnlyExitEnds`).

Only model-checked: the liveness properties, `RequestsAnswered`, `ShutdownEnds`,
`CommittedAnswered` and `EventsHandled`, which rest on fairness and are out of the
prover's reach; and the four properties that the code does not have.

## 7. What is left

Purchase totals: line rounding, discounts and the net amount as operators checked
against a reference over bounded items.

## 8. Not modelled

Company settings, drivers' and customers' profile fields are single-row writes
without an invariant across rows. Invoice PDFs, receipts, the sales and payment
reports by day, the CSV export and the other figures of the dashboard only read.
SMS gateways and the backup trigger are calls with an audit row. Audit rows are
appended and read by nothing but the SMS history. Validation schemas bound the
inputs that the modules enumerate; passwords, token signatures, cookies, routing,
Socket.IO rooms (nothing is sent to them), logging and rate limits are left out. Money
is unbounded here: `Decimal(18,2)` rejects a larger value with an error, which is a
failed request. VOIDED purchases and invoices and deleted rows exist in the schema,
but no code creates them. The seed's second shop and its shop rows are left out.

Known behavior that no property is about, because nothing in the repository says
what should happen:

* `updateUser` lets an owner take the role from the last owner, themselves included
  (`user.service.ts:70`; `UpdateUser` has it), and `actorRole` is the role at the
  start of the request, before the password is hashed (`user.service.ts:63`).
* The delivery of a sale can be created for its purchase and once more for its
  invoice: each column is unique, their combination is not (`schema.prisma:472`).
* The worker waits for Redis when it is stopped (`domain-events.worker.ts:36`) and has
  no timer as the server has (`ExitWorker`); an event with an unknown name is
  completed (`domain-events.worker.ts:16`).
* A server started while Redis is away publishes nothing until it is restarted, and
  answers as usual (`domain-events.ts:21`, one log line per event); readiness says
  "ready" again once Redis is back (`health.controller.ts:27`). A worker started then
  stays alive and idle (`domain-events.worker.ts:4`). The checks for the status "wait"
  were written for this and never apply (`domain-events.ts:17`).
* The graceful path does not wait for the handler of a client that hung up
  (`server.ts:51`): its write may be committed without its event.
* A port in use ends the server through the graceful path, with exit code 0
  (`server.ts:37`).
* The total of the SMS history ignores the filter of its rows, and its status filter
  is not applied (`sms.service.ts:96`, `:107`; `countsAll` in `Lists`): clients are told
  of pages that are empty. Its settings live in one process (`sms.service.ts:7`).
* The end of a report's period is the first instant of the day it names
  (`report.service.ts:84`).
