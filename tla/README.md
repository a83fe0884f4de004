# RouteVPN: a formal model

RouteVPN sells VPN peers. Resellers hold a prepaid balance in BDT; a purchase
debits it, allocates an address of a WireGuard (AmneziaWG) subnet, inserts a row
in PostgreSQL and puts the peer on a network interface with `awg set`. An hourly
worker takes expired peers off. Administrators top balances up, edit packages
and remove peers. Everybody logs in for a signed token; the first administrator
is inserted by the program when it starts. This directory models those parts in
TLA+, checks them with TLC on small instances, and proves with TLAPS, for any
number of everything, every safety property that TLC checks: the money, the
rows, the addresses and their allocation, the interface, the accounts, the pages
of statistics, the paginated lists, and both refinements.

Paths below are relative to `src/`.

## 1. The system

| Component | Code | State | Operations | Interacts with |
|---|---|---|---|---|
| Database | `internal/database/migrations.go`, `postgres.go` | `users`, `packages`, `vpn_peers`, `transactions`; PostgreSQL's row locks and open transactions; the pool of 25 connections | SQL | everybody |
| Peer purchase | `internal/services/peer.go` | local variables of `CreatePeer` | `CreatePeer`, `allocateIP`, `incIP` | database, interface |
| Interface | `internal/wg/wg.go` | peers and allowed addresses in the kernel | `AddPeer`, `RemovePeer` | purchase, removal, worker |
| Top-ups | `api/handlers.go` (`AdminAddBalance`), `internal/handlers/admin.go` (`AddBalance`) | local variables | add to the balance, record a credit | database |
| Packages | the same two files | - | create, update, delete; the web form checks less than the API | database |
| Peer removal | `api/handlers.go` (`AdminRemovePeer`) | - | read, remove, mark: no transaction | database, interface |
| Expiry worker | `internal/worker/expiry.go` | a ticker, a `done` channel, the list it is working on | `Start`, `Stop`, `run` | database, interface |
| Process | `cmd/server/main.go` | - | start, serve, drain, stop, crash | all of the above |
| Statistics, lists | `api/handlers.go`, `internal/handlers/*.go` | - | reads | database |
| Start-up | `cmd/server/main.go` up to `Listen`, `internal/config`, `internal/database/migrations.go`, `internal/services/auth.go` | the configuration a process loaded; the schema | load and validate, migrate, seed the first administrator, listen; any error ends the process | database, the process manager |
| Accounts | `api/handlers.go` (`AdminCreateReseller`), `internal/handlers/admin.go` (`CreateReseller`) | `users` | create a reseller | database, sessions |
| Sessions | `api/auth.go`, `api/middleware.go`, `internal/handlers/auth.go`, `internal/middleware/auth.go` | none on the server: JWTs and cookies held by clients | log in, log out, check a request | database, configuration |
| Valkey, keys, templates | `internal/database/valkey.go`, `internal/wg/config.go`, `templates/` | none that any handler uses | - | - |

Requests are goroutines over a shared database. There is no lock in the
program: what orders requests is the row lock of `SELECT ... FOR UPDATE`, the
UNIQUE index on `assigned_ip`, the foreign key of `package_id`, and the number of
connections. The interface is outside all of these.

**What is hard.**

- `CreatePeer` reads the price before the lock, the used addresses without one,
  writes the balance as an absolute value, and calls `awg` before `COMMIT`. A
  failure at any statement, a lost session, a `COMMIT` that fails or whose reply
  is lost, and a crash each leave something half done.
- The row of a peer and the interface are two pieces of state with no
  transaction around them, written by purchases, removals and the worker.
- A transaction holds a connection and a row lock while it waits for another's
  uncommitted address and for `awg`.
- The worker must find its peers again after failed statements, dropped ticks,
  crashes and restarts. Stopping waits for handlers and not for the worker.
- Amounts have any number of decimals and columns have two.
- A page of statistics, a walk over a list, and the total of a list next to its
  rows read several instants.
- Start-up counts administrators and then inserts one, and creates tables "if
  not exists"; a second process may be doing the same. Each of its steps can end
  the process, and the next start begins with what is there by then.
- A session is a signed token with its own dates. Nothing on the server knows of
  it, and the role and the id that it carries are never looked up again.

**What makes each part correct.**

- *Purchase*: every answer says what the tables say, a charge for each row and a
  row for each charge, distinct addresses, "no available IPs" only when it is so.
- *Top-ups*: the balance and the ledger move together; each top-up counts once.
- *Packages*: no row loses its package; a buyer pays the price it was quoted.
- *Worker and removal*: a paid peer is on the interface until it expires; an
  expired one is not; expired rows are marked in the end and never come back.
- *Process*: requests that got in are answered; a process told to stop ends.
- *Reads*: a page drops no peer and no money; a walk misses no row and repeats
  none without reason, and a page that the total says is not the last is full.
- *Start-up*: one administrator whatever starts at once; who serves has its tables
  and its administrator; in the end somebody serves.
- *Accounts and sessions*: whoever acts gave the password of an account of the
  right role not longer than a day ago; a session lasts its day through crashes
  and restarts; "created" means that the account is the one asked for.

`PROJECT.json` lists every hazard at its line with the properties that cover it.

## 2. The modules

```
              Store                      tables, locks, sessions, pool, interface
   ____________|_________________________________________
   |           |          |              |              |
PeerService  Billing  PeerAdmin    PackageAdmin    ExpiryWorker
   |___________|__________|______________|______________|
                          |
                       RouteVPN  ---- refines ---->  Reselling
                          |
                      Dashboard          IpAllocator, Listing: on their own

 Startup --- Accounts ---- refines ---->  Sessions
```

| Module | Models | How |
|---|---|---|
| `Store` | schema, pool, sessions, `wg.go` | `balance`, `credited`, `debited` are columns and sums over `transactions`; `uncommitted` and `rowLock` are what PostgreSQL keeps for open transactions; `conns` are connections held; `broken` sessions the server has ended unnoticed; `iface` maps a peer to the address routed to it |
| `PeerService` | `services.CreatePeer` and both its callers | one action per statement, per error return and per failure; `step` is the program counter, `tx` the local variables. `RollbackOrder` is `defer tx.Rollback()` |
| `Billing` | both top-up handlers | the same, and the rounding of `NUMERIC(12,2)` (`RoundToCents`) separately for the ledger and the balance |
| `PeerAdmin` | `AdminRemovePeer` | three actions, for its three calls |
| `PackageAdmin` | the six package handlers | `Acceptable` is what each of the two clients checks; `Stored` what the database makes of it; the foreign key is the guard of `DeletePackage` |
| `ExpiryWorker` | `expiry.go` | `Scan`, `RemoveExpired`, `MarkExpired`, and the two cases of `select`; `ticked` is the buffer of one of `ticker.C` |
| `RouteVPN` | `main.go` over all of these | `Accept` while serving; handlers run while serving or draining; `SignalStop`, `ShutdownReturns`, `Exit`, `Crash`, `Restart` |
| `Reselling` | the abstract specification | a purchase, a top-up and the end of a subscription as single steps |
| `Startup` | `main` from `Load` to `Listen`, by several processes | `main[p]` is where process p is; `env` counts the edits of `.env`; `cfg` what each process loaded; `Migrate`, `CommitTables` and `CollisionEnds` are the one implicit transaction of `RunMigrations`; `CountAdmins` and `SeedAdmin` are `EnsureDefaultAdmin`; `Fatal` is every other `log.Fatalf` |
| `Accounts` | logins, log-outs, `Me`, new resellers, both middlewares, over `Startup` | one action per arrival (parse, check token, check role, check fields) and per statement; `session[q]` is the login whose token a request carries; `token` and `until` are what the client of a login holds. A process has no state of its own to lose in a `Crash` but its requests |
| `Sessions` | the abstract specification of accounts | a table of sessions that the server does not keep |
| `Dashboard` | the statistics pages, the detail of a reseller | `Figures` is the order of the SELECTs, each read on its own |
| `IpAllocator` | `allocateIP`'s loop and `incIP` | byte by byte; `Number` is what an address stands for, `Contains` compares the bits of the prefix (`Pow2`) |
| `Listing` | `parsePagination`, `COUNT`, `LIMIT`, `OFFSET`, the web lists | `Ask` is the COUNT, `ReadPage` the SELECT and `ReadFails` its failure; `shown` is a history variable; `int` goes up to `MaxInt` (`Wrap`, `Atoi`); `Newest` is the order of the SELECT |

Some correspondences are worth knowing.

- A transaction's writes are in `tx`, `credit` and `uncommitted` until
  `Publish`, which is what `COMMIT` makes visible. Isolation is READ COMMITTED:
  each statement reads the tables as they are when it runs. A statement that
  waits for a lock is an action that is not enabled.
- The web form and the API call the same `CreatePeer`, so `ReceiveOrder`
  does not tell them apart. For top-ups and packages `via` does.
- An order stands for its row's id and for its public key: it makes at most one
  of each, at random, so a collision is not modelled.
- The error of `allocateIP`'s SELECT is ignored by the code, but it aborts the
  PostgreSQL transaction and the INSERT that follows fails: one failure of
  `StatementFails`.
- `AnswerTopUp` waits for a connection when the API reads the row back.
- The first start is a server with its migrations run, its administrators and
  resellers in place and no peers sold.
- `Accounts` is not composed with `RouteVPN`: they share the `users` table, but
  its balances and its accounts have no action in common, and neither deletes a
  row. What the orders take as given, a caller who is a reseller, is what
  `ImplementsSessions` is about.
- In `Startup` and `Accounts` the index of a row in `users` stands for its id, and
  a password for its bcrypt hash; more than 72 bytes are refused by bcrypt
  (`LongPasswords`).
- The clock of `Accounts` counts parts of a second, because `jwt.NumericDate` and
  cookies carry whole seconds and a login reads the clock for each.
- `CreatePeer` reads the clock once for the expiry date; `now` counts days, the
  unit of `duration_days`.

The operators called "Mutant of ..." are not part of the model. Each is the form
the definition after it would take with one plausible bug, and shows that the
property named in `PROJECT.json` notices it.

## 3. The runs

| Run | Instance | What it shows |
|---|---|---|
| `safety` | `PeerService`: 3 orders, 2 resellers, 2 addresses, 2 failures | books, distinct addresses, truthful answers; a conflict means that somebody got the address; exhaustion is real; `RowsInv`, their inductive form |
| `service` | `RouteVPN`: 2 orders, 1 removal, worker, 3 days, 2 failures among statement, commit, lost reply, awg add, stop, crash | `PaidPeerServed`, `ExpiredOffInterface`, `NoResurrection`, and `ServiceInv`, the inductive form of the first two, on which the third rests |
| `money` | 2 orders of 2 resellers, 2 top-ups for a reseller, an administrator or nobody, three connections, 1 failure of any database kind, crash or reboot | `BooksInv` (`BooksBalance` and what its proof needs), `TopUpsCountOnce`, `ChargedForWhatIsHeld`, refinement of `Reselling`; `NoCircularWait` and `PoolNeverStuck`, the safety side of `EveryRequestAnswered`, and `LocksInv`, their inductive form |
| `packages` | 2 orders, 2 package requests from both clients, prices that do not parse, round, overflow or are negative | `RowsHavePackages`, refinement: a buyer pays what it was quoted |
| `liveness` | 2 orders, 1 removal, worker, one connection, failed statements and removals, stops, crashes | `ExpiredEventuallyMarked`, `ShutdownEnds` |
| `answers` | 2 resellers, a top-up, a package delete, two connections, a lost session | `EveryRequestAnswered` |
| `dashboard` | a page of statistics or the detail of a reseller during purchases and the worker | `NoPeerDropped`, `NoMoneyDropped`, and `MoneyShownInv`, the inductive form of both |
| `allocator` | every subnet of a space of 16 addresses, every set of used ones | the lowest free address is found, and the loop ends; `AllocInv`, the inductive form of the first |
| `listing` | 4 rows, sizes around their bounds, pages around theirs and around the width of `int` | a walk over a growing list misses nothing, and is shown no more rows a second time than joined; a page before the last is full, although the total is of an earlier instant; `ListingInv`, the inductive form of the three |
| `accounts` | two processes on an empty database, with an `.env` that is wrong twice and then edited; and a deployment that serves 3 requests, with 1 failure | `SessionsInv` (the invariant the proofs use), `OneAdministrator`, `ServingMeansReady`, `CreatedMeansYours`, refinement of `Sessions`, `ValidFor24Hours`, `EventuallyServes` |

Two runs end in a counterexample, and each is a finding.

- `removal_fails`: `run()` marks a row expired although `wg.RemovePeer` failed.
  No later scan selects it, so the peer stays on the interface for good. That is
  why `service` is checked without the failure `awg_remove`.
- `late_add`: `CreatePeer` calls `wg.AddPeer` before `COMMIT`. If its session
  ended after the INSERT, its address is free again and another order is sold
  it; the late `AddPeer` then moves the address away from the peer that was paid
  for. That is why `service` is checked without the failure `session`.

### Bounds, and why they are enough

- Two orders meet in every pair of statements; the third in `safety` makes one
  lose the race for the last address, and makes a second order wait behind one
  that waits. `SubnetSize = 4` leaves two addresses, .2 and .3, so the subnet
  runs out.
- `MaxNumeric = 5`, with prices of 2 and balances of 4, makes refusals for want
  of money and overflows of the column both happen. Amounts typed are in
  thousandths (15 is 1.5 hundredths), so rounding happens.
- `PoolSize` is 1 where waiting for a connection is the question, 2 where one
  holder must not stop the other, and in `safety` as large as there are orders. In
  `money` it is 3 for four transactions: a top-up can wait for an order that waits
  for the address of another, and the fourth for a connection.
- `MaxFaults` of 1 or 2: one failure is in every place it can be, and two can be
  a failure and a crash, or a crash and a crash.
- `MaxTime = 2` with packages of one day: day 2 is the first on which
  `expiry_date < NOW()`. The clock stops there; the worker's timer does not.
- `Pages = {g1}`: pages only read, so two of them show what one can.
- Four rows and pages of one to three: a walk has up to five pages, and rows join
  before, on and behind each of them, several to a page.
- `MaxInt = 127` is the `int` of eight bits; with three rows a page, page 43 is the
  last whose offset fits, 44 wraps to a negative one, 87 to a positive one again.
- `accounts`: two processes meet in every pair of steps of start-up. A day is 3
  ticks and a second 2, so a login at an odd tick has its dates rounded down, and
  the clock runs on to where a token has expired. Requests are numbered as they
  arrive, which loses no order; three are two logins and what is done with one of
  them, or a login and two requests that race for one email. The deployment
  that serves has two of the three failures behind it, so one more can be a crash,
  a lost reply or a failed statement; the new one can have all three, each a start
  that fails or an INSERT whose reply is lost. Requests to a deployment that was
  new would meet the same states as those to one that serves.
- `AdminEmail`: `.env` keeps one `ADMIN_EMAIL` while the first administrator is
  being inserted. With two, two processes that start at once insert two.
- Orders, top-ups and edits are symmetric where the run has no liveness.

A deadlock is an error in the other runs, where `PSDone` marks the end of the
orders of `PeerService`. `CHECK_DEADLOCK FALSE` is used for the allocator and the
lists, which end when the loop or the walk does, and for `accounts`, where
everything stops once a process serves and the requests, the failures and the
clock are used up.

### Fairness

`EveryRequestAnswered`, `ExpiredEventuallyMarked` and `ShutdownEnds` assume weak
fairness of each request's handler, of the worker, of its timer, and of the
process's own steps. Handlers and worker are goroutines, which the runtime
schedules; a statement that is enabled gets its answer from PostgreSQL, and
`awg` returns. It is weak fairness of a whole handler, not of each statement, and
only of steps that are not failures: otherwise a deadlock could count on a lost
session to end it. A process that is down is started again: `docker-compose.yml` says
`restart: unless-stopped` for its services, and a unit under systemd does the
same; after a requested stop it is an operator who starts it. Nothing forces
the clock, a request, a failure or a signal. A transaction that waits for a row
lock is not assumed to be served before those that come later, and the number of
requests is finite; starvation by an endless stream of others is not examined.

`EventuallyServes` assumes that `main` runs on and that a process that has ended
is started again, which `restart: unless-stopped` does; not that `.env` is ever
right (the property asks for that), and no failure.

`SearchEnds` of the allocator assumes that the loop runs.

## 4. The proofs

| Module | Proves |
|---|---|
| `PeerServiceProofs` | the tables (what the end of a transaction and a lost session leave alone, `Rounding`), and of purchases: types, books, `OrderIsolated`, and under `PSSpec` `PeerServiceCorrect` (`RowsInv`, `BooksBalance`) and `PeerServiceTyped` (`PSTypeOK`) |
| `RouteVPNProofs` | top-ups, removals, edits, worker and process; `BooksInvariant`, `TypeCorrect`, `BooksAlwaysBalance` |
| `ServiceProofs` | `ServiceInvariant`, and from it `RowsAlwaysHavePackages`, `AddressesAlwaysDistinct`, `AnswersAlwaysTruthful`, `ConflictsAlwaysMeanProgress`, `ExhaustionAlwaysReal`, `PaidPeersServed`, `ExpiredPeersOff`, `NobodyResurrected`, and `ServerImplementsReselling`: the refinement of `Reselling`; `LocksInvariant`, `NobodyWaitsInACircle`, `PoolIsNeverStuck` |
| `MoneyProofs` | finite sums; `ChargedForWhatTheyHold`, `TopUpsAlwaysCountOnce` |
| `AccountsProofs` | `AccountsInvariant`, `OneAdministratorEver`, `CreatedStaysYours`, `SessionsInvariant`, `ServingAlwaysReady`, `SessionsLastADay`, and `AccountsImplementSessions`: the refinement of `Sessions` |
| `DashboardProofs` | `NoPeerEverDropped`, `MoneyShownInvariant`, `NoMoneyEverDropped` |
| `IpAllocatorProofs` | `SearchInvariant`, `LowestFreeAddress` |
| `ListingProofs` | `ListingInvariant`, `WalksMissNothing`, `PagesFullBeforeTheLast`, `RepeatsAreOfJoins` |

Each is for any numbers of users, packages, orders, top-ups, removals, edits,
processes, pages, connections, addresses, rows and failures, any sizes of pages
and of an address, and any width of `int`. Each safety theorem has
the same three steps: the initial states satisfy an inductive invariant, every
action keeps it, and it implies what is claimed. TLC checked each invariant on
the runs before it was proved.

### What is assumed

- The constants are of the right sorts and `None` is none of their values:
  `StoreAssumption`, `BillingAssumption`, `NoneIsNoCredit`,
  `PackageAdminAssumption`, `NoneIsNoQuote`, `AccountsAssumption`. TLC evaluates
  them on every run.
- `FinitelyManyRequests`: orders and top-ups are finite sets. Sums and counts of
  rows need it; a behaviour of any length has finitely many requests so far.
- `StartupAssumption`: one `ADMIN_EMAIL` while the first administrator is
  inserted, and a deployment that begins in the middle of its life has distinct
  emails and, unless it has no row at all, an administrator whose password
  bcrypt took, which is what `EnsureDefaultAdmin` leaves behind.
- `IpAllocatorAssumption`: a byte has at least two bits. One byte of one bit is a
  space of two addresses, where two steps from the network address lead back to
  it; the code has bytes of eight.
- `FewRows`: a table is finite and has fewer rows than `int` counts. Its ids are
  `BIGSERIAL`s, which are no wider than `int`, and no table of PostgreSQL comes
  near their number.
- No two rows of a list have the same `created_at` (rows are numbers in `Listing`).
  It is the start of the inserting transaction in microseconds, and nothing else is
  in the `ORDER BY`: PostgreSQL may return rows that share it in another order on
  each page, and a walk may then miss one of them.
- Six theorems have a hypothesis about failures or inputs, because the code does
  not keep the promise without it. `PaidPeersServed`: no session is lost
  unnoticed (`late_add` is the counterexample) and the host is not rebooted.
  `ExpiredPeersOff`: `awg` does remove what it is told to (`removal_fails`).
  `NoMoneyEverDropped`: nobody types a negative price (`NoNegativePrice`). The
  API refuses one and the web form does not; a purchase at a negative price
  between the two figures of a page raises the balance after it was read and
  lowers what has been spent, so the page shows less than was credited.
  `WalksMissNothing`, `PagesFullBeforeTheLast` and `RepeatsAreOfJoins`: the list is
  not `?status=active`. Rows leave that one when they expire, and those behind them
  move up to places that the walk has passed, or that the total still counts; and
  a row that joined and has left no longer explains the repetition it caused.

### The books

`BooksBalance` is not inductive. `CommitOrder` writes a balance computed four
statements earlier, so one needs to know that it is still right. Hence

    BooksInv == TypeInv /\ BooksBalance /\ DebitsHeld /\ CreditsHeld

where `DebitsHeld` says that an order past its UPDATE, whose session is alive,
holds the row lock of its owner, and that its new balance is the current one
less its price; `CreditsHeld` says the same of a top-up, and that it adds to the
balance what it adds to the ledger. The first holds because no other transaction
can publish a balance whose lock it does not hold (`OnlyTheHolderPublishes`), and
transactions leave each other's locks alone (`OrderIsolated`). The last rests on
`Rounding`: rounding `balance + amount` is the balance plus the rounded amount,
since the balance has two decimals and is not negative and the amount is
positive. `TypeInv` adds to `TypeOK` that the locals a step reads have been set
and that the worker and removals only name rows that exist.

`ChargedForWhatIsHeld` and `TopUpsCountOnce` are about sums over sets of requests,
and follow from `BooksInv` with facts about `MapThenSumSet`. That operator is
defined by recursion on sets, and induction cannot be cited here, so `SumsExist`
and its neighbours in `MoneyProofs` argue by a smallest counterexample instead
(`Smallest`, from `WellFoundedInduction`): of the sets on which the recursion has
no value, or two, one has none of the others inside, and the set without one of
its elements has exactly one value. From these, a sum over a set with one more element is the sum plus
that element's value (`SumAdd`), and a COMMIT adds the price of its order to both
sides. `TopUpsCountOnce` says that some set of top-ups with an unclear answer was
applied; that set is the witness its step hands on, grown by the top-up whose
COMMIT's reply is lost.

### Rows, addresses, answers

`DistinctAddresses` and the three properties of answers are not inductive: an
address that is free when it is picked may be taken when it is inserted.

    RowsInv == AnswersAreTruthful /\ DistinctAddresses /\ ConflictMeansProgress
               /\ ExhaustionIsReal /\ \A o : RowReady(o)

`RowReady` says that a row is visible only from its COMMIT on, that until then
what an order has inserted is exactly what its locals say, and only while its
session is alive. So the UNIQUE index, which looks at visible rows and waits for
those that are not (`AddressContended`), compares all that there is to compare.
Committed rows never leave the table, so what an answer said stays true.

### The interface

    ServiceInv == BooksInv /\ RowsInv /\ RowsHavePackages /\ WorkerIsLate
                  /\ ServedInv /\ OffInv

`ServedInv` adds to `PaidPeerServed` that an order between `wg.AddPeer` and its
COMMIT is on the interface at its address. By `RowsInv` no one else has that
address, and only an uncommitted order talks to `awg`, so nobody takes it away.
`OffInv` adds to `ExpiredOffInterface` that whoever is about to mark a row has
taken its peer off, and `WorkerIsLate` that the worker takes only rows whose date
has passed, which stays so because the clock does not go back and dates do not
change. `NobodyResurrected`, an action property, is proved alongside: each step
lemma also concludes that committed rows last (`Lasts`).

### Locks and connections

`WaitsFor(t, x)` says when a statement of `t` returns only at the end of `x`: `x` has
the lock of the row of `users` that `t` asks for, or has inserted the address that `t`
is inserting.

    LocksInv == conns = Open /\ \A u : a lock of u is held by a transaction whose
                session is alive and which has written u

is inductive with `BooksInv`. `LocksStep` lists what a step may do to its own
transaction: end it, begin it, lock and write one row more, lose its session, or
none of these; `OrderLocks` and `TopUpLocks` show that nothing else happens, and
`LocksFrame` that these keep the invariant. `NoCircularWait` needs `RowsInv` as well:
whoever has inserted an address and not committed waits for nobody
(`InsertersRun`), so whoever holds a row lock waits at most for such a one
(`HoldersWaitOnce`). An order locks its reseller before it inserts its address and
a top-up locks one row, so a chain of waits has at most two links.
`PoolNeverStuck` follows: from any holder of a connection, at most two links lead
to one that can go on. A DELETE of a package waits as well, for orders that have
inserted; nobody waits for it, so it is in no circle. What remains for liveness is
that those who can go on do.

### Reselling and sessions

`ServerImplementsReselling` shows that an initial state maps to one and that each
action maps to a step of `Reselling` or to a stutter: `BeginOrder` to the quote,
`Publish` to the purchase at the balance of that instant (by `DebitsHeld`), the
end of a failed order to the withdrawal of its quote, a top-up's COMMIT to its
credit, edits to edits, and the worker's and the administrator's UPDATE to the end
of a subscription.

For accounts, from `StartupAssumption` and `AccountsAssumption`:

    AccountsInv == AccountsTypeOK /\ RequestsReady /\ OneEmail /\ CreatedRowExists
    SessionsInv == AccountsInv /\ MainReady /\ \A q : TokenReady(q)

`OneAdministrator` alone is not inductive: the count that let a process go on to
`SeedAdmin` is stale. What stops the second INSERT is that the row there has the
email of every process's configuration, which is `OneEmail`. `CreatedMeansYours`
needs that the token a request was sent with is never replaced, and so that a
session is a login that has ended (`RequestsReady`). `OneRequest` is the lemma
behind every handler: a step that changes the variables of one request, keeps
the rows and leaves that request ready keeps the invariant. `MainReady` says what
a process past each call of `main` can count on. `TokenReady` says that a token
names a row that has its role, and how far from the login its dates and its
cookie's are, less the rounding of `WholeSeconds`. `AccountsImplementSessions` follows: rows are
never deleted and roles never change, so what a token says is what a look into
the table would say.

### Pages

The figures of a page are read one by one, so the invariant is about what each
figure is or would be if it were read now (`Counted`, `Told`):

    DashboardInv  == ServiceInv /\ ... /\ \A g : PageReady(g)
    MoneyShownInv == DashboardInv /\ PricesInv /\ ... /\ \A g : MoneyReady(g)

`PageReady`: the total that was read is at most the sum of the two counts, read
or still to be read. It lasts because peers go from active to expired and in no
other direction (`CountsGrow`), and the active ones are counted first.
`MoneyReady`: what the balance was, and what has been spent by now or by the time
it was read, cover the opening balance. It lasts because ledgers only grow
(`CreditsGrow`, `LedgersGrow`), which for debits takes `PricesInv`.
`MoneyShownInvariant` has no hypothesis: `MoneyShownInv` itself says what holds
only while no price is negative.

### The search for an address

`IncIP` works on bytes and `Contains` on bits; the claim is about numbers.
`NextAddress` says that `IncIP` adds one to `Number`, modulo the size of the
address space: below the byte that is incremented all bytes are `Radix - 1` and
become 0, above it none changes. `SubnetIsAnInterval` says that the addresses that
agree with `base` in the first `prefix` bits are those from its number up to
`Hosts` more. Then

    AllocInv == AnswerIsLowestFree /\ ... /\ (answer = "searching" => ...)

says that while the loop runs, either every candidate below `current` is used, or
`current` has left the subnet and every candidate is. The second is what the last
subnet of the address space needs, where `current` wraps to an address below its
base, and subnets of one or two addresses, which `current` has left before the
first look. `Pow2` and `Value` are recursive functions. That they have values
at all, and their recursion, is proved by the set of numbers up to which they do:
it has no least number missing (`LeastNumber`, `Upwards`, from the library's
well-foundedness of `<`).

### Lists

Everything follows the place of a row: the number of rows of its list from the
newest down to it (`Rank`). `NewestFirst` shows that the order of the SELECT
exists, since places are distinct and, by counting, all taken, and
`RowsStandAtTheirPlaces` that row n of any answer in that order is the one whose
place is n; so `PagesShow` says which places a page shows, and when it is full.

    ListingInv == ListingTypeOK /\ ("active" \notin Filters => WalkInv /\ RepeatsInv)

`WalkInv` says that the pages a walk has behind it were full, and that each row it
owes whose place is now on one of them has been shown. Inserts only move rows to
later places (`RowsJoin`), so a row that the walk has not passed is never moved to
a place that it has. A short page ends the walk and with it the list at that
instant. `FullBeforeTheLast` holds because the count is read first and the list
only grows after it, and because of `FewRows`: a page number that the total makes
possible has an offset that does not wrap (`WrapKeeps`). It says nothing of rows
that join behind the total: a client that stops at the total it was first told
may miss rows that moved to later pages, and one whose COUNT failed was told 0.

`RepeatsAreJoins` is not inductive, because a row that joins is repeated only when
the walk reads on. `RepeatsInv` counts what is to come as well: the repetitions so
far and the rows shown whose place is now ahead of the walk (`Ahead`) are no more
than the rows that joined. A row that joins moves at most one row across the edge
of what the walk has behind it, because places are distinct (`RepeatsJoin`). A page
that is read repeats rows that were ahead, and those are ahead no longer
(`RepeatsWalk`).

### What stays model-checked

- *Liveness* (`EveryRequestAnswered`, `ExpiredEventuallyMarked`, `ShutdownEnds`,
  `EventuallyServes`, `SearchEnds`): out of the prover's reach.

Every invariant and every action property of the passing runs, and both
refinements, are stated by a theorem. Of the refinements it is the safety part
that is proved and checked: neither abstract specification states fairness.

## 5. What is left out

- *Valkey*: opened and closed, never read or written. That it cannot be reached
  ends a start (`Fatal`).
- *Keys, client configurations, QR codes, templates, the health check*: no state.
- *Signatures*: a token is accepted if it was signed with the secret of the
  process that checks it; which algorithms the parsers accept is not modelled.
- *Users are never deleted and roles never change* in this code, so a token is
  never at odds with its row; `ImplementsSessions` would fail if that changed.
- *Two processes that serve one database* beyond start-up: `RouteVPN` has one.
- *Table locks*: `CREATE INDEX IF NOT EXISTS` locks its table before it looks, so
  a start can wait for, or deadlock with, orders of another process.
- *`WG_DRY_RUN`*: `awg` that always succeeds and does nothing.
- *Text search, indexes, idle connections of the pool.*
- *The connection that a waiting `DELETE` of a package holds*: `DeletePackage` is one
  action that is enabled when the `DELETE` returns. The orders it waits for have their
  connection already and wait for no `DELETE`, so it cannot close a circle; other
  requests may find the pool full for that long.
- *Rows of one `created_at`*, see "What is assumed".
- *A client that repeats a request* after an error: the API has no request ids, so a
  retried top-up whose first COMMIT lost only its reply is credited twice.
  `TopUpsCountOnce` is about each request, not about what its sender meant.
- *A child `awg` that outlives a process killed during the call*; the late call
  it makes is the one of `late_add`.
- *A server crash of PostgreSQL* beyond the end of all sessions.

Met while modelling, and visible in the modules, without a run of their own:

- After a reboot of the host the interface is empty and nothing puts active
  peers back (`Crash`, `reboot`); `PaidPeerServed` is therefore checked without
  reboots.
- The web form's top-up does not look at `RowsAffected`; for an administrator's
  id it books a credit that no balance holds (`CreditNobody`).
- The API accepts a price of 0.004, which the column stores as 0.00 (`Stored`).
- The offset of a list overflows `int` for page numbers near 2^63 divided by the
  page size (`Offset`): PostgreSQL refuses a negative one, and the answer is 500;
  a positive one gives rows of another page. No page that the list has is affected
  (`FullBeforeTheLast`).
- `API.md:633` says of the deletion of a package "Blocked if any active peers use
  it": expired rows block it as well, through the foreign key, with a 500
  (`DeletePackage`).
- The web form creates resellers with an empty email or password, which the login
  of the API then refuses before it looks (`ReceiveCreate`, `ReceiveLogin`).
- An `ADMIN_PASSWORD` of more than 72 bytes passes `Validate` and ends every start
  at bcrypt until it is edited (`SeedAdmin`).
- A failed SELECT is answered as a wrong password by the logins, and as "not
  found" by `Me` and `AdminGetReseller`; a lost connection during an INSERT as a
  400 by the forms that create resellers.
- Logging out makes a browser forget its token, which stays valid (`Logout`).
- The web search of a reseller's peers reads the list before the balance, the other
  pages after it: a purchase in between shows a debit without its peer.
- Addresses of expired peers are never given out again (`FreeAddresses`).

## 6. Plan

Written, in this order: `Store`, `PeerService` and its proofs; `Billing`,
`PeerAdmin`, `PackageAdmin`, `ExpiryWorker`; `RouteVPN` and `Reselling`;
`Dashboard`, `IpAllocator`, `Listing`; the proofs of `RouteVPNProofs`; `Startup`,
`Accounts`, `Sessions` and `AccountsProofs`.

Then the proofs of `ServiceProofs` and `MoneyProofs`, of both refinements, and
those of `DashboardProofs`, `IpAllocatorProofs` and `ListingProofs`.

What would extend it: two servers on one database in `RouteVPN`, with the table
locks of a start-up against the row locks of orders, and PostgreSQL's order of
waiting transactions, for starvation.
