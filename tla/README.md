# Verification of the order service (WB L0)

TLA+ models of the Go service in this repository, which reads orders from
Kafka, stores them in PostgreSQL, caches them in memory and serves them over
HTTP. Modules are checked with TLC on small instances; the theorems are proved
with TLAPS for every value of the constants.

## The system

One process (`cmd/server`, one instance in `docker-compose.yml`, restarted
unless stopped) with these parts:

| Part | State | Operations | Talks to |
|---|---|---|---|
| Kafka consumer, `internal/kafka` | the loop's place, its fetch interval; the reader's position; the group's committed offset lives in the broker | `Run` (fetch, handle, commit or pause), `handleMessage`, `commitSafely`, `Close` | calls `SaveFromMessage` of the service, one message at a time |
| Order service, `internal/usecase` | none of its own | `SaveFromMessage`, `GetOrder`, `OrdersByCustomer`, `WarmUpCache` | repository, cache, validator |
| Order cache, `internal/cache/memory` | LRU list, index, expiry stamps, one mutex | `Get`, `Set`, `WarmUp` | shared by the consumer's goroutine and the HTTP handlers |
| Order repository, `internal/repo/postgres` | tables `customers`, `orders`, `deliveries`, `payments`, `items`; a pool of connections | `Save` (one transaction), `GetByUID` (four queries), `ListByCustomer`, `LastN` | PostgreSQL |
| Validator, `pkg/validate` | none | `Validate`, file validation for `cmd/validate-orders` | |
| HTTP API, `internal/transport/http`, `pkg/httpx` | none | `/order/:id`, `/customer/:id/orders` | `GetOrder`, `OrdersByCustomer`, each with a timeout |
| Application, `internal/app`, `cmd/server` | the context, the error channel, two goroutines, pool and reader | `Bootstrap`, `App.Run`, cleanup | everything above |
| Configuration, logging, metrics, tracing, web page, mocks, test helpers | | | read once, or output only |

What is hard to test here, at its lines, is in `hazards` of `PROJECT.json`: what
happens to a message whose handling failed; restarts, rebalances and lost
commits; Saves and reads of one order at once; the cache that a reader fills
with what it read before a Save; clock readings taken before a mutex; the end
of the process with work under way; pages of a list that moves; a warm-up that
reads while it reads; rules that are written twice, or once here and once in
the tables.

What makes each part correct:

- consumer: nothing is committed that the service was not given; what is
  committed ends in a processed message; every message is handled in the end;
  `Run` ends when told to;
- cache: list and index agree within the capacity; keys in use stay; nothing is
  served after its TTL, nor left by an insert when it was idle for that long; a
  value is never made up, mixed up or brought back;
- repository: an order is stored whole or not at all; keys hold under
  concurrency; a repeated Save changes nothing; reads answer committed parts;
  no circle of waiting;
- service: nothing is cached that was not committed; an entry is current but for
  named races; the payment transaction of an order that is saved again is the
  exception to both;
- list of a customer: pages are in order and made of committed parts; a walk
  through them misses or repeats only what changes places;
- warm-up: what is warmed is of the latest orders, and which of them stay;
- way in: the tool and the service agree; what is stored is an order; valid
  orders that no table can hold are known by name;
- application: the process starts and ends; the pool closes after the listener and
  the reader.

## Modules

| Module | Models |
|---|---|
| `Backoff` | `nextBackoff`, `minDuration`, `withJitterEqual` on durations of a fixed width |
| `BackoffLoop` | the delays of `Run` alone, over all configured intervals |
| `BackoffProofs` | theorems about `BackoffLoop` |
| `Delivery` | abstract: what the consumer promises about one partition |
| `Consumer` | `Run` with the broker, rebalances, crashes and restarts |
| `ConsumerProofs` | theorems about `Consumer` |
| `LossyMap` | abstract: a shared map that may forget; every call takes effect in one step between its call and its return |
| `OrderCache` | the LRU cache with TTL under several callers |
| `CacheProofs` | theorems about `OrderCache` and `WarmUp` |
| `OrderStore` | abstract: a store of whole orders, each call of which has its effect at once or not at all |
| `OrderRepository` | `Save` and `GetByUID`, statement by statement |
| `RepositoryProofs` | theorems about `OrderRepository` |
| `OrderService`, `MCOrderService` | the service over `OrderRepository` and a cache, with crashes |
| `ServiceProofs` | theorems about `OrderService`, over `RepositoryProofs` |
| `OrderPages`, `MCOrderPages` | the handler of `/customer/:id/orders`, `ParseLimitOffset`, `OrdersByCustomer`, `ListByCustomer`, and a client that walks through the pages while orders are saved |
| `PagesProofs` | theorems about `OrderPages` |
| `WarmUp`, `MCWarmUp` | `WarmUpCache`, `LastN` and `LRUCacheTTL.WarmUp` before the first call of the cache, then the goroutines that call it |
| `Intake`, `MCIntake` | `validate-orders`, the validator, the decoding of `SaveFromMessage`, the columns and CHECKs of the tables |
| `IntakeProofs` | theorems about `Intake` |
| `App` | `Bootstrap` with the connections of its warm-up, `App.Run`, the goroutines, cleanup |
| `AppProofs` | theorems about `App` |

`Consumer` EXTENDS `Backoff` and instantiates `Delivery`; `OrderCache`
instantiates `LossyMap`, `OrderRepository` instantiates `OrderStore`; `OrderService` EXTENDS `OrderRepository` and uses the
cache as the map that `LossyMap` describes; `OrderPages` EXTENDS
`OrderRepository` and `WarmUp` EXTENDS `OrderCache`. `map` in `PROJECT.json` names the
lines of every definition. Definitions called `X_Y` before a definition `X` are
the plausible bugs that `mutants` lists: with one of them in the place of `X`,
the property it is listed with fails.

**Consumer.** `pc` is the place in `Run`: `fetch`, `backoff`, `handle`,
`stored` (the database committed, `SaveFromMessage` has not returned),
`commit`, `pause`, `returned`; `down` is no process. The broker and kafka-go
are external: `FetchMessage` advances a position that only a new session sets
back; `CommitMessages` stores the offset after the message whatever was stored
before; a commit may fail at any time. Messages differ in what
`SaveFromMessage` makes of them; any message may also fail for a while.
`saved`, `rejected`, `failed` and `skipped` are history.

**OrderCache.** Every call is two steps: it reads the clock, then runs its
critical section, so two calls enter the mutex in either order of their
readings. `ll` is the list; `cache` the keys of the index, kept apart from the
list so that they can disagree. The `!ok` branches on the type of a list
element are unreachable (only `*entry` is pushed) and left out. `touched` and
`since` are history.

**OrderRepository.** A transaction is where it stands and the order it writes;
its writes are seen by nobody until `Commit` publishes them all. Guards of the
statements are the waits of PostgreSQL: for the row of the order, the key of a
customer, the primary key of `payments`; each wait has a name (`WaitsForOrder`),
and `WaitsFor` says for whom a caller waits. Queries of a read see what was
committed before each of them (READ COMMITTED). Parts of an order carry a
revision; `tran` is the payment's transaction, which an update does not set.
`SaveFails` stands for any failing statement: connection, context, constraint;
a commit may also be applied and its answer lost. `Requests` is what the callers
see of all this: a save, a get with what it may answer, or an answer. Through it
the statements are those of `OrderStore`, where a Save is one step; that is why
the modules above may take a Save for the step of its commit.

**OrderService.** The repository's actions with the thread of the consumer and
those of the handlers, and the cache between them. `tainted` marks entries
that a named race may have left behind, `ever` is what was committed.
`SaveFromMessage` caches the order as it decoded it, with the payment
transaction of the message; when the Save was an update, `payments` keeps the
transaction of the first one. `unwritten` has exactly the orders, as they were
given, to which that happened, and `WasCommitted` and `UpToDate` compare the
transaction of all others like every other part.

**OrderPages.** The rows of `OrderRepository`, where a Save is the step of its
commit. A call fills in its page query by query; `seen` of a row are the
versions committed since the query of the page. `walk` is a client between the
pages: it asks behind the rows it has (`offset` is their number). `must` and
`mayRepeat` are history: the orders it has to be shown (those that stay the
customer's and lose none in front of them), and those it may be shown twice
(another one got in front of them, or they left the list). A Save that changes
the row of an order and leaves its place in the list excuses nothing.

**WarmUp.** `boot` holds what `Bootstrap` holds: the order_uids of `LastN`, the
orders read, those still to set. Nothing saves meanwhile, since the consumer
starts later. Orders of one date are listed in any order: the query of `LastN`,
unlike that of the pages, does not name `order_uid`. `WarmUpNext` calls `Set` of
`OrderCache`, whose steps follow; after `Serve` every goroutine calls it, several
at once.

**Intake.** A line of a file, or a message, is an order with at most one field
out of the ordinary, or one of the ways not to be an order. Texts are `given`,
`empty` or with a NUL; numbers are the edges of INTEGER, BIGINT and zero, the
widths scaled down. Texts have no length: that PostgreSQL refuses a key longer
than a row of an index (`order_uid`, `customer_id` and `transaction` are TEXT
keys) is not modelled, and not in `Gap`. `ValidateOrderFromJSON` and
`MessageVerdict` translate the two copies of the decoding. `Fits` is what the columns hold, `Taken` the primary
key of `payments`. What the tool writes goes to the topic as it is written
(`scripts/send_file.sh` is a pipe); others may publish anything.

**App.** `main` is where `main`, `Bootstrap` and `Run` are. The consumer and a
request are reduced to whether they run and hold a connection; `users` are the
connections in use, of `maxConns`. The rows of `LastN` hold one while `GetByUID`
takes another. `PoolClosedLast` is about the order of listener, reader and pool; the
consumer's goroutine, which `Run` does not wait for, may still ask the closing
pool and is refused.

## Runs

| Run | Shows | Bounds |
|---|---|---|
| `BackoffLoop` | a delay is between half the interval and the interval that the failures since the last success leave, for a maximum below or above the first interval; pauses stay within `PauseMax` | durations of 5 bits, 4 failures: past the cap from every start; only intervals that can be doubled in the width, so that the doubling of one near the largest duration is not covered |
| `ConsumerSafety` | no silent skip; committed offset moves back only after a rebalance; the loop implements `Delivery` | 3 messages (one can be failed, one overtake it, one follow), 2 faults, 1 rebalance |
| `ConsumerLive` | `Run` returns after a cancellation; every message is handled | 2 messages, 2 faults, 1 rebalance |
| `ConsumerAtLeastOnce` | *violated*: a failed message is confirmed by the next commit | no faults needed |
| `CacheShared` | which orders the warm-up leaves (with more than the capacity the oldest of the latest n, the latest to be evicted first); index and list agree, LRU, TTL, an insert leaves nothing idle, refinement of `LossyMap` | every choice of up to 3 orders with 2 dates, n from -1 to 3 around a capacity of 2; then 2 goroutines, 3 keys over 2 places, 2 values, TTL 1, clock to 2: the warm-up can outlast the TTL, an entry expire and a call be late; symmetric in keys and values |
| `CacheExpired` | *violated*: an insert leaves an expired entry in front of a live one | as `CacheShared` |
| `RepoSave` | orders whole, payment keys unique, repeated Save harmless, reads committed and complete, no circle of waiting and every call returns, refinement of `OrderStore` | 2 callers, 2 orders claiming one transaction, 2 revisions |
| `RepoUpsert` | *violated*: an update keeps the old payment transaction | 2 transactions |
| `ServiceCache` | what is cached was committed; current but for the named races, and for the transaction of an order saved again | one order, a saver, 1 reader, 2 transactions, 2 revisions; symmetric in transactions and revisions |
| `ListPages` | pages in order, of committed parts; what a walk may miss or repeat | one client, 3 orders, 2 customers, 2 dates, limits 1 and 2: up to 4 pages; 2 Saves during a walk: one can move an order and one can tear a page |
| `Intake` | tool and service agree; counts and exit code; the gap between rules and tables; what is stored | 2 lines or messages: enough for a taken transaction, an update, and an end after the first line; 2 orders, 2 transactions, symmetric |
| `AppLife` | the warm-up ends unless its rows hold the only connection; the process ends; the pool closes last | 2 requests, 1 to 3 connections, 0 to 2 rows |

`MaxLog`, `MaxFaults`, `MaxRebalances`, `MaxTime`, `MaxFails`, `MaxSaves` and
`MaxLines` bound only how often the environment acts. `RepoSave` gives both orders the same transaction;
that several transactions change nothing of what it checks is proved. `ServiceCache`
has one reader: with two, nothing is violated either, but its ten million states
are too many for a run that is repeated often; `Current` and `OnlyCommitted` are proved for
any number of readers and transactions.

### Fairness

- `RunFairness`: the goroutine of `Run` is scheduled, `FetchMessage` returns
  when there is a message or its context is cancelled, the handler returns
  within `processTimeout`, timers elapse. `FetchOk` need not win against a
  cancelled context.
- `ProcessFairness`, an assumption of `EveryMessageHandled` only: `App.Run`
  closes the reader after a cancellation, `main` returns, the container is
  restarted. Faults are finitely many, so that a session that works comes.
- `OrderRepository!LiveSpec`: the server answers statements; strong fairness,
  since PostgreSQL grants a lock in the order of arrival and no caller is passed
  over forever. Failures are never fair: a call need not fail to end.
- `App!LiveSpec`: `main` runs, requests and saves end by their timeouts, the HTTP
  goroutine runs. Signals and failures are never fair; a warm-up that waits for
  a connection is not helped by anyone.

## Proofs

`ConsumerProofs` proves `TypeOK`, `NoSilentSkip`, `CommitsMonotone` and
`ImplementsDelivery` for any kinds, start offset, intervals and bounds, from
the assumptions named in `Consumer` and `Backoff`: intervals are positive and
can be doubled in the width of a duration.

`NoSilentSkip` is not inductive: a commit covers everything below the message
in hand. `IInv` adds `PassedHandled` (all the reader passed over while the
process runs is handled or in hand), `BeforeHandled` (all before the message in
hand is handled, even if a rebalance has moved the reader since) and
`CommitProcessed` (a commit follows a processed message). A rebalance resets
the position to the committed offset, below which `NoSilentSkip` itself speaks;
for a group without a commit `skipped` does. `CommitsFollow` gives
`CommitsMonotone`; every step of `Run` is then a step of `Delivery` or a stutter.
`RetryDoubles` shows that the doubling never overflows.

`BackoffProofs` proves `DelaysFollowFailures` for any width of a duration and any
intervals. The interval after n failures is the first one times a power of two,
up to the maximum; the power is the recursive function `twoTo`, and a recursive
function is nothing to a prover before something is known to satisfy its
equation. `TwoTo` shows it without induction over an operator: the tables of
powers up to n exist for every n, since the least n without one would have one
from n - 1 (`LeastExists`, `PowersExist`), and two of them agree (`PowersAgree`).
`BInv` then ties the interval to the count of failures.

`RepositoryProofs` proves `TypeOK`, `OrdersWhole`, `TransUnique`,
`SaveIdempotent`, `ReadIsCommitted`, `NoCircle` and `ImplementsStore` for any
callers, orders and values. The invariant `RInv` adds what the locks give:
`OrderLocked` (one open transaction per order's row) and `TranReserved` (an insert
under way claims a transaction that no other order has, nor any other insert
under way); `SavesMessages` (what is saved is an order as a producer wrote it) and
`ReadsSeen` (a reader has seen the row as it is, an order it found is still
there, and every part it read is of a version in which there was one). A
step that is not a commit moves one thread alone (`AloneKeepsWInv`,
`AloneKeepsReads`); a commit ends its transaction (`CommitKeepsWInv`,
`CommitKeepsReads`). `NoCircle` needs no invariant: who waits at a statement waits
for one that is past it (`WaitsForLater`), so the last of any callers waits for
none of them.

`Implementation` is the refinement of `OrderStore`: only the commit of a Save is
its effect, which the store allows since `TranReserved` keeps the transaction
free until then (`CommitSaves`); all other statements leave the callers' view
alone (`StatementIsInvisible`), and what a get has read at its last query is an
answer the store may give (`GotFinds`).

`AppProofs` proves `TypeOK` and `PoolClosedLast` for any requests, size of the
pool and rows to warm. The room of two in `Run`'s channel rests on `ReportsOnce`
(a goroutine that reported has returned, and none runs before `Run`),
`PoolClosedLast` on `ClosesInOrder` (the listener is open only while `Run` waits,
and the reader is closed before the cleanup). Of the two liveness properties it
proves what their progress rests on. `BootstrapEnds`: before `Run` only the
warm-up uses the pool (`OnlyRowsHold`, `BootsAlone`), so that a read of it finds a
connection exactly when there is more than one (`ReadsWaitOnlyAlone`), and each of
its steps lowers `ToDo` (`RowsRunOut`). `ProcessEnds`: who holds a connection
after that is a save or a request with a timeout (`HoldersEnd`), and a closing
pool is given back to only (`OnlyDrains`). That a lowered count and a fair step
end a wait is left to TLC.

`IntakeProofs` proves all five properties of `Intake` for any order_uids,
transactions, widths of the columns and number of lines. `CountsAgree` ties the
tool's counters to what was read and written and gives `ExitOkMeansAllSent`.
`StoredIsOrder` and `RefusedInGap` rest on what the fields of an order may be
(`AroundIsShaped`), on `AcceptedIsUsable` (each thing a reader counts on is
refused by the validator, by `Save` or by a column) and on `GapIsTheRest` (the
columns and CHECKs ask of a valid order exactly what `Gap` lists).

`CacheProofs` proves `TypeOK`, `IndexMatchesList`, `RecentlyUsedKept`,
`NoHitAfterTTL`, `InsertDropsIdle` and `ImplementsLossyMap` for any threads, keys,
contents, capacity and time to live. The invariant `IInv` adds to the types: `Distinct`
(the list has a key once, so that the index leads to one entry), `CallsPast` (the
clock reading of a call under way is not ahead of the clock),
`Stamped` (an entry expires within the TTL of the last use of its key),
`FrontIsSince` (the keys in front of an entry were used since its own last use),
`UsedInOrder` (the list is in the order of these uses)
and `Replaced` (a key that left unexpired was replaced by as many others as the
cache holds). `FrontIsSince` is what an eviction needs: the key at the back has
the whole list among its `since`. `UsedInOrder` gives `InsertDropsIdle`: the list
is sorted by use, though with several callers not by expiry, so that an insert,
which stops at the first live entry from the back, leaves only what was used
within the TTL. Each critical section is then one step of
`LossyMap`, each beginning of a call one too.

`ServiceProofs` proves `STypeOK`, `CachedWasCommitted` and `CacheCurrent`, and that
`OrdersWhole`, `TransUnique` and `ReadIsCommitted` hold with the service's own
steps and its crashes between those of the repository. `CrashSafe` says more: with
the death of the process as a step of the store that ends all calls and keeps
what is stored (`OrderStore!Dies`), the service's database is still a store of
whole orders. `SInv` is `RInv` with
`Roles` (the consumer only saves, handlers only read, so that one Save at a time
is under way), `History` (what is in the database is remembered), `SavedNow`
(between the commit and the `Set` after it the saver's order is the one in the
database, but for a transaction the update did not write) and `ReadNow` (what a reader has read was committed, and is still what
the database holds unless a Save of that order overlapped it). A reader that
was overlapped taints the entry it caches, so that `CacheCurrent` speaks of the
others.

`PagesProofs` proves `PTypeOK`, `PageInOrder`, `PageIsCommitted`, `NothingMissed` and
`NothingTwice` for any orders, customers, dates, limits and number of Saves.
`PageInv` says of a call under way that its page is sorted and that what each
query has filled in is of a version in `seen`. The walk is an argument about
ranks: the rank of an order is the number of orders in front of it, the listing
is a bijection between the orders of a customer and the ranks below their
number (`PlacesTaken`, `ListingIs`), and a page holds the ranks from its offset on
(`PageUids`). `WalkInv` keeps, whatever Saves commit, that an order which must be
shown has been shown, is on the page under way or has a rank behind it
(`Coming`), and that one which may not be repeated is in front of what is asked
for next once it is shown (`Once`); `RanksMove` says what a Save does to a rank.

Of `WarmUp`, `CacheProofs` proves `WarmedWithLatest` for any stored orders, dates, configured
number, capacity, time to live and goroutines. The invariant `Warming` says at each
place of `Bootstrap` what the cache holds: of the first k orders of some answer
of `LastN` the last ones, in turned order (`Warmed`); while the clock is within
the TTL none of them can have expired, so that as many as fit are there. That
only `Set` of a key which is not in the cache is called meanwhile is part of the
argument (`WorkKeeps`). Which of the stored orders the list holds is then counted:
an order at place j has at most j - 1 later ones (`ListedIsLatest`), and one with
fewer than n as late is on the list (`LatestIsListed`). `WarmedIsCache`: the
warm-up and what follows it are a behaviour of `OrderCache`, so that every result
about the cache holds from the warm-up on, with all goroutines at it.

What the theorems assume beyond the types of the constants:

- `PauseAssumption`: the longest pause `PauseMax` is a natural number;
- `CacheAssumption`: `None` is none of the calls of `LossyMap`;
- `PagesAssumption`: order_uids and dates are compared as integers, the bounds of
  the limit are positive and in order, `Missing` and `NotInt` are no integers;
- `FromStart`, of `NothingMissed` and `NothingTwice`: the client begins at the first
  row; from a larger offset it is shown nothing of what is in front. The queries
  of `ListPages` satisfy it (`MCWalks`);
- a table holds finitely many rows (`WInit`; in `OrderPages` it follows from the
  Saves).

Only model-checked: liveness (`RunReturns`, `EveryMessageHandled`,
`CallsReturn`, `ProcessEnds`, `BootstrapEnds`), which is out of the prover's
reach. Every invariant and action property of the runs that hold is proved.
The other way round, `WarmedIsCache`, `CrashSafe` and the four theorems about the progress of `App`
state formulas that no run lists; they hold on the instances of `CacheShared`, `ServiceCache`
and `AppLife`.

## Where the code and its docs differ

Shown by a run, and listed under `findings`:

- a message whose handling failed is confirmed by the next commit
  (`message_consumer.go:6` requires at-least-once);
- `Save` does not update `payments.transaction` (`order_repository.go:25`, upsert
  of all parts);
- an insert may leave an expired entry in the cache, and evict a live one
  instead, when a caller waited for the mutex while the clock moved
  (`order_cache.go:124`: outdated elements are removed before the insert).

Seen while modelling, in the state spaces of the runs, without a run of their
own:

- `App.Run` returns without waiting for the consumer's goroutine, whose context
  is not even cancelled when the HTTP server failed (`bootstrap.go:156` says
  that `Run` stops both);
- a failed message is not fetched again before a rebalance or a restart
  (`consumer_helpers.go:30` says it will be);
- data that are not JSON do not wrap `ErrInvalidOrder` and so are not committed
  (`order_service.go:85-94`; `consumer.go:79` says invalid data are);
- with the default `StartOffset` "last" a restart before the first commit passes
  over a failed message (`consumer_config.go:42-44`);
- `GetByUID` may answer parts of two versions of an order, each of them
  committed (`order_repository.go:143-201`);
- after an order was saved again with another payment transaction the cache
  answers the one that was sent last and the database the first, so that
  `/order/:id` changes its answer when the entry goes (`order_service.go:109`,
  `order_repository.go:103-112`);
- a hit may shorten the life of an entry, when a call with an older clock
  reading enters the mutex later (`order_cache.go:63,94`);
- a cache smaller than the warm-up keeps the oldest of the last N orders, and
  one that holds them all evicts the latest first (`order_service.go:117`:
  warm-up with the last N);
- with a pool of one connection and one stored order the warm-up waits until the
  process is told to stop (`order_repository.go:381`);
- an order with a negative `sale`, fee or `payment_dt`, a number beyond INTEGER, a
  NUL or no `customer_id` passes the tool and the validator, and every Save of it
  is refused (`README.md`, "Producer-side": the same rules before publishing);
- the tool exits with success when every line of a JSONL file was invalid, and
  after a failure earlier lines are published (`validate_from_jsonl.go:38-55`).

## Not modelled

Texts and JSON beyond what the rules ask of them; routes and status codes, which
are one branch each; logging, metrics, tracing, the web page; the configuration,
which is read once, as constants; several partitions (kafka-go gives `Run` one
message at a time, and the claims are per partition); more than one instance of
the service; mocks and test helpers.

## Plan

1. `Consumer` over `OrderService` in place of its own notion of a saved message:
   a message is confirmed only when its order is stored, across a crash.
2. `WarmUp` over `OrderRepository`, for a second instance that saves meanwhile.
3. Proofs: what the two compositions above need, from `NoSilentSkip` with the
   steps of `OrderStore` and from `Warming` with `RInv`.
