# Verification of the peak-load-management API

TLA+ specifications, TLC model checks and TLAPS proofs for the Go service in
`src/api` and the PostgreSQL, Redis and RabbitMQ it is deployed with
(`src/docker-compose.yml`).  The service accepts financial transactions, queues
them, posts them to user balances and answers reads through a cache.  It exists
in two variants that share one database: the optimised routes (`/transactions`,
`/users/:id/balance`) and the baseline routes below `/v0`.

Reading order: section 1 says what the system is, section 2 what is planned and
what exists, sections 3 to 6 explain the modules with their checks and proofs,
section 7 what the checks found, section 8 what is left out.

## 1. Inventory

Three API replicas (`docker-compose.yml:109`) run the same process.  Each
process holds a Gin router, one circuit breaker for the database, a map of rate
limiters, and one AMQP channel used both for publishing and by one consumer
goroutine.  The replicas share PostgreSQL, Redis and the durable queue
`transactions_queue`, and nothing else.

| component | state | operations | interacts with |
|---|---|---|---|
| asynchronous write, `handler/transaction.go:45-157` | the handler's progress, the answer it gives | validate the user, look up the idempotency key, insert a pending row, save the key, publish, answer | PostgreSQL (through the breaker), Redis, RabbitMQ |
| baseline write, `handler/v0_transaction.go:22-129` | the same | validate, one serializable transaction that inserts and posts, answer | PostgreSQL |
| message queue, `queue/rabbitmq.go` | the client's end of the channel with its buffered deliveries, the broker's end with the unacknowledged ones, the frames between them, the queue | `Init`, `Publish`, `StartConsumer`, `QueueDepth`, `Close` | handlers, consumer |
| consumer, `main.go:161-224` | the delivery it works on and how far it is | mark as processing, serializable commit of status and balance, delete two cache keys, acknowledge or requeue | PostgreSQL, Redis, RabbitMQ |
| idempotency keys, `cache/redis.go` | key -> transaction id, 24 h | get, set, expiry, eviction (`allkeys-lru`) | asynchronous write |
| read cache, `handler/transaction.go:163-222`, `handler/user.go:31-90` | key -> copy of a row, 30 s | cache-aside read, delete by the consumer, expiry | PostgreSQL, consumer, baseline writes (which delete nothing) |
| circuit breaker, `middleware/circuitbreaker.go` | state, generation, counts, the gauge that mirrors the state | check in the middleware, `ExecuteWithCB`, state change callback | every optimised route |
| rate limiter, `middleware/ratelimit.go` | address -> token bucket and time last seen | `getLimiter`, `Allow`, cleanup every 5 minutes | every route |
| middleware chain and routes, `main.go:46-84`, `middleware/logger.go`, `middleware/timeout.go:24-48` | per request: trace id, 5 s deadline, counters | request context, log and count, limit, recover, route group | everything above |
| timeout middleware, `middleware/timeout.go:51-77` | a goroutine per request | run the handler with a deadline of its own | not used by any route |
| start and stop, `main.go:24-39, 87-127`, `db/postgres.go`, `cache/redis.go:18-38`, `queue/rabbitmq.go:20-75` | life cycle of the process | connect with retries or exit, serve, drain up to 15 s, close queue, cache, database | container restart policy |
| health check and metrics, `main.go:131-157, 228-244`, `metrics/prometheus.go` | gauges and counters | ping, queue depth, pool statistics | database, Redis, queue |
| schema, `migrations/init.sql` | tables, constraints, partitions | | both writes, consumer |

What is hard here:

* **Failure between two systems.**  A transaction is a row, a message, an
  idempotency key and a balance, in three stores without a common commit.
  Every gap between two calls is a place to crash, to time out, or to have the
  effect of a call and not its answer.
* **Redelivery.**  The broker hands an unacknowledged message to another
  replica when a channel closes, while the first consumer may still be working
  on it.  The consumer never looks at the status it finds.
* **Two ends of a connection.**  Publishes and acknowledgements are frames that
  nothing confirms, deliveries wait in the library's buffer.  When a connection
  is lost the frames on their way are lost with it, and each end goes on for a
  while with what it believes.
* **Rounding.**  An amount is a `float64` that PostgreSQL rounds to cents twice,
  in the row of the transaction and in the sum that becomes the balance.
* **Check then act.**  The idempotency key is read, two calls later written.
* **Shutdown order.**  `defer` closes the queue under a running consumer.
* **Capacity.**  The queue rejects when it is full, publishes are unconfirmed.
* **Cache races.**  A read that started before a commit may fill the cache
  after the commit's invalidation.
* **Shared switches.**  One breaker guards all optimised routes; it counts a
  missing row as a failure of the database.

What makes each part correct, in one line each:

* queue and consumer: no accepted message is lost; an amount reaches the balance
  once, or the double posting can be traced to a message in doubt, and a failure
  costs a bounded number of them; the books balance up to the rounding; a
  completed transaction stays completed; everything accepted is completed.
* writes: a duplicate is answered with a transaction that exists; a client that
  retries after an answer creates nothing; what is answered as queued is queued.
* read cache: a copy is stale for a bounded time; the invalidation works for
  everybody but the reads that overlap the commit.
* circuit breaker: it opens because of the database, bounds the probes while
  half open, ignores results of an earlier generation, and the gauge follows it.
* rate limiter: the cleanup never gives a client more than an undisturbed bucket.
* middleware: every request is counted once, and is limited exactly where the
  routes say so.

## 2. Plan

| order | module | what it is | state |
|---|---|---|---|
| 1 | `Ledger` | abstract: transactions are recorded and then posted, once unless contested | done |
| 2 | `TransactionPipeline` | both writes, idempotency keys, queue, consumers, processes; implements `Ledger` | done |
| 3 | `TransactionPipelineProofs` | inductive invariant, safety and refinement theorems | done |
| 4 | `ReadCache`, `ReadCacheProofs` | cache-aside reads against the consumer's invalidation, with time | done |
| 5 | `CircuitBreaker`, `CircuitBreakerProofs` | breaker, middleware and gauge | done |
| 6 | `TokenBucket` | abstract: a bucket per address that is always there | done |
| 7 | `RateLimiter`, `RateLimiterProofs` | limiters created on demand, with cleanup; implements `TokenBucket` | done |
| 8 | `TransactionAnswersProofs` | what clients are told and shown is true and stays true | done |
| 9 | `TransactionPostingsProofs` | what a repeated posting costs, and the books of a user | done |

What was planned after these and is not there:

* The middleware chain, start-up and health check are sequential code around the
  parts above (section 8 says what of them the modules carry).
* The timeout middleware is used by no route.

Abstract specifications: `Ledger` for the writes, `TokenBucket` for the limiter.
The breaker has none: its promises relate it to calls of older generations and
to the gauge, and are stated as properties.

## 3. The write pipeline

### 3.1 Modules

`Ledger` is the promise: a set of recorded transactions, a set of posted ones
and the balances; a transaction is recorded, later posted, or both in one step,
and its amount reaches its user's balance, to the nearest cent, in the step that
posts it. It is posted again only if it was contested first, that is, if
somebody may have it who has posted it already or still will.
`TransactionPipeline` implements `Ledger` with `suspect` for `contested`:
whatever fails, this is all a failure can do to a balance.

`TransactionPipeline` is the code.  Its steps are single calls to PostgreSQL,
Redis or RabbitMQ; handlers, consumers, the broker and the processes interleave
between them.

| in the module | in the code |
|---|---|
| `phase`, `host`, `reply`, `original` | progress and answer of one POST on one replica |
| `status`, `balance` | `transactions.status`, `users.balance` |
| `idem` | the `idempotency:<user>:<key>` entries in Redis |
| `wire`, `acks`, `nacks` | the frames `PublishWithContext`, `d.Ack` and `d.Nack` have written and the broker has not read |
| `ready`, `unacked`, `session` | the broker: `transactions_queue`, its outstanding deliveries and its end of the channel, per replica |
| `inbox`, `channel` | the client library: deliveries sent to it and not yet taken by the consumer, and its end of the channel |
| `step`, `current` | where the consumer goroutine is and its `d` |
| `process` | life of the process |
| `applied`, `enqueued`, `suspect`, `answeredBefore` | history, read by properties only |
| `faults` | failures so far, bounded by `MaxFaults` |

`Receive`, `ValidateUser`, `CheckKey`, `InsertPending`, `SaveKey`, `Publish` are
`CreateTransaction` call by call; `CommitV0` is the database transaction of
`CreateTransactionV0`.  `Route`, `Deliver`, `ReadAck` and `ReadNack` are the broker
as `queue.Init` configures it (a durable queue with `x-max-length` and
`reject-publish`, prefetch).  `Take`, `MarkProcessing`, `CommitTransaction`, `Ack`,
`Nack` are `StartConsumer`'s loop around `processTransaction`.  `BrokerDrops`,
`ClientDrops`, `Crash`, `Terminate`, `CloseQueue`, `Exit`, `Restart`, `Evict` are
what the environment and `main` do to a connection, a process and Redis.

The two ends of a connection.  `Publish`, `Ack` and `Nack` write a frame and carry
on; the broker acts when it reads the frame.  A connection goes at either end
first.  When the broker's end goes (`CloseSession`), unacknowledged messages return
to the queue and unread frames are lost, while the consumer takes the next
delivery from its buffer, commits it and acknowledges it to nobody.  When the
client's end goes (`ClientDrops`), the consumer may get some of the buffer still,
its frames may be read still, and the broker goes on delivering to nobody until it
notices.  Only `CloseQueue` is orderly: the broker reads the frames written before
it closes the channel.

Failures are choices inside the step that meets them: a statement that has no
effect (`db`), a statement whose effect stays and whose answer is an error
(`unknown`), a Redis error, a request deadline that has expired before `cache.Set`
or a lost key (`redis`), a dying process (`crash`), a lost connection (`channel`), a
SIGTERM (`sigterm`).  `FaultKinds` selects the kinds of a run and `MaxFaults` bounds
their number.  A lost connection is one failure, counted at the end that goes
first.  An open circuit breaker and an expired 5 s request deadline look to the
other calls like `db` or `unknown`.

Amounts are whole tenths of a cent, rows and balances whole cents.  `Rounded` is
what `NUMERIC(18,2)` keeps, `RowAmount` what the row of a transaction has, and
`PostToBalance` adds the unrounded amount and rounds the sum, as
`balance + $1` does (`main.go:199`).  An amount that rounds to nothing passes the
handler and fails `CHECK (amount > 0)` (`Storable`).

A message is `suspect`, in doubt, once it may be handed out again although it was
posted or still will be.  That happens in four ways: its commit was undecided
(`CommitTransaction`); the broker's end of a connection goes before it has read
the acknowledgement, or while the message is with the consumer or in its buffer
(`CloseSession`); the client's end goes in the same situations (`ClientDrops`); the
process dies between the commit and the acknowledgement (`Die`).  One lost
connection can put a whole prefetch window of messages in doubt.  The properties
say that nothing else makes the code post twice, let two consumers work on a
message, or set a completed row back.

### 3.2 Checks

| run | instance | shows |
|---|---|---|
| `Delivery` | one client sends a request twice under one key, two replicas, a queue of one, a prefetch window of two, up to three failures: statements that fail or whose outcome is unknown, crashes, connections lost at either end with the frames on them, SIGTERM | the broker loses nothing it accepted; double posting, two consumers on one message and a regressing status occur only for messages in doubt; a forgotten message is posted exactly once; duplicates are answered with recorded transactions, and a retry after an answer records nothing; over all transactions a failure costs at most one prefetch window of repeated postings (`ExtraPostingsCostFailures`); the status shown is true (`StatusIsHonest`) and so are the answers, for ever (`AnswerTellsOutcome`); the pipeline implements `Ledger`, lost acknowledgements included |
| `Completion` | both routes, a key, amounts that end in half a cent and one too small for a row, an inactive user, one replica, up to two failures of statements, Redis and processes; fair goroutines, broker and restarts | every accepted message ends up completed for good; the pipeline implements `Ledger`; the answers of `/v0` are true as well, and the completed rows of a user without doubtful transactions add up to the balance, over both routes, except for at most a cent for each amount that ends in half a cent (`BooksDriftByTies`) |
| `Overflow`, `ConcurrentRetry`, `Shutdown`, `ConnectionLoss`, `PublishFailure` | the smallest instance that shows it | the disagreements of section 7 |

Bounds.  A message meets at most two consumers at a time in the interesting
cases (the one that lost it and the one that got it), so two replicas suffice.
Two messages on a queue of one reach the full queue, overtaking on redelivery
and prefetching; a prefetch window of two lets one message wait in the buffer or
as an unread acknowledgement while the consumer works on the other, so that one
lost connection repeats two postings.  Two requests with one key both race and
follow each other: when they race, both record and both messages are under way;
when the second follows an answer, it is the retry.  One posting twice needs one
failure; three allow a double failure and a restart between them.  Amounts differ
per request in `Completion`, so that a wrong or missing posting shows in the
balance; one replica is enough there, for after a crash or a SIGTERM it consumes
its own messages again.

Fairness. Goroutines are scheduled, the broker reads frames, routes and
delivers, each end of a connection notices that the other is gone (a closed
socket or a missed heartbeat), and a container that stopped is started again
(`restart: unless-stopped`); each is weakly fair, since each stays possible
until it happens. Requests and failures owe nobody anything and are not fair.

### 3.3 Proofs

Three modules prove, for all sets of requests, users and keys, all finite sets of
replicas, all bounds and all bodies, the following.  `TransactionPipelineProofs`
holds the inductive invariant and the theorems up to `AcceptedHeld`,
`TransactionAnswersProofs` the next three, `TransactionPostingsProofs` the last two.

| theorem | statement | assumption besides the module's |
|---|---|---|
| `TypeCorrect` | `[]TypeOK` | |
| `Invariance` | `[]IInv` | |
| `NothingLost` | `[]AtLeastOnce` | |
| `ExactlyOnce` | `[]SettledExactlyOnce` | |
| `DoubleApplyNeedsDoubt` | `[]DoubleApplyOnlyIfSuspect` | |
| `SingleConsumer` | `[]SingleConsumerUnlessSuspect` | |
| `CompletedIsFinal` | `StatusRegressesOnlyIfSuspect` | |
| `DuplicatesAreRecorded` | `[]DuplicateReplyNamesRecorded` | |
| `RetriesAreSuppressed` | `[]RetryAfterAnswerSuppressed` | Redis neither fails nor forgets keys (`"redis" \notin FaultKinds`) |
| `Refinement` | `Spec => ImplementsLedger` | |
| `AppliedOnceWithoutDoubt` | `[]AppliedAtMostOnce` | no lost connection, crash, shutdown or undecided statement (`NoDoubt`) |
| `AcceptedHeld` | `[]AcceptedIsHeld` | no lost connection, crash or shutdown (`NoLoss`), and a queue with room for every request (`RoomForAll`) |
| `HonestStatus` | `[]StatusIsHonest` | |
| `AnswersHold` | `[]AnswerTellsOutcome` | |
| `DuplicatesBacked` | `[]DuplicateReplyIsBacked` | `NoLoss`, `RoomForAll` |
| `PostingsCostFailures` | `[]ExtraPostingsCostFailures` | |
| `BooksBalanceButTies` | `[]BooksDriftByTies` | |

None of the safety properties is inductive.  `AtLeastOnce` says that a message
is somewhere or has been applied, but nothing in it stops an acknowledgement
from removing a message whose commit never ran.  `IInv` adds what the frames, the
buffers and the consumer's program counter mean.  Its first half, `TInv`, ties the
counters to the data: a handler past the key check has a body of the asynchronous
route (`Keyed`), a busy consumer has a current message (`Busy`), a dead process has
no channel and nothing in hand (`Gone`), a request has a host while it is served
(`Hosted`).  Its second half, `MInv`, follows a message: at the broker it is in one
place, and only unacknowledged messages have settlements under way (`OnePlace`);
before it was published nothing of it exists beyond its row (`NotYet`); what a
replica has in its buffer and in its hands is its delivery as long as both ends of
its channel live, and it acknowledges only what is posted (`Held`); a posted or
published transaction has a row (`Rows`).  `Clean` is about messages that were never
in doubt: whoever has one in hand holds its delivery and an open channel to settle
it on, and it is posted from the commit of its consumer until the broker reads the
acknowledgement (`Posting`) and never before.  With these, `ReadAck` can only
remove a posted message and `ReadNack` only return one that is unposted or in
doubt, which is the argument of all four delivery theorems.

The refinement proof maps recorded transactions to those with a row, posted ones
to those applied and contested ones to the suspect ones.  `CommitTransaction` is
`Ledger`'s posting step for a message never applied; one that was applied is
suspect by `Clean`, and the step is `PostAgain`.  That the amount reaches the
balance to the nearest cent is arithmetic on `Rounded` (`NearestCent`).  A lost
connection and a dying process make any number of messages suspect, each of them
recorded, which is `Contest`.

`AppliedOnceWithoutDoubt` and `AcceptedHeld` are the other side of the runs
`Shutdown` and `Overflow`: what those refute holds under the stated assumptions,
so the assumptions name everything that can break it. `AcceptedHeld` needs that
no process and no end of a connection ever goes (`Connected`), and that a queue
with fewer messages than requests finds room for the next one.

`HonestStatus` and `AnswersHold`.  The row of a transaction is written by its own
handler until it answers and by consumers afterwards, so each kind of writer has a
lemma of its own (`HandlerRow`, `ConsumerRow`, `OtherRows`).  `StatusIsHonest` is
inductive on top of `IInv`.  `AnswerTellsOutcome` needs to know that an answer is
never taken back and that what was not sent stays unsent: a transaction that is
neither on the wire nor accepted when its handler is done never reaches a
consumer, so "manual processing required" is final, and what a failed insert may
leave behind is a row that nothing will ever process (`Told`, `UnsentStays`).

`DuplicatesBacked` is the other side of the run `PublishFailure`.  If no process or
connection is lost and the queue has room for all, a saved key names a transaction
that is about to be published or was accepted (`KeysNameSent`), and so an answer
`already_processed` is true.  `NoLoss` and `RoomForAll` together leave statements
and Redis free to fail.

`PostingsCostFailures`.  The bound is over all transactions together: whatever is
in the buffers and on the wires when a failure strikes, the failure repeats at most
`Prefetch` postings.  It cannot be proved from `suspect`, a message of which may be
posted again and again.  The proof counts instead the `Chances` of a transaction:
its handler before the answer, the wire, the queue, and each replica that has it in
its buffer, with its consumer before the commit, or among the nacks it has written.
`Weight` adds the postings so far to the chances left, and `Debt` collects every
unit of weight above one, for each transaction.  The invariant `Paid` says that
`Prefetch` times the failures so far covers the debt.  A chance moves from handler
to wire to queue to replica without changing the weight, a posting uses one up, and
an acknowledgement ends none (`HandlerFree`, `BrokerFree`, `ConsumerPays`).  Weight
is added only when the broker's end goes and returns what a replica has posted
already or still has in hand (`ClosingCosts`); these are unacknowledged messages,
and a replica has at most `Prefetch` of them (`Limited`).  The failure may come
before that: a process that dies, a client's end that goes first, a SIGTERM.  Such
a replica is `Owed` until the broker closes its end, and `Debt` contains a prefetch
window for it (`OwedStays`, `ClosingPays`, `ProcessPays`).  `ReplicasAssumption`,
that there are finitely many replicas, makes the debt a finite set.

`BooksBalanceButTies`.  A sum over a set of transactions would need induction over
data, so the rows are counted as a set of cents (`Cents`), and the library's
theorems on finite sets add them up (`RowAdds`).  The strengthening `Books` says
that these sets are finite.  A step either leaves the completed rows and the
balance of a user without doubtful transactions alone (`BooksStill`) or adds one row
and its amount (`BooksPost`): that the row of an undoubted message was not
completed before comes from `IInv`.  The balance then moves by the amount of the
row, or by a cent less for a credit and a cent more for a debit when the amount
ends in half a cent (`PostedByRow`), and only the latter rows are `Ties`.

TLC confirmed `IInv`, `Limited` and `Paid` on the instance of `Delivery`
(1,756,792 distinct states) before they were proved.

Only model-checked: `EnqueuedCompletes` (liveness) and the five disagreements.  Of
`OneTransactionPerKey` the part that holds is `RetriesAreSuppressed`, of
`DuplicateReplyIsBacked` it is `DuplicatesBacked`; nothing weaker is stated of
liveness across a lost connection.

## 4. The read cache

### 4.1 Module

`ReadCache` has the two cached reads, the consumer's writes and deletes, the
baseline writes and time.  The two reads differ in their key only and share their
actions.  What a copy says is abstracted to its age: `Current` while it is what
the row says, otherwise the time since the row moved on.  That is all a bound on
staleness or the soundness of an invalidation asks of the data, and it makes
every change of a row visible on every copy of it, in the cache and in the hands
of a reader that has queried and not yet answered.

| in the module | in the code |
|---|---|
| `ttl`, `age` | the entries `txn:<id>` and `user:balance:<id>` in Redis; `ttl` 0 is no entry |
| `phase`, `target`, `copy`, `left` | a GET: next call, key, row it has read, rest of its 5 s context |
| `work` | the transaction in `processTransaction` |
| `excused` | history: keys written behind the back of the invalidation |

`StartRead` is `RequestContext` and the router, `Lookup`, `Query`, `Fill` are
`cache.Get`, the query in the breaker and `cache.Set` under the request's
context.  `Insert`, `MarkProcessing`, `Commit`, `DeleteBalance`,
`DeleteTransaction`, `Acknowledge` follow a transaction through the consumer;
`Redeliver` is a process that dies before the acknowledgement.  `WriteV0`
changes a balance and nothing in Redis.  `Tick` lets keys expire, deadlines
run down and copies age.

One consumer at a time works on a transaction here.  After a lost connection
there can be two (`TransactionPipeline`), but each deletes the keys after its own
commit, so no commit goes without.

### 4.2 Checks

| run | instance | shows |
|---|---|---|
| `Cache` | two transactions of one user, one reader that may read for ever, one baseline write, one failure with redelivery, life of two ticks and deadline of one | a hit is younger than life plus deadline; a stale key is about to be deleted or excused; stale copies disappear for good after the last write |
| `StaleFill` | the smallest instance that shows it | section 7 |

Bounds.  A stale fill takes one reader.  Two transactions of one user share the
balance key, so one's delete can meet the other's commit.  A deadline of one tick
lets a request expire before, between and after its calls; a life of two lets a
key expire after a fill and before the next change.  Readers do not wait for each
other, and meet only in what is stored under a key, which one reader sees of
itself when it reads again.

Fairness.  Time passes, and handlers and consumers are goroutines that run;
nobody has to read or write, and failures are bounded.

### 4.3 Proofs

`ReadCacheProofs` proves for all users, transactions, readers, lives, deadlines
and bounds: `TypeCorrect` (`[]TypeOK`), `StalenessIsBounded`
(`[]BoundedStaleness`) and `InvalidationIsSound` (`[]InvalidationWorks`).  They
need a positive life and deadline (`TimeAssumption`).  `CACHE_TTL_SECONDS` set to
something that is no number parses to 0 and would mean keys that never expire.

`BoundedStaleness` is not inductive: it says nothing of the copies in readers'
hands, and a copy that is about to be too old satisfies it.  `Young` adds both.  A
copy's age and the rest of its request's deadline sum up to at most the deadline,
and in the cache age and rest of life stay below the sum of both bounds.  A tick
moves one unit from the one summand to the other, and `Fill` hands the copy over
while there is still deadline left, which is where the expired context matters.
`Held` says that a stale copy in a reader's hands belongs to an excused key, so a
fill cannot put a stale copy under any other key; the rest of
`InvalidationIsSound` is that nothing but a delete settles what a consumer owes.

Only model-checked: `EventuallyFresh` (liveness) and the disagreement.


## 5. The circuit breaker

### 5.1 Module

`CircuitBreaker` has the breaker "database" of one process, the requests that go
through it and the gauge that shows it.  `sony/gobreaker` is a library; what it
does is modelled from the way `circuitbreaker.go` configures and calls it, as
operators on one record.  Its mutex makes a critical section atomic, and a call
has three: `State()` in the middleware, and the ones before and after the query.
Between them other calls enter and leave, and the breaker changes state.

| in the module | in the code |
|---|---|
| `cb` | state, counts and expiry; `fresh` holds the calls admitted in the present generation that have not reported, which is what the generation number decides |
| `gauge` | `circuit_breaker_state{name="database"}` |
| `phase`, `reply` | progress and answer of a request; `served` is all the handler decides itself, `failed` 500, `unavailable` 503 |
| `database`, `faults`, `missing` | the environment: outages, single failures, absent rows |
| `Arrive`, `Refuse` | `CircuitBreakerMiddleware` (`:74`, and `:75-82` outside the mutex) |
| `Bypass`, `NeedDatabase` | what a handler does before it calls `ExecuteWithCB`; a post's user check runs outside the breaker |
| `Admit`, `Query`, `Report` | `ExecuteWithCB` around `queryTransaction`, `queryUserBalance` and the insert |
| `Leave` | `OnStateChange`, inside the critical section |
| `Failed` | `ReadyToTrip` and the rule that half-open fails at once |

The counts gobreaker keeps in states that do not read them are left out.  A panic
in a query would count as a failure and go on to `gin.Recovery`; no query
panics.  `ENV=test`, which switches the middleware's check off, is left out.

### 5.2 Checks

| run | instance | shows |
|---|---|---|
| `CircuitBreaker` | two readers, one writer, two probes, threshold two, two failures or outages, one absent row | `ProbesAreAccounted`: at most two probes at a time and no slot that leaks; `ClosesOnLastProbe`; `GaugeNeverHidesOpen`; `TripsOnlyForCause`: nothing opens it and nobody is turned away before a query has failed or `Threshold` rows were absent; `Recovers` |
| `MissingRows` | two readers, no failure, two absent rows | section 7 |

Bounds.  Three calls against two probes: one is refused by a full half-open
breaker, or comes back late from an older generation while two probe.  With two
failures the breaker opens, half-opens, fails its probe and opens again.
Interval and timeout of two and one ticks expire with calls under way.

Fairness.  Goroutines run, time passes, and an outage ends (`Repair`).  Recovery
also needs a load: `WF(Request)` says requests go on arriving, and
`SF(NeedDatabase)` that they do not hit the cache or an unknown user for ever.
Both are about the clients.  Without them nothing moves a breaker, which notices
the passing of time in the critical sections of calls only.

### 5.3 Proofs

`CircuitBreakerProofs` proves for all calls and settings (`SettingsAssumption`:
what gobreaker makes of them; a threshold of 0 is allowed):

| theorem | statement |
|---|---|
| `Invariance` | `[]IInv` |
| `TypeCorrect` | `[]TypeOK` |
| `NoSlotLeaks` | `[]ProbesAreAccounted` |
| `OpenIsShown` | `[]GaugeNeverHidesOpen` |
| `ClosingIsLast` | `ClosesOnLastProbe` |
| `TrippingNeedsCause` | `[]TripsOnlyForCause` |

`ProbesAreAccounted` alone is not inductive: it does not say what `requests`
counts.  `Accounted` does.  In half-open, `requests` is the number of probes under
way plus the successes, and fewer than `MaxRequests` have succeeded, for with the
last of them the breaker closes.  `FreshIsOut` says that a call of the present
generation is between its two critical sections, so that no call is admitted
twice.  Then a full breaker has a probe under way, and the success that makes it
close is the last one's.

`TrippingNeedsCause` is the other side of the run `MissingRows`, where two absent rows
are enough.  `Counted` says that before the first failure of a query every failure
the breaker has counted is an absent row, and that the absent rows it has not
heard of yet, of calls still before their second critical section, come on top:
the sum never exceeds the rows found absent.  Thus a result that arrives late, in a
newer generation or after a reset of the counts can only be lost, not counted
twice.  `Calm` says that until there is a cause the breaker is closed and no call
was refused.  The sum needs finitely many calls (`CallsAssumption`).

Only model-checked: `Recovers` (liveness) and the disagreement.

## 6. The rate limiter

### 6.1 Modules

`TokenBucket` is the promise: an address has one bucket from the beginning on, a
token comes back per tick, a request is admitted exactly when there is one.

`RateLimiter` is the code: the map `limiters` under `mu`, buckets created on
demand that refill when they are asked, a request that takes its limiter out of
the map and asks it later without the mutex, and a cleanup that looks at the time
last seen and not at who holds what.

| in the module | in the code |
|---|---|
| `bucket` | the `rate.Limiter`s created so far, in use or not |
| `entry`, `lastSeen` | `limiters`: limiter and time per address |
| `holds`, `since` | the local variable `limiter` of a request, and when it was set |
| `verdict`, `admitted` | what `TokenBucket` and the bound speak of |
| `GetLimiter`, `Allow`, `TooMany`, `Cleanup` | `getLimiter`, the two outcomes of `limiter.Allow()`, `cleanupLimiters` |

A tick is the time a token takes to come back.  Fractions of a token are left out,
and so is a detail of `Allow`, which reads the clock just before it locks the
limiter.  Each process has limiters of its own, so an address gets the rate once
per replica.

### 6.2 Checks

`RateLimiter`: two requests of one address and one of another, a burst of two,
limiters dropped after three ticks, a request that may sleep one tick between
lookup and question, six moments in time.  That is enough for a limiter to be
emptied, refilled, dropped and created anew under a request.  It shows that no
request asks a limiter the map has dropped (`HeldIsCurrent`), that an address is
admitted at most burst plus rate times time (`RateIsBounded`), that no step gives
an address more than the time it took (`CreditGrowsWithTime`), and that `Level`,
which reads an address's bucket off the table, makes the module implement
`TokenBucket`.  Nothing here must eventually happen, so there is no fairness.

### 6.3 Proofs

`RateLimiterProofs` proves for all addresses, requests, bursts and times
`Invariance` (`[]IInv`), `TypeCorrect` (`[]TypeOK`), `NoOrphanedBucket`
(`[]HeldIsCurrent`), `Refinement` (`Spec => ImplementsTokenBucket`) and
`RateBounded` (`[]RateIsBounded`).  They rest on `TimesAssumption`: holding a
limiter and filling a bucket take together no longer than the ten minutes of the
cleanup.  By default a bucket fills in a fifth of a second.

`IInv` adds to `HeldIsCurrent` that no two addresses share a bucket
(`OwnBucket`), that a request's limiter was seen when the request got it
(`Held`), and that a bucket was last asked no later than `MaxHold` after it was
last seen (`Timely`).  The cleanup therefore drops full buckets that nobody
holds, and as an address without a limiter has a full bucket in `TokenBucket`,
dropping one changes nothing there.  `RateBounded` uses the same mapping: what was
admitted and what is left is at most the burst and the time.

`RateIsBounded` counts from the start of the process.  `CreditBounded`
(`CreditGrowsWithTime`) is the stronger fact about every step: what was admitted and
what is left grow together by no more than the clock does, also in a step that
drops a limiter or makes a new one.  `EveryWindow` follows from it: from any moment
at which an address has been admitted `n` times, it is admitted at most the burst
and one per tick more.  No property of a run states it, for it is about two moments
of a behaviour.

## 7. What the checks found

Each is a run whose property TLC refutes; the shortest behaviours are short
enough to follow by hand.

1. **A full queue swallows accepted transactions** (`Overflow`).  `Publish`
   uses a channel without confirms, so `reject-publish` cannot reach it, and the
   client is told "accepted and queued for processing".
2. **Concurrent retries pass the idempotency check** (`ConcurrentRetry`).  The
   key is read before and written after the insert; two requests with one key
   can both create a transaction.
3. **A graceful shutdown can post an amount twice** (`Shutdown`).  The queue is
   closed under a consumer between its commit and its acknowledgement; another
   replica repeats the posting, because the consumer adds to the balance
   whatever the status of the row is.
4. **A lost connection ends the consumer for good** (`ConnectionLoss`).  The
   durable queue keeps the message, the process keeps running, nobody consumes.
5. **A failed publish blocks its own retry** (`PublishFailure`).  The key is
   saved first; when the publish fails, or its frame is lost with the connection,
   the retry is answered `already_processed` for a transaction that stays pending.
6. **A slow read undoes the invalidation** (`StaleFill`).  It queried before the
   commit and stores its copy after the consumer's delete; the old row is answered
   until the copy expires.  The theorem bounds the damage to 35 seconds with the
   default settings.
7. **Absent rows open the breaker** (`MissingRows`).  `sql.ErrNoRows` leaves the
   function given to `Execute` as an error, so reads of rows that do not exist
   count as failures of the database.  The load test's own log has it: five 404s,
   then `closed → open` with a healthy database (`src/all_logs.txt:34-49`).

Found by reading, or reachable in a model, without a run of their own:

* An amount that ends in half a cent makes the row and the balance differ: a debit
  of 10.005 has a row of 10.01 and moves a balance by 10.00 (`main.go:199`,
  `init.sql:15`, `:35`).  `BooksDriftByTies` bounds the drift by a cent for each.
* A lost connection repeats every posting whose acknowledgement the broker has not
  read and every delivery in the buffer, up to `RABBITMQ_PREFETCH_COUNT` of them
  (`rabbitmq.go:133`, `:145`).
* A failed cache lookup increments the miss counter twice (`transaction.go:183`,
  `:191`; `user.go:50`, `:58`).
* The middleware may set the gauge to open after the breaker has gone on
  (`circuitbreaker.go:75`), and it stays there until the next change of state.
* A breaker that opens or fills up with probes between the middleware's check and
  `Execute` makes the handler answer 500, and not 503 as the middleware does.
* With the database down, a post fails in the user check and is answered 422 "User
  not found or inactive" (`transaction.go:66`), outside the breaker.
* `/health` is commented "no rate limit" (`main.go:56`) and `/v0` "Tidak ada: ...
  rate limit" (`main.go:75`), but the limiter is installed for every route (`:51`).
* `healthCheck` says `"status": "ok"` whatever it finds, and drops the error of the
  queue (`main.go:142`, `:150`): a process without a consumer looks healthy.
* The breaker named cache (`circuitbreaker.go:52`) is used by nothing.

## 8. Not modelled

* When the client's end of a channel goes, which of the buffered deliveries the
  consumer still gets depends on the library's goroutines; the model keeps any
  subset.
* Frames and buffers are sets, so the broker may read them, and the consumer take
  them, in any order; AMQP keeps the order per channel, and so do fewer behaviours.
  A channel that a dead process left behind may be closed before or after its
  frames are read.
* A process comes up again only after the broker has noticed that the old one is
  gone.  A broker that has not keeps messages for a dead consumer a little longer.
* `Prefetch` is at least one: a `RABBITMQ_PREFETCH_COUNT` that is not a number
  becomes 0 (`rabbitmq.go:71`), which is no limit, and then a failure has no
  bound on what it repeats.
* The discard of a malformed message (`rabbitmq.go:135-139`): `Publish` is the only
  producer and marshals every message it sends.
* Writing a message to disk: accepting it and persisting it are one step.  A
  broker restart is a lost connection of every replica.
* Digits of an amount below a tenth of a cent; they matter to the rounding only
  where they break a tie.
* The width of `NUMERIC(18,2)`: a message that can never be posted, because the
  balance would leave it, would be requeued for ever; failures are finitely many
  here.
* Connection pool limits appear as failed statements only.
* Load tests, dashboards, the reverse proxy and the rest of the deployment keep
  no state of the system.  Any serving replica may receive any request.
* The baseline reads are a single query and change nothing.
* Reads query the primary (`DB_READ_HOST=postgres`); the lag of a replica would
  add to the bound on staleness.
* A Redis call takes effect while its caller waits for it, or not at all.
* The middleware chain is one goroutine calling one function after another.  Its
  deadline is in `ReadCache`, limiter and breaker have their modules, its counters
  and logs are left out.
* The timeout middleware (`timeout.go:51-77`) is used by no route.
* Start-up retries its three connections one after another and ends the process
  when one does not come up; nothing is served before.  `Restart` is all of it.
* The health check and the metrics collector read state that no other part reads
  back.
* The interplay of modules is left to the choices each makes for its neighbours:
  an open breaker is a failed statement to the pipeline, a cache hit a `Bypass` to
  the breaker, a dropped request no request.  No property here relates two of them.
