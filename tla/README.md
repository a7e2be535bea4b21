# Verification of the banking peak-load prototype

TLA+ specifications of the transfer service in `src/`, the TLC runs that check
them on small instances and the proofs that TLAPS checks for all of them.

`PROJECT.json` lists the components, the runs with their properties, the lines
of code each definition stands for, the findings, the hazards and the theorems.

## The system

A Go service (`src/cmd/server`) offers three routes: create a transfer, read the
status of a transfer, read a balance. It runs as several identical processes
over a PostgreSQL primary, an optional read replica, an optional Redis cache and
an optional RabbitMQ queue.

| component | state | operations | interacts with |
|---|---|---|---|
| handler and service of `POST /transactions` | none of its own | validate; draw an id; with a queue: insert a pending row, publish (`createAsync`); without: the whole transfer in one database transaction (`createSync`) | id generator, database, queue, cache |
| id generator | `txCounter`, one atomic integer per process | `nextTransactionID` | wall clock |
| transfer transaction | rows of `accounts` and `transactions`, row locks | lock source, check, debit, credit, write the transactions row, commit | run by `createSync` and by the worker's `settle` |
| worker | N goroutines per process on one delivery channel | take, check status, settle, mark failed, ack or nack | queue, database, replica, cache |
| queue client | one connection and one channel behind a mutex | dial, publish, consume, inspect | RabbitMQ: `transactions` and its dead-letter queue |
| reads with cache-aside | Redis keys `balance:*`, `tx_status:*` with TTL | get, fill, invalidate | replica, writers |
| circuit breaker | state, counts, generation | admit or refuse a request, count how it ended | every route, `/metrics` included |
| rate limiter | Echo's token buckets | admit | external |
| startup and shutdown | which dependencies were reached, the context that SIGTERM cancels | migrate, connect, choose the mode, start workers and collector, serve, stop | all |
| in-memory repositories | maps behind a mutex | what is served when no database is configured | startup |
| metrics, logging, seeding | gauges | output, and bulk loading before the first start | |

### What is hard here, and what correctness means

* **Money under concurrency.** Check, debit and credit are separate statements of
  many sessions. Correct: no overdraft, every visible change is one whole
  transfer, opposite transfers do not hang.
* **Numbers.** A request carries any positive `float64`; the column keeps cents.
  Correct: the sum of the balances does not change.
* **At-least-once delivery.** Connections break, processes die between commit and
  acknowledgement, commits succeed without the worker learning of it. Correct:
  money moves once per transaction, statuses tell the truth, no delivery is
  leaked, every accepted transfer is resolved.
* **Startup and shutdown.** Each dependency may be missing at start, and what is then
  served differs: the database is indispensable, the replica, Redis and the queue are
  not. SIGTERM cancels the context of every database call of the workers. Correct: an
  answer that was given stays on record, and the process serves again after any failure.
* **One queue client for all.** Handlers, workers and the collector share a connection
  and a mutex, and each may be the one to find the connection broken. Correct: one of
  them dials, no connection leaks, nobody waits for ever, and a broken connection does not
  trouble later requests.
* **A bounded pool.** A request that holds a connection must not wait for another.
* **Stale reads.** The idempotency check reads before the settling transaction and
  perhaps from a replica; the cache may be refilled with what a reader saw before
  an invalidation.
* **Ids.** Goroutines race on a counter and a clock that may be set back.
* **The breaker.** Overlapping requests end in states other than the ones that
  admitted them.

## Modules

| module | what it is |
|---|---|
| `TransferDB` | the database transaction, statement by statement |
| `Ledger` | abstract: a transfer is accepted, then completed at the instant its money moves, or failed |
| `SyncTransfer` | the synchronous path: handler, pool, `createSync`; extends `TransferDB`, implements `Ledger` |
| `Settlement` | the asynchronous path: handlers, queue, workers, processes; extends `TransferDB`, implements `Ledger` |
| `QueueClient` | `queue.Client`: connection, channel and mutex, call by call |
| `Server` | a process from start to exit: `main`, handlers, workers and collector over `QueueClient` |
| `TxIdGenerator` | `nextTransactionID` |
| `CircuitBreaker` | the middleware with what it uses of `sony/gobreaker` |
| `CacheAside` | reads through Redis and the replica against the writers' commits and deletions |
| `MCTransferDB`, `MCSyncTransfer`, `MCSettlement`, `MCServer`, `MCCacheAside` | instances for TLC; the other modules need none |
| `..._proofs` | theorems and their proofs, one module per component; `Settlement_ledger_proofs` extends `Settlement_proofs` with what holds while certain faults are absent |

Definitions whose name has an underscore and a suffix (`Round_None`,
`Check_SkipWithoutAck`) are mutants: plausible mistakes, each put in the place of
the definition it is named after to see that a property notices.

### TransferDB

`balance` is the committed column, `draft[s]` the row versions session `s` has
written, `rowLock` the owner of each row's lock, `stage[s]` the statement it has
reached, `job[s]` its transfer. One action per statement: `LockSource` (SELECT
FOR UPDATE and the balance check), `Debit`, `Credit`, `Record` (the row of
`transactions`), `Commit`; `Rollback` for the deferred rollback; `DeadlockVictim`
for PostgreSQL's detector. `createSync` and `settle` issue the same statements but
for the SELECT EXISTS of the former, and differ in what they write in `Record`.
PostgreSQL is external and appears only as far as these statements use it.

Abstractions: a transaction that is given up at its first statement
(`SourceMissing`, `InsufficientFunds`) takes and releases its lock in one step;
the comparison of `float64` values is that of the exact numbers (exact in binary
only for balances below 2^53 cents); `updated_at` is left out because nothing
decides on it; an amount is a number of units of which `Scale` make a cent, and
storing rounds to whole cents, halves away from zero, as `NUMERIC(18,2)` does.

### SyncTransfer

A session is the goroutine of one request; `pc[s]` is where its handler is or the
response it gave, `home[s]` its process, `body[s]` and `id[s]` what it asks for and the
id it drew, `rows` the table `transactions`. `moved` is history: the requests whose COMMIT
was carried out. `Refuse` and `Submit` are the handler's validation and the entry into
`CreateTransaction`; `Begin` waits for one of the `MaxOpenConns` connections; `Lock`,
`CheckDest`, `Write` and `SyncCommit` are the statements of `createSync`, taken from
`TransferDB` where they touch `accounts`; `Respond` is the 201. A database call fails in
`CallFails` (an error, or a cancelled request), `SyncDeadlock` or in `SyncCommit`, when
the COMMIT is carried out and its answer is lost. `Crash` leaves transactions behind that
the server ends (`OrphanEnds`), by rollback, or by a COMMIT that had been sent.

Two requests of different processes may draw the same id; `INSERT ... ON CONFLICT DO
UPDATE` then waits for the other's transaction and changes the status only. Two
transfers share one row in that case. `RowsTellTransfers` says so: the row is that of
one of them, and no line of the repository promises ids that are unique across processes.

`ImplementsLedger` maps a request to a transfer of `Ledger`: pending once it is taken up
with two existing accounts, completed when its money moves, failed when its transaction
is over without that. A crash fails several at once, therefore `Ledger!Reject` takes a set.

### QueueClient and Server

`QueueClient` has the state of `queue.Client`: `conn` (the current connection, counted by
`dials`), `open` and `chans` (which connections are open and whose channel is), `mutex`,
and where each caller is (`qpc`, `got`). `getChannel` is `GetChannel`, then `Dial` and
`Declare` or `DialFails` under the mutex; the channel is used after the mutex is
released (`Works`, `Fails`). A check without a dial holds the mutex within one step.
The broker may break a connection or close a channel on an open one.

`Server` adds `main`: `phase` walks through migration, the connections in the order of the
code, serving and the deferred calls; `conf` is what the configuration names, `deps` what
was reached. `Create` chooses queue, database or memory as `CreateTransaction` does; `mem`
and `pg` are the two repositories, `rep` the replica's copy of the latter, from which
`GetByID` answers if `main` reached the replica; `msg` is the broker's queue, `consumer` the
connection the workers consume on. `hit` is history: the transfers whose handler ran while
something failed. The database transaction, the worker's `process` and every read are one
step here, as `SyncTransfer`, `Settlement` and `CacheAside` have them in detail, with all
the outcomes they have there: `Create` may answer 500 without any fault (an account that
does not exist, an id in use, the victim of a deadlock); what `Published` sent may be lost,
for want of a publisher confirm; `Work` may dead-letter a message without marking the
transaction, when the database fails or the context is cancelled. `WorkersReturn` is the
end of `Start`, which comes with the context's or with that of the deliveries.

Abstractions: `Connect` and its failure are one step per dependency; both migrations are
one; the middleware is left out; a failure to listen ends in the same deferred calls.

### Settlement

`api[tx]` is the place of a handler in `createAsync` or the response it gave,
`status` and `replica` the column `transactions.status` on both servers, `msg[tx]`
where the message is, `pc[s]`/`cur[s]` where a worker goroutine is in `process` and
with which transaction, `holders` the workers whose delivery can still be
answered, `proc[p]` a process, `consuming` the processes whose delivery channel is
open. `settled[tx]` counts committed settlements and is history only.

Each database call of a worker is a step of its own and may fail: because the
context is cancelled, or because of a fault. The faults are named and bounded
(`Faults`, `MaxFaults`):

| fault | what happens |
|---|---|
| `db` | a database call returns an error; an INSERT or a COMMIT may have taken effect all the same |
| `publishError` | `Publish` returns an error |
| `publishLost` | `Publish` succeeds and the message never arrives (no publisher confirms) |
| `conn` | the AMQP connection breaks: deliveries are requeued, the delivery channel is closed; or `Consume` fails at start |
| `sigterm` | the context is cancelled, the process ends without waiting for its workers |
| `crash` | the process dies; PostgreSQL finishes or rolls back its sessions later |

Abstractions: messages are taken in any order (several consumers, no prefetch
limit); the replica jumps to the primary's present state; an error of `Publish`
means the message did not arrive; an id that another process has used is an
INSERT refused (`Save`), and that other transfer is not in the model; a
payload that cannot be decoded does not occur, as only `createAsync` publishes; the
Redis deletions after a settlement are in `CacheAside`.

### TxIdGenerator

`clock` is the wall clock, `pc/now/last` the local state of a goroutine in the
loop, `issued` the ids of this process in the order of their successful
CompareAndSwap. `floor` is history: the newest id at the time of the call. An id is
its number, since `txn%022d` is injective and keeps the order. The loop is lock-free and
not wait-free: a goroutine may lose every CompareAndSwap to others that keep calling.
`SomeCallReturns` promises progress to some goroutine, therefore, and not to each; with
the bound `MaxCalls` on the calls of a run each would get its turn, which says nothing.

### CircuitBreaker

`state`, `expired` (the timeout has passed), `failures` and `probes` (the counts that
matter), `running` and `fresh` (requests of the present generation: `gobreaker`
ignores the results of others), `recent` (history: the last results counted) and
`lastEnd` (history: how the handler ended that was the last to do so). A
handler ends with a plain response, an `echo.HTTPError`, a response of 500 or a
panic; the middleware decides which of these are failures.

The comment of the middleware speaks of consecutive 5xx responses; the code counts
every error a handler returns, and `CreateTransaction` returns its 422 responses as
errors (`httpError4xx` among `Ends`). The model follows the code, and the run `breaker_4xx`
shows the difference.

### CacheAside

`primary` and `replica` hold a value per key (a balance is the number of transfers
that made it, a status is itself), `cache` an entry with its remaining time to live.
A read is `Hit`, or `Miss`, `Query` and `Store`, each a step of its own, since the code
holds nothing between them; `GetBalance` and `GetTransactionStatus` differ in their
`TTL` only. The writers are those of the other modules reduced to what they commit
and delete: `SyncCommit`; `SavePending` and `Settle`, `SettleUnaware` (the commit whose
answer is lost) or `MarkFailed`; then `InvalidateBalance` and `InvalidateTxStatus`,
each of which may be lost (errors are ignored, and a dead process deletes nothing).
`Tick` is the passing of time: entries expire and requests run into `ContextTimeout`.
History: `old` (ticks since a copy's value was superseded), `lost` (keys whose deletion was
due and failed), and `why` an entry was wrong when it was stored: "race" if a write overtook
the copy on its way to the cache, "lag" if the copy came from a replica that was behind
although every deletion of the key was over. `MarkFailed` deletes nothing, as in the code,
and adds nothing to `lost`.

`BoundedStaleness` counts the replica's lag and the life of a request in addition to the
time to live, and is looser than ADR-004's "Possible stale reads within TTL window": an entry is
as old as what the reader had read when it is stored, and then lives for its TTL.

Abstractions: the replica jumps to the primary's present state and is never more than
`MaxLag` behind (assumed: PostgreSQL gives no such bound by itself); a message is
settled once (what redelivery does is `Settlement`'s subject); an error of Redis is a
miss; an error of the database and a missing row both end in 404, as in the code.

## Runs

| run | instance | shows |
|---|---|---|
| `sync_transfer` | 3 requests, 2 processes with pools of 2, 3 accounts, amounts of 0.5, 1 and 1.5 cents, unknown accounts, missing fields, equal ids, one failing call or crash | every account balances to the cent, nothing is overdrawn, only whole transfers become visible; responses and rows tell the truth; implements `Ledger` under these faults; every request is answered although cycles of 2 and 3 waiting requests occur and the pool is exhausted |
| `settlement` | 2 workers of one process, 2 transfers (opposite, too large, to an unknown account), lagging replica, refused Save and publish | implements `Ledger`; every accepted transfer is resolved; what is dead-lettered is marked failed |
| `settlement_faults` | 2 processes, 2 transfers (opposite, to an unknown account), lagging replica, one fault of any kind at any point, restarts with and without workers | accounts balance, completed means settled, what was answered with 500 is never settled, no delivery without owner; every message leaves the queue |
| `tx_ids` | 3 goroutines, 3 calls in the life of a process, 3 clock readings, restarts | ids increase, stay above the seeds, respect real-time order; while goroutines are in the loop, some call returns |
| `cache` | 2 accounts, 1 transfer with every outcome, 2 readers, lag and request life of 1 tick, times to live of 1 and 2 | a bound on staleness that holds even if every deletion is lost, and is tight; a wrong entry has a cause (race, lag, deletion outstanding or failed, transaction marked failed); the cache is right in the end |
| `server` | 2 transfers, 5 goroutines on the client, 4 configurations (nothing, queue only, database with replica and cache, database with cache and queue), any 2 faults or signals | no connection leaks and no call hangs; publishing fails only for requests that met a fault or a channel closed on an open connection; answers stay on record in the primary, and `GetTransactionStatus` finds them in the end, through a lagging replica or without it; the process serves again unless a migration was cut short; while workers consume again and again, accepted transfers are resolved, or were dead-lettered without a mark, or lost by a publish without confirm |
| `breaker` | 3 concurrent requests, 3 failures to open | one probe at a time, only the probe decides and its result does, opens exactly after consecutive failures, never stuck |

Why the bounds are enough: two sessions show every race of two transfers, three
every longer cycle's shape; two transfers on two workers give opposite locks, and
the second worker is the one that gets a redelivery; in `settlement_faults` one fault at any point
meets every step of handler and worker. The invariants of that run are theorems for any
number of faults; what the run adds is `DeliveriesEnd`, which is not. Balances of two cents with amounts of up to
three give both outcomes of the balance check. In `cache` a pending status expires before
a final one, which is what the limit of staleness tells apart, and two readers let one
overwrite the entry of the other. Three calls let a slow goroutine be
overtaken twice. In `sync_transfer` a pool of two is less than the three requests that
one process may get, so that waiting for a connection and for a row meet. In `server` a second
fault hits the recovery from the first: a dial that fails after a broken connection, a
crash during a restart. The state space of `server` is finite because the client dials
again only after a fault or after `Close`, and the count starts anew with each process.

Five runs end in a violation. Each states what a comment or a document of the
repository says, and TLC shows an execution of the code that does otherwise. Two of them
state what two sentences have in common: by either sentence alone the property would
hold, so that one execution refutes both.

| run | sentence | what happens |
|---|---|---|
| `half_cent` | "settle atomically debits source, credits destination" | half a cent is credited as one cent and debited as none |
| `twice_and_failed` | "Idempotency: skip if already settled."; "Terminal states don't change" | a requeued message is settled again by a worker that read the status before the first commit, and a lost answer to COMMIT turns completed into failed |
| `sigterm_strands` | "Client can poll transaction status endpoint to check completion." | a message dead-lettered during shutdown leaves its transaction pending for ever |
| `breaker_4xx` | "The breaker opens after CBMaxFailures consecutive 5xx responses" | refused transfers (422) in a row open it |
| `broker_fault` | "re-dialing if the connection or channel is closed"; "It blocks until ctx is cancelled." | a channel closed on an open connection is handed out to later requests, and `Start` has returned |

These use the smallest instance in which the sentence fails: one transfer and one fault in
`Server`, two requests and two failures in `CircuitBreaker`, one transfer and the faults
needed in `Settlement`.

### Fairness

* `SyncTransfer`: a handler goes on with what it has begun, the deadlock detector runs and
  the server ends a dead client's transaction (weak). Weak fairness is enough for a request
  that waits for a connection, a row or an id, since each of the finitely many others takes
  them once; nothing is assumed of requests, errors, cancellations or crashes, so
  `RequestsAnswered` does not lean on `ContextTimeout`.
* `Server`: the platform starts the process, `main` and the goroutines go on, a call over the
  network ends in success or failure, workers take messages and the replica follows the
  primary (all weak). Requests, faults,
  signals and the collector's ticks have no fairness.
* `Settlement`: weak fairness of every step a running goroutine, the broker, the
  replica or the platform will take; none of requests, faults or of an error of the
  database. A worker whose context is cancelled is bound to see the error.
  `Exit` is bounded by Echo's graceful timeout, `Restart` is the container
  platform's restart policy.
* `TxIdGenerator`: a goroutine in the loop is scheduled (weak).
* `CacheAside`: time passes and the replica catches up (weak); none of readers and writers.
* `CircuitBreaker`: time passes, handlers end (`ContextTimeout`), requests keep
  coming (`/metrics` is scraped through the breaker).

## Proofs

All are for every value of the constants under the named assumptions
(`TransferDBAssumption`, `SettlementAssumption`, `SyncTransferAssumption`, `TxIdAssumption`,
`CacheAssumption`, `CircuitBreakerAssumption`, `QueueClientAssumption`, `ServerAssumption`).
Every invariant and every action property that a passing run checks is a theorem; what
hypotheses a theorem has besides is said below.

* `TransferDB_proofs`. `NoOverdraft` is not inductive: a commit stores a draft, and
  nothing says what the draft is. The invariant `Inv` adds `LockInv`: an open
  transaction owns its source row, whose committed balance still covers the amount;
  its drafts are what a lone transfer (`Moved`) computes from the present committed
  balances; a row is locked only by an open transaction. Each action is one lemma,
  and `CommitMoves` says a commit is `Moved`, from which follow `NeverOverdrawn` and
  `TransfersAtomic`. `MovedBy` says what a transfer really moves: `TakenBy` from the source
  and `GivenBy` to the destination, which differ for half cents and are the amount for whole
  ones. From it `MoneyConserved`: with whole cents (`WholeCents`) and finitely many accounts
  the sum of the balances never changes. The run `half_cent` shows that the hypothesis is needed.
* Sums. `SumFunction` is a CHOOSE of a recursive function on subsets. The lemmas `SumsExist`,
  `SumChange` and `SumZero` derive what is needed of it: the equations have a solution, and a
  change at one point changes the sum by as much. The inductions go by a minimal counterexample
  in a well-founded order (`LeastNat`, `SubsetInduction`), so that no theorem with an operator
  as its parameter is used.
* `SyncTransfer_proofs`. `SyncInv` adds `PathInv` to the invariant of `TransferDB`: in which
  places a handler has a transaction open, that its job is the request, that `CheckDest` came
  before `Debit`, that the rows are those of `moved`. `SyncUsesTransferDB` carries the results of
  `TransferDB` over; `SyncResponsesTruthful` and `SyncRowsTellTransfers` follow from the places.
  `SyncImplementsLedger` goes step by step: a commit is `Complete`, every other end of a
  transaction is `Reject`, a crash is `Reject` of all the process had, whose open
  transactions stay pending. It has no hypothesis about faults. `SyncBooksBalance` needs that the requests are
  finitely many, for the sum; half cents are counted as they are rounded.
* `Settlement_proofs`. `SettlementUsesTransferDB`: every step of the composed system,
  faults included, is a step of `TransferDB` or leaves the database alone. This
  needs to know that the destination of every settlement exists, although `settle`
  does not look: `OrderInv` and `WorkerInv` say that a message carries an order whose
  accounts the foreign keys have checked. `OpenInv` says that a transaction is open
  only in a worker that settles or in one left behind by a dead process. With it,
  the results of `TransferDB` carry over, and `CompletionIsReal` follows: a reported
  completion has moved money, under every combination of faults. `DeliveryInv` adds that
  a message exists only after a 202, that what is settled had a message, that a worker's job is
  the order it took, and that the holders of deliveries and the unacknowledged messages
  correspond one to one: `RefusedIsFinal` and `DeliveriesOwned`. `SettlementBalancesAccounted`
  has whole cents and finitely many transactions as its hypotheses, and no other.
* `Settlement_ledger_proofs`. The code breaks `ImplementsLedger`, `TerminalStatusFinal` and
  `DeadLetterMeansFailed` when a database call of a worker fails or its process is stopped; the
  theorems have the hypothesis `Calm`, that only `Publish` fails. `CalmInv` says that the status of
  a transaction tells how far handler, message and worker are. For `SettledAtMostOnce` less is
  enough: `NoRedelivery`, that neither a connection nor a process is lost. A worker's check of the
  status, which may read a lagging replica, plays no part in the argument: `OnceInv` says that
  nobody holds, or can still take, a message that was settled.
  `twice_and_failed` shows the rest: with a redelivery the check is all there is, and is not enough.
* `TxIdGenerator_proofs`. `CounterInv`: the counter equals the newest id, a goroutine's
  copy is never ahead of it, and what had been returned before a call was counted
  before its Load. Ids increase, exceed the seeds and respect real-time order for
  any number of goroutines and any clock.
* `CircuitBreaker_proofs`. `BreakerInv` ties the counts to the requests: while the breaker is
  half-open its generation has at most the one request under way that `probes` knows; while it is
  closed, the last `failures` results in `recent` are failures. The latter keeps less than
  `CBMaxFailures` results, so that a breaker about to open has seen nothing but failures there.
  `OnlyProbeDecides` says in addition which way the probe's result decides.
* `CacheAside_proofs`. `AgeInv` follows a value along its way: the replica's is at most
  `lag` old, a reader's at most `MaxLag` and the age of its request, and an entry's age
  and remaining time to live together never exceed the limit, since each tick adds at
  most one to the former and takes one from the latter. `StalenessBounded` follows.
  `RaceInv`: an entry that was right when it was stored turns stale only by a write whose
  deletion is still to come, has failed, or is not in the code; nothing is marked "lag"
  without a replica; and there is no copy of a status before its row is written.
  `StaleEntriesExplained` follows.
* `Server_proofs`. `ClientInv`: whoever dials holds the mutex, or is `main` in `New`, when
  nobody else is in the client; the connection being replaced is closed; an open connection
  is the current one or being set up. `ClientOneConnection` follows. `RecordInv`: a handler that
  publishes or has answered has its row in the primary or, without a database, in memory
  (`AnswersOnRecord`; what a lagging replica lets a client see is `AnswersFound`, only checked). `HitInv`: a request whose call failed, or whose connection
  is gone, ran while something failed; with it `BrokenConnectionReplaced`, which is about publishing only: the database answers
  errors without a fault.
  These theorems hold for any number of requests and faults.

Only model-checked: the liveness properties `RequestsAnswered`, `AcceptedResolved`,
`DeliveriesEnd`, `SomeCallReturns`, `CallsReturn`, `BreakerMovesOn`, `FreshInTheEnd`,
`AnswersFound` and `ServesAgain`, since
fairness is outside the prover's reach.

## Not modelled

* The rate limiter (Echo's token bucket with two configured numbers), compression, headers
  and the order of the middleware: no code of the repository's own.
* Logging and metrics: output only. The collector appears in `Server` as far as it uses the
  queue client.
* Seeding: a sequential bulk load. Its ids matter to `TxIdGenerator`. Interrupted between
  its tables, it cannot be run again as it stands, because its keys are taken.
* A message a worker cannot decode: only `createAsync` publishes.
* Idle limits and lifetimes of connections, and PgBouncer's own pool.
* Deployment files, dashboards and load tests.

Three sentences that the models contradict, without a run of their own:

* `src/internal/service/transaction.go:190` says of a duplicate key "treat as idempotent
  success"; the line below returns the error, which the handler answers with 500. `Save`
  follows the code.
* `src/docs/adrs/004-redis-caching-strategy.md:33`: "Worker status update → DELETE
  `tx_status:{tx_id}`", and `src/docs/architecture.md:66`: "On transaction status change
  (worker), invalidate `tx_status:{tx_id}`". After `UpdateStatus(failed)`
  (`src/internal/worker/transaction.go:81`) nothing is deleted, and a cached "pending" stays until it
  expires: the last cause that `StaleExplained` names.
* `src/docs/adrs/004-redis-caching-strategy.md:15`: "This limits staleness to the
  write-then-read race window." With a replica, a read that begins after the deletion finds the old
  balance (`src/internal/repository/postgres/account.go:27`) and caches it again: the second
  cause that `StaleExplained` names.

## Plan

1. How often a transfer can be settled when messages are delivered again: at most once more than
   the number of connections and processes that were lost, which needs a count of requeues.
2. `Conservation` of the composed paths as corollaries, and `DeadLettersFailed` with failures
   that cannot reach a worker's UPDATE.
3. The agreement of `Server` with the modules it abstracts: its one-step database transaction
   against `SyncTransfer`, its `Work` against `Settlement`.
