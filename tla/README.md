# Inventory Management: models, checks and proofs

This directory models the program in `src/` in TLA+: the form and the rate limiter before the API,
the path of a reservation through Redis and PostgreSQL, the outbox worker that publishes it to
Kafka, the stock worker that stores it in ClickHouse, the log, hub and list that show it to people,
and the chain of all these as a whole. TLC checks the models on small instances; TLAPS proves every
safety property that a passing run checks, for every value of the constants. `PROJECT.json` lists the
runs, the mutants (for each checked property a plausible bug that violates it), the lines each
definition models, the findings, the hazards and the theorems.

## 1. The system

```
Frontend --POST--> API node (2 replicas) --SETNX/DECRBY--> Redis
                      |   \--log goroutine--> reserve_log --> hub --WebSocket--> clients of the node
                      +--one transaction--> PostgreSQL: stocks + outbox
                                                 |  select, mark
                                           outbox worker --circuit breaker, producer--> Kafka
                                                                                         |
                                                                stock worker (group) <---+
                                                                     |--pool--> ClickHouse
```

| component | state it keeps | operations | how it interacts | what is hard | what makes it correct |
|---|---|---|---|---|---|
| reservation path (`reserve_handler.go`, `reserve_service.go`, `stock_repo.go`) | `idempotent:<id>` and `stock:<product>` in Redis; `stocks`, `outbox` in PostgreSQL | bind, SETNX, transaction, DEL or DECRBY + EXPIRE, reply | several nodes share Redis and PostgreSQL | races for the last units; lost replies; a key that expires too early or stays too long; death between steps | never oversold; counts and outbox rows together; one reservation per key; replies agree with the ledger; every request is answered |
| outbox worker (`cmd/outbox-worker`, `outbox_repo.go`) | `outbox.status`, `next_retry_at`; a batch and a breaker in memory | select ten pending rows, send each, mark it | reads what the API wrote, writes to Kafka | stale batches while two workers overlap; SIGTERM in a round; lost updates; refused sends | processed implies published; settled rows stay settled; an event sent twice only for a named cause; every row is settled |
| circuit breaker (`circuitbreaker/kafka.go`) | closed / open / half-open and its counts | admit, success, failure, expiry | called around each send | it refuses events that are then failed for good | part of the worker's properties |
| Kafka producer (`producer.go`) | none | `SendMessage`, acknowledged by all replicas, three retries | called by the worker | not idempotent: copies, and failures that are on the topic | part of the worker's properties |
| stock worker (`consumer.go`, `cmd/stock-worker`) | claim position, bounded channel, pool; no offset outside | join, retry, claim, hand over, process, shut down | group coordinator; ClickHouse | rebalance, eviction of a live member, full channel, draining at shutdown, INSERTs that fail or are run again | nothing skipped within a session; no double rows without a cause; messages end; shutdown completes |
| reserve log and hub (`reserve_log_repo.go`, `websocket/`) | `reserve_log`, the clients of one node | insert, broadcast, register, unregister | goroutine started by the handler; browsers | a slow client blocks the hub; nodes do not share broadcasts; goroutines lost at shutdown; a write that fails in the middle of a round | a connected client gets what its hub takes, once and in order; no goroutine waits for ever |
| reservation form (`ReservationForm.tsx`, `lib/api.ts`) | `loading`, `result` of a page | submit, answer, error, reload | one POST at a time through the limiter to a node | a fresh request_id per click: a retry is a new request; fetches that break while the server goes on | a page says "Reserved" of what is reserved; one order is reported once; the button comes back |
| frontend list (`ReservationList.tsx`) | the entries shown | fetch at mount, prepend on push | GET and WebSocket of a node | a fetch overwrites what was pushed meanwhile | the list shows only what is in the log |
| rate limiter (`rate_limit.go`) | a GCRA time in Redis per client address, shared by the nodes | allow, refuse, let pass when Redis fails | before every handler but `/ws` | burst equals rate; lets everything pass when Redis is down; a script that runs twice; people behind one address | less than twice the limit in any window; the burst is restored; a refused client gets room again |
| request ids, metrics, tracing, configuration, migrations, mocks, manifests | - | - | - | - | take no decision of the program |

Liveness hazards, races and failures are listed line by line under `hazards` in `PROJECT.json`.

## 2. Modules

| module | models | state ↔ code |
|---|---|---|
| `StockLedger` | the promise of the reservation path: a row and its units appear in one step, within the stock, once per request and key | `reserved`, `outbox` |
| `Reservation` | `ReserveHandler.Reserve` → `reserveService.Reserve` → `ReserveTx`, concurrent on several nodes | `pc[a]` is the remote call attempt `a` stands before; `key` is `idempotent:*`; `rowLock` the row lock of an open transaction; `reserved`, `outbox` what is committed; `cache`, `cacheTTL` the counter in Redis. `window` and `grant` are ghosts: how often a key was lost, and in which life an attempt created it |
| `Breaker` | gobreaker as configured | a record (state, counts, whether the generation has expired) and the operators `Admits`, `AfterSuccess`, `AfterFailure` |
| `Outbox` | `cmd/outbox-worker` with one or more processes | `status`, `waiting` are the row's columns; `wpc`, `batch`, `term`, `breaker` the worker's memory; `copies` the topic; `excused` is a ghost: events a fault or an overlap may repeat |
| `Consumer` | `ConsumeWithRetry`, `ConsumeClaim`, `processMessage` and the group around one partition | `owner` is the coordinator's view, `mpc` the member's; `from`, `pos` the claim; `queued`, `busy` the channel and the pool; `rows` ClickHouse; `settled`, `doubtful` are ghosts: what was dealt with, and what a lost partition or an INSERT run again may store twice |
| `Feed` | the log goroutine of an attempt, `GetReservations`, `Hub.Run`, `websocket.Handler` and `ReservationList` | `task` is where a goroutine stands, `log` the rows of `reserve_log`; `hub`, `msg`, `todo`, `clients` one hub per node, in its select or in the middle of a broadcast; `conn` the handler of a connection, `socket` its buffers; `fetched` and `pushed` the two parts of a list. `overwritten` and `due` are ghosts: what a fetch replaced, and what a client should get |
| `RateLimit` | `RateLimiterMiddleware` and the algorithm of redis_rate | `tat` is how far a client's theoretical arrival time lies ahead of Redis' clock, in ticks; `charged` is a ghost, the requests charged in the last ticks, for every span up to a window |
| `Storefront` | `RateLimit`, `ReservationForm` and `reserveProduct`, and the API as `StockLedger` promises it (an instance) | `loading`, `shown` are the page's state, `open` the clicks whose fetch it waits for, `stage` where a click's request stands on the server; `orderOf` and `told` are ghosts: what a click was made for, and how its fetch ended |
| `EndToEnd` | what the whole chain promises | `booked`, `stored`, `again`, `blamed`: sets of reservations |
| `Pipeline` | instances of `StockLedger`, `Outbox` and `Consumer`, joined by the topic | their variables, and `topic`, a sequence of events: `copies` of `Outbox` and `end` of `Consumer` are computed from it |
| `MCReservation`, `MCOutbox`, `MCConsumer`, `MCFeed`, `MCStorefront`, `MCPipeline` | instances for TLC, symmetry, a constraint | |
| `ReservationProofs`, `OutboxProofs`, `ConsumerProofs`, `FeedProofs`, `StorefrontProofs`, `PipelineProofs` | theorems | |

Each remote call is one action, and each has its failures beside it: no effect and an error, an
effect and an error, death of the process. What a handler does between two remote calls is part of
the action before. Definitions marked "Faulty variant" belong to no specification; they are the
mutants with which the properties are tested.

Details that decide what the models say:

- **Row locks.** The `UPDATE` waits for the row's lock and evaluates its `WHERE` on the latest
  committed row (READ COMMITTED, lib/pq's default), so `TxUpdates` needs a free row and `TxRefuses`
  looks at the committed count.
- **go-redis retries.** A command whose reply is lost is sent again: SETNX then meets its own key
  (`KeyCreatedThenResent`), DECRBY may be executed up to `MaxSends` times.
- **database/sql retries.** A statement on a `*sql.DB` whose connection turns out to be broken is run
  again on another one, up to three times in all, also when the server had executed it and only the
  answer was lost. The INSERT into ClickHouse goes into a plain MergeTree without a key, and so a
  message that no member processed twice may have several rows: `StoredUnheard` adds a row and puts
  the message among the `doubtful` ones, and the message stays in work. A statement of a transaction is
  never run again. The UPDATEs of the outbox worker write the same verdict once more, so that `Mark`
  stands for all their runs; a second row of the same entry in `reserve_log` is not told from the first.
- **Producer retries.** `Retry.Max` is 3 and the producer is not idempotent, so one send may append the
  event up to four times (`MaxSends`), also if the worker dies before it hears of any (`Crash`).
- **Unreachable code.** Nothing returns `ErrVersionConflict` and no context has a deadline of its
  own; unknown event types and undecodable payloads are never put into the outbox. These branches
  are left out.
- **A batch outlives its context.** After SIGTERM a round goes on to its end; sends succeed, updates
  fail (`MarkLost`).
- **Marks without commits.** `MarkMessage` raises an offset in memory and commits are switched off:
  no state that anything reads changes, so `Consumer` has no such variable.
- **The list is fetched once.** `ReservationList` fetches again when `refreshTrigger` changes, but
  `page.tsx` renders it without one. A fetch replaces the list, so `Show` moves what was pushed
  meanwhile to `overwritten`.
- **Shutdown of a node.** `Shutdown` waits for handlers, not for the goroutines they start nor for
  hijacked connections, so in `Feed` an orderly end and death are one action, `Stop`.
- **Time in the limiter.** redis_rate keeps one time per key and lets it run out; `tat` is its
  distance from Redis' clock, which is why a key that expires and a distance of 0 are the same. A
  request moves it by `Interval` = window / limit, and is allowed if it then lies within the burst.
  Redis computes with fractions of a second; ticks of any size give the same comparisons as long as
  the interval is a whole number of them. `RATE_LIMIT=0` is excluded by assumption.
- **What counts against the limit.** `charged` counts what Redis was asked to charge. A request that
  passes because Redis did not answer may be charged or not (`FailOpen`), one whose script ran twice
  is charged twice (`ChargedUnheard`), and a Redis that restarts empty begins a new count.
- **The form and the ledger.** The form draws a new request_id for every click, so the idempotency key
  never meets it again, and the API is `StockLedger` with one request identifier per click. A click
  means an order of somebody who wants one reservation and clicks until told of it.
- **One topic, two views.** In `Pipeline` a send that ends with n copies appends n messages
  (`RelaySends`), and the instance of `Outbox` sees the change of its `copies`; the consumers see a
  longer partition. Every action of `Outbox` and `Consumer` is one of `Pipeline`, except `Publish`
  and `Insert`, which `RelaySends` and `Book` bring about. The topic has one partition.

## 3. Runs

| run | instance | checks |
|---|---|---|
| `MCReservation` | 3 attempts, 2 on one node; 2 request ids; quantities 2 and 3 of 5 units; crashes, lost replies, expiry, Redis restarts | `Inv`, `NoOversell`, `LedgerBalanced`, `OneReservationPerWindow`, `RepliesMatchLedger`, refinement of `StockLedger` |
| `MCReservationLive` | 2 attempts on 2 nodes, an unknown product, quantities 0, 2, 3 and 6 > `MaxInt`, commands executed twice | `CacheFollowsLedger`, `EveryRequestAnswered` |
| `MCOutbox` | 1 worker, 3 rows, batches of 2, breaker trips at 2 | `VerdictStands`, `EventuallySettled` |
| `MCOutboxOverlap` | 2 workers, 2 rows | `ProcessedWasPublished`, `SettledStaysSettled`, `DuplicatesAreExcused` |
| `MCConsumer` | 2 members with a pool of 1, 3 messages | `NothingSkipped`, `RowsAreExcused` |
| `MCConsumerLive` | 1 member with a pool of 2, 3 messages, one malformed, delays 1, 2, 4 with maximum 3 | `RetryDelayBounded`, `EveryMessageEnds`, `ShutdownCompletes` |
| `MCFeed` | 1 node, 2 pages, 2 attempts; one GET fails; a connection holds 1 message | `NothingInvented`, `InOrder`, `GoroutinesEnd`, `ReachesClients` |
| `MCStorefront` | 2 pages behind one address, 2 clicks, 2 units; a limit of 2 in a window of 4 ticks | `WindowBounded`, `BurstRestored`, `ShownIsReserved`, `ReportedOnce`, `RoomReturns`, `FormComesBack` |
| `MCPipeline` | 2 reservations, 1 worker, 1 member with a pool of 1, 2 messages on the topic | refinement of `EndToEnd` (`KeepsPromise`), `AnalyticsWithinLedger` |

Every passing run also checks its module's inductive invariant (`Inv`; `StoreInv` of `Storefront`;
`SoloInv` of `Outbox` where one worker runs), which contains the type invariant. Three
runs end in a counterexample, each against a sentence of the repository (quoted under `findings`):

| run | what the code does |
|---|---|
| `ReservationDuplicate` | a request refused for want of stock keeps its key; its retry is a "duplicate" of nothing |
| `OutboxDelivery` | a failed row is never selected again, in spite of its `next_retry_at` |
| `ConsumerDelivery` | what was published while no claim was open is never stored |

**Bounds.** Three attempts are enough for a race of two with a third that retries one of them, and
for quantities that fit two at a time but not three. Two request ids distinguish "same" from
"other". The windows of a key are not bounded: they only count losses, and each attempt takes part
in one, so the state space is finite as long as keys are lost at most once per creation. `MaxCopies`
and `MaxRows` are 2 because the properties ask only for "more than one"; `MaxSends` of the producer is 4,
one send and its three retries. A batch of two out of three
rows has a row left for the next round; a breaker that trips at two instead of six opens within one
batch. Three messages and a channel of two fill the channel. `MaxDelay` 3 is no multiple of two, so
that the last doubling passes it, as 24 s doubled passes 30 s. In `Feed` a second attempt overtakes the
first between INSERT and broadcast, a connection that holds one message makes the hub wait, a fetch
of one entry leaves one out, and a second page shows what the troubles of the first cost the other.
In `Storefront` a limit of two tells "one more" from "twice", and an interval of two ticks lets time
pass between two steps of the rate; two clicks are the least with which one order sets aside two
units, or two orders compete. In `Pipeline` two reservations and two messages are the least with which
one event takes the other's place, or stands on the topic twice; `MaxCopies` is above all counts, as
its assumption demands. The product of worker and group is large, so `MCPipeline` has a constraint
(`MCTroubleComesEarly`): once a message is on the topic, processes still die, lose their partition,
lose updates and repeat sends and INSERTs, but SIGTERM, a failed join, a breaker that comes due and a passing
retry time are explored before that only. `MCOutbox` and `MCConsumer` have them everywhere. `MCPipeline`
has one worker; that the chain keeps its promise while two of them overlap is
what the theorems of `PipelineProofs` say.

**Deadlock** is checked in `Outbox`, `Consumer`, `MCFeed`, `MCStorefront` and `MCPipeline`. In
`Reservation` every attempt runs once and then rests, so an instance comes to an end.

**Fairness.** `Reservation`: an attempt that can take a step without a fault does so (goroutines
run, servers answer, a free row lock is granted). Since a lost reply or a crash is never fair,
`EveryRequestAnswered` rests on no luck. `Outbox`: the ticker ticks, each call ends in
an answer or an error, the process is restarted, and it is not stopped for ever anew; one of ever so
many updates succeeds. `Consumer`: goroutines run, inserts end (an INSERT is not run again
without end: database/sql tries three times), a lost partition or SIGTERM is
noticed. `Feed`: goroutines run, and a select that is ready for several of them again and again takes
each in the end (Go chooses among ready cases at random); a connection breaks for sure only when its
page has left. `GoroutinesEnd` needs one assumption that the code does not enforce: pages read what
they are sent. `WriteJSON` has no deadline; without that assumption (`WF_vars(Receive(p))`) TLC finds
a page that stops reading and, behind it, a hub that never registers anybody again. `Storefront`: time
goes on, the API answers each request (`EveryRequestAnswered` of `MCReservation` is what justifies
it) and the answer reaches the page, unless the fetch breaks first; nothing is assumed of those who
click or of Redis. The two delivery
runs are given more, so that they do not fail for want of it: Kafka that acknowledges one of ever so
many sends; members in good health.

## 4. Proofs

All theorems are about `Spec` for every value of the constants that satisfies the module's
assumption, and are checked by `tlapm` (SMT, Zenon, LS4).

- `ReservationProofs`. `Inv` is inductive: types; a row is locked by the attempt at "commit" and by
  nobody else (`LockInv`); what a locked row is about to be given fits (`StockInv`), which is why
  `NoOversell` alone is not inductive; a grant or an outbox row belongs to a life of the key that is
  over or still running, and no two of them to the same one (`WindowInv`), which gives
  `OneReservationPerWindow`; and an outbox row belongs to an attempt past its transaction that was
  not refused (`OutcomeInv`), which gives `RepliesMatchLedger`. `LedgerImplemented` shows that
  `Init` implies the ledger's `Init` and that under `Inv` each step is a `Reserve` or a stutter.
  The last two parts are about amounts. A product's units are a set, one pair of a row and a number
  for each unit (`Units`), so that the sum over the outbox is a cardinality and needs no induction
  over its rows: a commit adds a set of known size that is disjoint from the rest (`AddUnits`).
  `LedgerInv` says that each row is its attempt's, and that the set is as large as the count; it
  gives `LedgerBalanced`. `CacheInv` bounds the counter in Redis by the rows whose DECRBY is no longer
  to come (`Counted`): what `CacheFollowsLedger` says of all rows is not inductive, since an attempt
  between its COMMIT and its DECRBY still needs room for its own quantity.
- `OutboxProofs`, for any number of workers. `BatchInv` says that a worker about to mark its row
  processed has put that row on the topic; `ProcessedWasPublished` and `SettledStaysSettled` follow.
  `GetPending` locks and marks nothing, so that two workers may select the same row; `Poll` excuses
  such rows (a ghost). `ShareInv` says that an event that nothing excuses is in one batch at most,
  is pending while it is there, and once on the topic is settled or about to be; it gives
  `DuplicatesAreExcused`. `VerdictStands` is about a worker that runs alone (`OneWorker`), as
  `k8s/outbox-worker.yaml` deploys it (one replica; in a rolling update two overlap), and follows from
  `SoloInv`: its batch holds pending rows only. With two it is false, since the UPDATEs overwrite
  whatever verdict is there.
- `ConsumerProofs`. `ClaimInv` keeps what a member holds below its position; `SingleInv` says that
  a message nobody doubts has one holder at most and no row while it has one, and lies ahead of the
  owner's position only if nobody has touched it. They give `RowsAreExcused` and `NothingSkipped`. What
  doubts a message is a lost partition or an INSERT that is run again; `DoubtAndStore` adds that the
  doubt is there before the second row, which the chain's theorem needs.
- `FeedProofs`. `HubInv` ties a hub's message and the clients it still has to write to, to the
  registered clients; `QuietInv` says that nothing is on its way to a page before it is registered,
  which is what `InOrder` needs when a client joins; `SourceInv` that whatever is under way is
  logged. `InOrder` is a statement about concatenated sequences: lemmas about `Cat` show that each
  step only moves a message from one of them to the next.
- `StorefrontProofs`. Of the limiter, `Owed` says that whatever was charged in the last ticks is paid
  for by those ticks or still owed, and `PaidOff` that ticks without a charge pay off; `WindowBounded`
  and `BurstRestored` follow for every limit and interval (`LimiterHolds` for the limiter alone). Of
  the form, `FetchInv` says that a page waits for one fetch at most, of an order that nothing was
  reported for yet, and `ClickInv` ties stages and reports to outbox rows; they give `ShownIsReserved`
  and `ReportedOnce`.

- `PipelineProofs`, for any number of workers, members, reservations and messages. The lemmas of
  `OutboxProofs` and `ConsumerProofs` are used through instances of these modules, with the topic's
  `copies` and `end` in place of theirs; `PipelineAssumption` implies their assumptions. `Inv` joins
  `Inv` of the workers and of the group, `LedgerInv` (each reservation has one row and one
  unit, and the workers' rows are those that are there) and `ChainInv` (what is on the topic, or
  excused, was booked; what is doubtful lies on the topic). `ChainKeepsPromise` is the refinement of
  `EndToEnd`: a `Book` is a `Book`, and every other step a `Store` or a stutter, where a `Store` may write
  rows and meet causes, but writes a second row only of what was blamed before. The crucial case
  is a row inserted for an event that has one
  already (`PromiseInv`): either it is the same message, and then `SingleInv` of the group finds
  it doubtful, or another copy, and then `DuplicatesAreExcused` of the workers finds it excused.
  `SumWithinLedger` follows by an injection: with nobody to blame, the rows of ClickHouse belong to
  different events, each of them booked, so that there are no more of them than outbox rows.

Only model-checked are the liveness properties (`EveryRequestAnswered`, `EventuallySettled`,
`EveryMessageEnds`, `ShutdownCompletes`, `GoroutinesEnd`, `ReachesClients`, `RoomReturns`,
`FormComesBack`): they rest on fairness and ENABLED, which are outside the prover's reach. The
properties of the three runs that end in a counterexample are false.

## 5. What is not modelled

Not modelled because no decision depends on it: request-id headers, metrics, traces, logs, wiring,
configuration, mocks, manifests, styling. Migrations appear as the initial states. Of the database
pool see the hazard at `main.go:64`: no transaction takes a second connection.

In the models, but without a property of their own:

- the stock counter's EXPIRE may be lost (`CacheExpireFails`), and the counter then stays; the counter
  is never seeded, so that what the service logs as `new_available` is minus what was reserved since
  it appeared. No code reads it; `CacheFollowsLedger` says that it never runs ahead of the ledger;
- pages that are clients of another node than the one that serves an attempt are told nothing
  (two nodes are deployed, each with its own hub). `ReachesClients` is about the clients of the
  serving node, for which it holds;
- what passes the limiter while Redis is down is bounded by nothing.

What is left to do: a topic with more than one partition (the chain's topic has one), and, should
the tools allow it, proofs of the liveness properties.
