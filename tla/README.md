# Profit worker: a TLA+ model of the valuation cache

The worker reads three Kafka topics (stock prices, trades, portfolio-user
changes) and keeps portfolio and user valuations in Redis Cluster. Several
processes run it at once; each has several consumers per topic. This directory
models what those consumers do to each other and to Redis: TLA+ modules, the
instances TLC checks, and proofs checked by TLAPS.

All paths below are under `src/`.

## 1. Inventory

| Component | State | Operations | Hard because of |
|---|---|---|---|
| Stock price application: `internal/service/profit.go`, `internal/redisstore/price_application.go` | per stock a lock (token, TTL) and the applied price with its version; the holdings' values | acquire locks, fetch applied, fan out, renew, Refresh, Commit, Release | two processes on one stock, TTL expiry, pipelines that run in part, lost replies, a renewal goroutine |
| Stock price consumers: `internal/kafka/consumer.go` 222-327 | the polled batch, offsets | `handleStockMessages`, `processPriceBatch` | retries and drops; which event of a batch survives |
| Record consumers (trade, portfolio-user): `consumer.go` 77-220, 329-447, 528-552, `internal/kafka/dlt.go` | assignment, position, stored and committed offsets, batch, DLT topic | fetch, handle with retries, pause and wait, publish to the DLT, rewind, commit | rebalances inside a wait, expired sessions, crashes, late deliveries |
| Trade cache: `internal/service/cache.go` 31-173, `internal/redisstore/idempotent.go` | quantity, indexes, `scv`, the `pf:` and `usr:` hashes, operation markers, `processed:trade` | `UpdatePortfolioCaches`, `compareAndSet`, `syncHoldingIndexes`, `ApplyPortfolioTradeTotals`, `ApplyUserTotals`, snapshots | no transaction over keys: a retry may start anywhere; other workers write the same hashes |
| Portfolio and user mapping: `cache.go` 175-280 | fields `u`, `ucp`, the user's set | `createPortfolioMapping`, `deletePortfolioMapping`, mapping by a trade | CREATED, DELETED and trades come from different topics in any order |
| Valuation totals: `internal/redisstore/store.go` | `cvp`, `cv`, `pv`, `ac`, `pc` | the fan-out's replace script and bulk saves | they read, compute outside Redis and write over concurrent trades |
| Event decoding: `internal/model/model.go` | none | versions, decimals | events without a version |
| Price gap check: `service/price_gap.go`, `redisstore/price_gap.go` | gauges | reads only | nothing it does changes the system |
| Topic creation, process, health, configuration, metrics | wiring | | out of scope, see section 8 |

Interactions: a consumer calls its handler and stores the offset when the
handler returns nil; the handlers are the price application, the trade cache
and the mapping; all of them meet only in Redis, through single commands,
one-node Lua scripts and pipelines that are not atomic. Kafka moves partitions
between consumers; a consumer learns of it only inside `Poll`.

What makes each part correct:

* *price application*: an applied price is only replaced by one of a higher
  version; a batch that is answered without an error is covered by what is
  applied; a lock is lost only by its owner's own step or the TTL; holdings are
  not valued with an older price than the applied one; batches end and locks
  get free;
* *record consumers*: no record is passed before it is applied or dead-lettered;
  the records of a partition take effect in order; each is done in the end;
* *price batch*: the newest event of a stock is the one that is applied, whatever
  the order of the poll and whichever events carry a version;
* *mapping and totals*: a portfolio's value is the sum of its stocks' and a user's
  that of its portfolios; a portfolio is counted once for its user; a deleted one
  leaves nothing behind; a fan-out leaves what it computed saved;
* *trade cache*: each trade counts once in the quantity, the portfolio and the
  user; the derived fields (`pv`, `ac`, the index, the snapshot) agree with
  what was counted; every record is finished.

The steps that are hard to test, with their lines, are the `hazards` of
`PROJECT.json`.

## 2. Modules

| Module | Models | Proofs |
|---|---|---|
| `PriceEvents` | versions, events, a batch as one event per stock | |
| `PriceRegister` | abstract: one applied event per stock, callers that hand in batches | |
| `PriceApplication` | `UpdateProfitsByStockPriceChanges` from `processPriceBatch` to the stored offset | `PriceApplicationProofs` |
| `RecordConsumer` | `runGroup` to `rewindBatch`, the DLT publisher, the group coordinator as its environment | `RecordConsumerProofs` |
| `TradeEvents` | a trade record, what one adds to a quantity and a value | |
| `TradeLedger` | abstract: trades counted once per place, then told to be processed | |
| `TradeCache` | `handleTradeRecord` to `SaveUserValuation` | `TradeCacheProofs` |
| `PriceBatch` | `handleStockMessages`: a poll becomes one request per stock | `PriceBatchProofs` |
| `PortfolioUser` (extends `TradeCache`) | `handlePortfolioUserRecord` and `UpdateUserCaches`, beside trades | `PortfolioUserProofs` |
| `Valuation` (extends `PortfolioUser`) | `applyStockPriceChanges`, beside trades and portfolio-user records | `ValuationProofs`, `UserTotalsProofs` |
| | sums of a function over a finite set | `SumTheorems` |
| `MCPriceApplication`, `MCPriceBatch`, `MCRecordConsumer`, `MCTradeCache`, `MCValuation` | symmetry sets, messages and records of the checked instances | |

`Valuation` composes the three handlers that share the `pf:` and `usr:` hashes:
its `ValuationNext` is a step of a trade worker, of a keeper (a portfolio-user
consumer) or of a pricer (a worker in a fan-out). The other detailed modules
meet through their abstract sides: `PriceBatch` makes the batches
`PriceApplication` applies (`OneRequestPerStock` is what makes a batch one event
per stock); `PriceApplication` sees a fan-out as one value per stock, `Valuation`
leaves the locks out: two pricers at one stock are a worker that has stalled past its
lock, and count as an overlap; `RecordConsumer`
takes its handler for one idempotent step, which is what `TradeCache` and
`TradeLedger` establish; `TradeCache` takes from Kafka exactly what
`RecordConsumer` allows: records in the order of the partition, redelivery of
a finished record, and a second consumer at the same record when the first
lost its session without knowing.

### PriceApplication

`pc` follows the calls of `UpdateProfitsByStockPriceChanges`: `acquire`,
`fetch`, `fanout`, `refresh`, `commit`, `release`, then `store` for the
offset. A pipeline over stocks is one step per stock, in any order, since its
commands go to different nodes; `todo` holds the stocks still to do. `lock[s]`
is a set with at most one token, `applied[s]` the applied event, `value[s]`
the event the holdings of `s` are valued with (the fan-out's reads and writes
for one stock are one step). `AcquireReplyLost`, `CommitReplyLost` and
`CallFails` leave a pipeline run in part. `RenewalFails` cancels the context
in any phase; `SeeCancelled` is the error return that follows. `ExpireOrphan`
is the TTL of a lock nobody will release, `ExpireHeld` that of a worker that is
stalled (`stalls` counts these). The key of an unanswered SETNX is not known
to the worker, as in the code, and so is freed by the TTL only. A Redis command
that takes effect after its caller has timed out is not modelled.

### RecordConsumer

A worker polls messages one by one, and the positions move at once; `stored`
and `committed` are the two stages of an offset. A partition the group has not
committed yet has `committed` 0, which is not the same as 1: `auto.offset.reset` is
`latest` for both topics (`consumer.go:86`, `89`, `166`), so a consumer that is assigned it
starts at the end of the log (`Starts`). `Init` leaves open which partitions have an
offset. `end` is the log's end as far as consumers have seen: a record is taken to be
written when a `Poll` returns it or a start passes over it, since nothing tells
before. The history variable `from` is where the last such start was; `Skipped`, what
lies before it, is not promised to be handled, and `Passed` is what is applied,
dead-lettered or skipped. The phases are those of
`processRecord`: `handle`, `publish` (to the DLT), `pause` and `wait` (for a
retry, with the stored offset committed before it), `rewind`, `commit`. In
`waitPaused` the worker serves rebalance events: `PollRevoked`, `PollLost`.
`Rewind` seeks any part of the partitions before the first one whose seek
fails, because the code walks a Go map. `Expel` is the session that expires:
the coordinator gives the partitions away, and the worker goes on until its
next `Poll`. The group protocol is the incremental one
(`KAFKA_GROUP_PROTOCOL=consumer`).

### TradeCache

One phase per Redis call of `UpdatePortfolioCaches` for one record. `turned`
is the marker of `compareAndSet` together with the result kept in it (`yes`:
the trade made the portfolio hold the stock or no longer hold it), `inPf` and
`inUsr` the markers of the two hash scripts. `Continue` is a call that returns, or
whose reply is lost and which therefore starts the handler again; `CallFails`
is a call without effect. The mapping is read (`FindUser`, phase `map`) and written
(`MapUser`, phase `enroll`) by two calls, between which other records may come. Reads
whose error the code drops (`FindUserIDByPortfolioID`, `getDec`, `hint`,
`hdecFallback`) are in `FindUser`, `ReadLegacy` and the `lost` fields of `ReadPortfolio` and `ReadUser`.

Abstractions: quantities and prices are whole numbers; of the two holding
indexes, which are written alike, one is kept; the reads of a snapshot are one
step, since each field is written back for itself; `sv`, `pr`, `ua` and the
dirty sets are left out; markers do not expire (seven days in the code); a
record without `tradeId` or `userId` and the replay of dead-lettered trades are
left out.

### PriceBatch

An iteration of either loop of `handleStockMessages` is a step: `Drop`, `First`,
`Replace` and `PassOver` are the outcomes of the first, `Build` the second.
`VersionFromWallClock` sets the Korean wall clock, which the decoder reads as
UTC, back by `KST`; versions are a second times `PerSecond` plus a sequence.

### PortfolioUser

A keeper handles one CREATED or DELETED record, call by call: `look` (who owns
the portfolio), the user's totals under the record's marker (`counted`), the
mapping or its removal, `delete` (`del = 1`), `stocks` and `wipe`
(`DeletePortfolioState`), the user's snapshot. An error goes back to `look`.
`Pipeline` carries out either part of a pipeline over two nodes and may then
report an error. `Wipe` depends on `Cluster`: on a cluster its `DEL` of two
keys in two slots is refused, every other command is carried out, and the call
returns the error; on one node the commands are carried out in order, so the
set of the stocks goes last. `Saw` is a read whose error is dropped. A trade
also writes the second index (`listed`) and its snapshot sets `del` back to 0.

### Valuation

A pricer sends the commands of a phase (`todo`) one by one, in any order, and
goes on with the next phase when all are answered. The code sends a phase for all stocks
of a batch at once; here each stock has a pricer of its own, and the users of two stocks
are saved by two steps where the code has one. The phases: holders, holdings, the
replacing script, the shown values, the portfolios' snapshots, the users'
members, their values, the totals, the users' snapshots. `plan` and `reply` are
what it carries from one phase to the next. `CutShort` ends the fan-out anywhere; the
price, not committed, comes again (`cut`). `Fetch` may take a quantity for 0: its
error may hide behind another command's Nil, since `Exec` returns the first error only,
and a Nil comes from any key or field that some stock or portfolio of the batch lacks.

Three history variables say what a behaviour has met: `cleared` (a stock's value
was removed), `torn` (a portfolio was mapped by half), `overlaps` (something was begun
while something else was at work, retries and a second fan-out at one stock included).

## 3. Runs

| Run | Question | Result |
|---|---|---|
| `price_locks` | two workers and stocks: register, lock ownership, no rollback without a stall | holds |
| `price_retry` | one stock with retries, a fault, a stall, a crash: types, `LockInv`, every batch ends, locks get free | holds |
| `price_rollback` | may holdings fall behind the applied price? | yes, after a stall past the TTL |
| `record_group` | one partition, two consumers, every kind of failure but Poll errors: nothing lost but what a start at the log's end skipped, order, progress | holds |
| `record_parts` | two partitions in one batch and an expired session, Poll errors allowed: nothing lost unless a Poll failed or the start skipped it | holds |
| `record_rewind` | the same with a revocation during a wait | a record is lost |
| `trade_ledger` | three trades, two portfolios of one user, a failed call, a crash, a redelivery: ledger, snapshots, progress | holds |
| `trade_race` | a purchase and a sale of one holding on two partitions, an expelled worker, a dropped read error | holds |
| `trade_user` | is a user's purchased value the sum of its trades? | no, with two workers |
| `price_batch` | polls of up to four messages, two stocks, with and without versions: newest event, one request, every message counted | holds |
| `valuation` | three trades, a creation, a deletion and a price, one after the other with up to three failures, crashes and redeliveries, or with one overlap or misread and one of those: types, sums of the stocks' values, totals, user, deletion, saved values | holds |
| `delete_cluster` | the deletion of a portfolio on a cluster | a quantity stays |

Bounds and why they do. Two workers are the fewest that race, and every
interference in the code is between two of them: the lock, the marker and the
assignment each tell only "mine" from "not mine". Two versions let an old
event meet a new one, and two batches let a worker come back. One fault, one
stall, one crash, one redelivery each separate a state a retry must recover
from; in each run their effects combine. One price suffices in the price runs since no
step compares prices except those of equal versions; `RegisterRefinement`
covers every price. `LogEnd = 3` in `record_group` gives a
broken record between two good ones, so that order and the DLT both matter, and one
more record than a batch takes; elsewhere 2 is enough, the second broken. In the record
runs each partition has an offset committed before or none, and a start without one may be
at any place from the end seen so far. `CasAttempts` is 2 (5 in the code): one conflict is
retried, the second makes the handler return, and `MaxZombies` 1 brings two workers
to one holding. In `price_batch` four
messages allow three of one second with one of the next or of another stock; a clock
9 seconds ahead and 2 versions to a second tell a wrong offset from a right one.
In `valuation` two portfolios of one user, one stock and one
price are the fewest with a sum to get wrong, and the sale of all of a stock's
shares is the third trade's effect on nothing but `p1`. `MaxOverlaps` 1
lets any two handlers interleave at every step, or drops one read error.
`MaxTroubles` 3 puts failures (of a call, of half a pipeline, of its reply: the
"faults"), crashes and redeliveries at every step: three where nothing overlaps, enough
to fail, retry and fail again, or for a redelivery to fail; one beside an overlap, which
takes the place of two, since two interleaved handlers with three
failures are not checkable. Overlaps are bounded
because what three interleaved handlers write is what two of them do;
`ValuesAddUp` has no such bound. The other properties of the run say
nothing once something overlapped.
`valuation` has one pricer: two at one stock, after a stall, are left to `ValuesAddUp`.
All bounds are constants of the modules, named `Max...`.
`CHECK_DEADLOCK FALSE` is set because a run stops when its bounded work is done.

In the price and record runs workers, stocks and partitions are interchangeable
and safety runs use symmetry; liveness runs do not.

## 4. Fairness

`PriceBatch` and `Valuation` are checked for safety only: that a record's handler is
called until it returns is `RecordConsumer`'s, that a price comes again is
`PriceApplication`'s.

* `PriceApplication`: weak fairness of each worker's own steps (its goroutine
  runs, and every Redis call returns or times out) and of `ExpireOrphan` (Redis
  expires keys). No fairness of faults, stalls, crashes or new batches.
* `RecordConsumer`: weak fairness of the consumer loop, of the coordinator
  assigning a free partition, and of it noticing that a dead consumer is gone.
* `TradeCache`: weak fairness of a worker's calls and of the delivery of what is
  not finished, which `RecordConsumer` establishes.

A failing call is bounded, so the liveness properties say: once failures stop,
work is finished. No strong fairness is used.

## 5. Proofs

`PriceApplicationProofs` (any workers, stocks, versions in `Nat \ {0}`, prices
and bounds):

* `TypeCorrect`: `TypeOK` is inductive.
* `LockInvariant`: `LockInv` is inductive together with `TypeOK`. That a commit never
  lowers a version is not inductive by itself: it needs that the owner of a
  lock has seen the event now applied (`OwnerSeesApplied`), for which a token in
  Redis must tell the worker's present attempt from its earlier ones
  (`TokensDrawn`), and a lock must be of a stock in the batch
  (`LocksMatchBatch`). `SeenIsPast` covers the worker that has lost its lock,
  `CommitCovers` what has been committed so far, and `NoStallInv` says
  that without a stall whoever has valued holdings still owns the lock.
* `NoRollback`, `LocksAreKept`: `NoRollbackWithoutStall` and
  `LockLostOnlyByOwnStep` from it.
* `RegisterRefinement`: every step is a step of `PriceRegister` or a stutter.

`TradeCacheProofs` (any trades of positive quantity with distinct ids, any
workers and bounds):

* `TypeCorrect`: in particular a quantity is never negative. It needs that a
  worker before its write has an attempt left (`TriesLeft`).
* `MarkersAreInOrder`: the processed key implies the user's marker, that the
  portfolio's, and that the quantity's. The inductive part is `PastMarker`: a
  worker past a call is at a trade that has the call's marker.
* `LedgerRefinement`: every step is a step of `TradeLedger` or a stutter. A script
  that finds its marker is a stutter; a snapshot leaves `cvp`.
* `PurchasedIsSum`: `PortfolioPurchased`, through any faults, crashes and redeliveries.
  The sum is not inductive: a snapshot writes back `pv` as read, so a worker between its read and its write must know the portfolio's totals
  as they are (`Knows`), for which no other worker may be at the same portfolio
  (`AloneInv`, `RecordsInOrder`, both under the premises of the property).
* `SettledIsExact`: `PortfolioSettled`. `Placed` and `Knows` say how far the worker's own
  trade is counted in each place; `AssetsInv`, that the asset count is the number of stocks held
  plus what the trades counted in a holding and not yet in the portfolio owe it. This needs
  `Covered`: a sale of what is not held owes -1 for nothing (section 6).

`RecordConsumerProofs` (any consumers, partitions, logs and bounds):

* `TypeCorrect`: needs that a consumer from `handle` to the end of a wait has a record
  in its batch (`AtRecord`), and that the earliest offset of a partition in a batch exists.
* `NothingLost`, `InOrder`: `NoRecordLostWithoutErrors` and `AppliedInOrder`, as long
  as no revocation happened or there is one partition. Both except the records that a
  start at the end of the log skipped, since the code loses those (section 6). The invariant `Safe` says where a
  record before a consumer's position is: done, skipped, or in its batch (`PositionsCovered`);
  that those before a record of the batch are done or ahead of it in the batch
  (`BatchesInOrder`), whatever stale records a batch holds after a lost session; that
  what is stored is done (`StoredCovered`). A rewind keeps it only if there is nothing left
  to read on: an expired session takes all partitions at once (`LostTogether`), so a
  consumer that rewinds has none (`EmptyAtRewind`). A revocation of some partitions is
  exactly what breaks that, as `record_rewind` shows.

`PriceBatchProofs` (any messages, any length of a poll, any clock offset and
versions to a second):

* `TypeCorrect`, `NewestKept`, `OneRequest`, `EveryMessage`, from one inductive
  invariant `Inv`: besides these properties it says that `order` lists exactly the
  stocks with an event, each once; that a request is of a stock already built; and
  that the skipped messages, the requests and the stocks still to build are as many as
  the messages read.
* `LatestSecond`: a version's second is its quotient by `PerSecond`, and division is
  monotonic (`DivMonotonic`), so the newest version is of the latest second.
* `ConflictIsOld`: `ConflictNeedsOldEvent`, under its own premise `OneVersionOnePrice`
  (the producer gives no version to two prices). The invariant knows which message
  each kept event is, so the step that counts a conflict has both events at hand.

`SumTheorems` holds lemmas only; they say nothing of the system (any function, any finite set): `SumFunctionOnSet` is a fold, which the
community modules define by a recursive function over subsets. The library's induction over
finite sets takes an operator and so cannot be used; `SumStep` is proved instead by the least
number of elements for which it would fail. `SumAdd`, `SumRemove`, `SumChange`, `SumAgrees`,
`SumRest` and `SumZero` are what follows, and every proof about totals rests on them.

`RecordConsumerProofs` also has `NothingLostAtAll`: `NoRecordLost` itself, where no Poll
fails (`MaxErrors = 0`) and there are no revocations or only one partition, which is
the run `record_group` for any number of consumers and records. `NothingSkippedOnceCommitted`
is the same without the exception: if every partition has a committed offset at the start,
no start resets (`Known`), so what is behind a commit is applied or dead-lettered, and in order.

`PortfolioUserProofs` (any trades, events, workers and keepers):
`UserTypeCorrect` and `MarkersStayInOrder` carry the invariants of `TradeCacheProofs`
over to the system with portfolio-user records, whose steps leave the trades' markers.

`ValuationProofs` (any trades, events, stocks, prices, workers, keepers and
pricers, any number of failures; no bound on overlaps):

* `ValuationTypeCorrect`.
* `ValuesAddUp`: `StocksAddUp`, with everything interleaved. Not inductive by itself: a
  fan-out adds the difference to a value which it computed from what it fetched, so
  the invariant has what its plan and its answers may hold of a missing value
  (`Planned`), that the projection of a missing value shows nothing (`Unshown`), and that
  what a trade's script adds to one is nothing (`Based`).
* `OneAtATime`: without an overlap at most one record or price is at work. `LoneInv` counts what is
  under way as the history does: a trade begun and not finished, though its
  worker died, is still at work.
* `PurchasesCountOnce`: `PurchasedOnce`. Snapshots and the answers a fan-out carries are what
  the portfolio has (`Snapped`, `Answered`), as nothing came between.
* `DeletionLeavesNothing`: `DeletedLeavesNothing`, with `Cluster = FALSE` as its hypothesis,
  since on a cluster it does not hold (`delete_cluster`). `Deleting` says, for each call of
  the deletion, what is gone by then, and that no trade and no price comes after it that
  would find something to write (`SoldOut`, `AtPrice`).
* `FanOutLeavesSaved`: `FanOutSettles`. `Fanning` says for each phase of the fan-out that
  what it has in hand covers every holder of the stock and is what is stored. That every
  holding in a stock's set has an owner, so that its user is among the fan-out's, is not
  true of every state, but of every one in which a price can start: `Backing` says that a
  holding without one has a trade or a deletion under way.

`UserTotalsProofs` (as `ValuationProofs`): `UsersSettle` is `UserSettled`. Its hypothesis
`OneUserEach` is that a portfolio's trades and events name one user. `EventsAssumption`
says so of the events alone; the code adds a trade's amount to the user the trade names and
maps the portfolio by the record that comes first (`cache.go:119`, `cache.go:218`), so two users
for one portfolio would not add up. The rest are the property's own premises: one record or
price at a time (`Orderly`) and no mapping done by half (`torn`). The invariant `AccountInv` holds
at every step in between, so it says what is still missing there:

* `Account`: a user's totals are the sums over its portfolios, up to what a trade has
  added to its portfolio and not yet to its user (`Owed`), and for the current value up to what
  a fan-out, finished or cut short, has not yet made up (`Touched`); the saved value is the
  current one unless a snapshot is still to come (`Unsaved`).
* `Registers`: a portfolio is mapped to its user or to nobody, and which of the two, whether it
  is pending and whether it is in the user's set follow from the events counted and done.
* `Serving`, `Entering`, `HasRead`: what a worker, a keeper and a fan-out hold in hand is
  what the hashes have, since nothing came between: a snapshot writes back what it read, and a
  deletion takes off what the portfolio's totals are.

`TradeAccounts`, `KeeperAccounts` and `PricerAccounts` are the steps of the three handlers; they
also use `LoneInv`, `DeletionInv`, `PurchasedInv` and `FanInv`.

Assumptions are those of the modules: `VersionsAssumption`, `BoundsAssumption`,
`NobodyAssumption`, `LogAssumption`, `PollAssumption`, `BrokenAssumption`,
`MessagesAssumption`, `UnitsAssumption`, `TradesAssumption`, `NamesAssumption`,
`CasAssumption`, `EventsAssumption`, `PricesAssumption`, `StocksAssumption`, and the
hypotheses named above.

Only model-checked: the liveness properties, as temporal reasoning under fairness
and ENABLED is outside what the prover does. What the four runs of section 6 violate
is proved only in the form, or under the hypotheses, that hold of the code.

## 6. What the checks found

* `record_rewind`: `rewindBatch` (`consumer.go:541`) gives up at the first failed
  `Seek`; the other partitions of the batch are not read again.
* `price_rollback`: the fan-out (`profit.go:225`, script at `store.go:174`) is
  not fenced; a worker stalled past the TTL puts an older price over a newer
  one. `NoRollback` proves that this is the only way.
* `trade_user`: `SaveUserValuation` (`store.go:464`) writes back a purchased
  value that another worker has incremented meanwhile. For one portfolio the
  same write is harmless as long as one worker at a time is on it and no read
  error is dropped (`PortfolioPurchased`).
* `delete_cluster`: `DeletePortfolioState` (`store.go:370`) deletes two keys of
  different slots with one `DEL`. A cluster refuses it, the same pipeline removes the
  set that names the stocks, and the retry, which finds none, succeeds: quantities and
  current values of a deleted portfolio stay.

Known from the code and kept out of the properties' premises rather than shown
by a run of its own:

* until a group has committed an offset for a partition, each new owner starts at the end of its
  log (`consumer.go:166`; `docs/tasks/kafka-retry-dlt/04-result.md:122` names it for an owner that dies).
  The model shows it for a revocation and an expired session too: a record at hand, given back to
  be read again, is skipped. `NoRecordLost`, `AppliedInOrder` and `AllRecordsDone` except what was
  skipped (`Skipped`), and nothing else;
* `fetchBatch` (`consumer.go:214`) forgets polled messages when a Kafka error
  follows them (`NoRecordLostWithoutErrors` excepts it);
* `DecreaseStockQuantity` (`idempotent.go:116`) reports the end of a holding
  also when there was none, as after a purchase that went to the DLT; the portfolio's asset
  count is lowered and stays one too low (`PortfolioSettled` excepts short sales by `Covered`);
* a sale that ends a holding removes all of the stock's value but only the amount
  from the portfolio's (`idempotent.go:173-185`; `StocksAddUp` excepts such portfolios by
  `cleared`);
* a fan-out saves a portfolio's purchased value and count over a trade made since, and a
  user's likewise (`store.go:479`, `store.go:496`); a trade at work around a fan-out is counted twice in the
  user's value until the next price; a CREATED record and a first trade at the same
  time may count the totals twice; a trade after DELETED maps the portfolio
  again: `PurchasedOnce`, `UserSettled` and `DeletedLeavesNothing` hold
  without overlaps, and only then;
* a mapping done by half leaves a portfolio out of its user's set
  for good (`store.go:400`; `UserSettled` excepts it by `torn`).

## 7. Plan

Done: the price application, the record consumers, the trade cache (the
order was that of the damage a fault does: prices, lost records, double counts), then
the portfolio-user records, the fan-out and the choice of a poll's events.

Proved since: every safety invariant and action property the passing runs check, the
type invariants among them, and the refinements of `PriceRegister` and `TradeLedger`.

What is left is with TLC alone: liveness. A finer model would have to split what is one
step now: the time a marker lives, and the handler inside `RecordConsumer`.

## 8. Not modelled

`price_gap.go` only reads and sets gauges. `EnsureTopics` is one idempotent call
before the consumers start. `main.go`, health endpoints, configuration and
metrics hold no state the properties depend on. JSON decoding is left out: a
message is an event or broken.
