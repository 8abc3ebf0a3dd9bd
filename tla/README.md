# pocket-settlement-monitor: TLA+ models and proofs

The monitor follows a Pocket Network chain through a CometBFT node, stores the
events of settlement blocks in SQLite, keeps hourly and daily summaries of them,
exports Prometheus metrics and posts Discord notifications.  This directory holds
TLA+ modules of its core, TLC configurations that check them on small instances,
and theorems checked by TLAPS.  Paths below are relative to `src/`.

- Parse: `tlasany M.tla`
- Check: `tlc -workers 2 -config X.cfg M` (the table of runs says which)
- Prove: `tlapm M.tla`, for the modules `SubscriberProofs`, `CollectorProofs`,
  `BackfillerProofs`, `MonitorProofs`, `ProcessorProofs`, `BlockEventsProofs`,
  `NotifierProofs` and `BackfillCommandProofs`

`PROJECT.json` lists components, runs, mutants, the source lines of every
definition, findings, hazards and theorems.

## 1. Inventory

| Component | State | Operations | Talks to | Correct means |
|---|---|---|---|---|
| subscriber (`subscriber/subscriber.go`) | connection, `lastSeenHeight`, backoff | `Run`, `subscribeAndProcess`, `receiveLoop`, `emitBlockEvents`, `reconnect` | node (WebSocket, header RPC); collector through a bounded channel; backfiller through `onGap`; metrics callbacks | no skipped height unreported; no settlement block lost under back-pressure; reconnects; stops when canceled |
| event decoder (`subscriber/decoder.go`) | statistics | `DecodeBlockResults` | subscriber, backfillers | the six settlement event types and nothing else |
| collector (`processor/collector.go`) | height and events gathered, safety timer | `Run`, `flush` | channel; `ProcessBlock` | one height per flush; nothing lost, repeated or reordered; the last block is not left waiting |
| processor (`processor/processor.go`) | none of its own | `ProcessBlock`, `dispatchMetrics` | store, reporter, metrics, notifier | insert before metrics before report before notification; a failed report does not fail the block |
| converter, filter (`processor/converter.go`, `filter.go`) | supplier set | conversion, overservice correlation | processor | rows carry what the events say |
| reporter (`processor/reporter.go`) | `knownServiceIDs` | `ReportBlock`, `RecalculateSummariesForRange` | store | summaries equal the aggregate of the raw tables |
| store (`store/sqlite.go`) | raw tables, `processed_blocks`, four summary tables | `InsertBlockEvents`, upserts, period queries, `LastProcessedHeight`, `RunRetentionCleanup` | all writers, on one connection | idempotent inserts; a usable watermark; only expired rows deleted |
| backfiller (`cmd/backfiller.go`) | gauge of remaining blocks | `RunIfNeeded`, `BackfillRange` | node (RPC), `ProcessBlock`, reporter | a completed range is stored; every backfill ends; blocks are counted once |
| height resolver (`cmd/height_resolver.go`) | none | `resolveFromHeight`, `resolveToHeight`, `findFirstBlockAtOrAfter` | node (status, headers) | the first block at or after a time; terminates |
| monitor (`cmd/monitor.go`, `cmd/cmd_monitor.go`) | errgroup, context | `Run`, `shutdown`, callbacks | all of the above | no height seen is forgotten; shutdown completes; a restart resumes |
| backfill command (`cmd/cmd_backfill.go`) | none | `runBackfill` | resolver, node, `ProcessBlock`, reporter | as the backfiller, and it may run beside the monitor |
| notifier (`notify/notifier.go`) | channel, trackers of hour and day | `NotifyBlock`, `checkSummaryBoundary`, `enqueue`, `senderLoop`, `sendWithRetry`, `drain`, `Stop` | processor, store, Discord | each message accounted for once; one summary per period; `Stop` returns |
| embeds (`notify/discord.go`), operational notifier (`cmd/ops_notifier.go`) | none | formatting; fire-and-forget posts | notifier, monitor | layout; a slow webhook holds the subscriber up and nothing else |
| metrics, HTTP server (`metrics/`) | counters, readiness | `Record...`, `/ready`, `/health`, `/metrics` | all | counters only move for live blocks and agree with the tables; readiness follows the connection; a failing server ends the process in order |
| configuration, query and version commands, output, logging | none after startup | reading, SQL reads, printing | user | input and output |

### How they interact

The errgroup of `Monitor.Run` holds the subscriber, the collector and
`RunIfNeeded`; an error of one cancels the context of all.  Subscriber and
collector meet at the events channel, which the subscriber closes when it
returns.  A gap makes the subscriber call `onGap`, which starts one
`BackfillRange` goroutine that is in no errgroup and ignores the cancellation.
Collector and backfills call the same `ProcessBlock` on the same store, with a
transaction for the raw rows and separate statements for every summary row.  Live
blocks start a `NotifyBlock` goroutine each; one sender goroutine posts.  A
retention goroutine deletes old rows every hour.

### What is hard

1. Two sources for one chain, a lossy WebSocket and RPC ranges, must together
   cover every height and count none twice.
2. Back-pressure: a slow database fills the channel, then the client's.
3. Failure of one goroutine while others wait for it, and Go's random choice among
   ready `select` cases around the cancellation.
4. Crashes with `MAX(height)` as the only watermark.
5. Read, add and write of summary rows in separate statements by several goroutines.
6. Rate limits, retries and a drain timeout in the notification sender.
7. Recalculation, retention and re-processing of the same days.
8. A binary search on a chain that grows and is pruned meanwhile.

`PROJECT.json` lists these as hazards at their lines.

## 2. Plan

The modules, the most important behaviour first:

| # | Module | What it is |
|---|---|---|
| 1 | `Subscriber`, `SubscriberProofs` | receive loop, gap detection, emission, reconnection |
| 2 | `Collector`, `CollectorProofs` | gathering and flushing |
| 3 | `BlockPipeline` | abstract: what is stored is what was sent, in order; `Collector` implements it |
| 4 | `Backfiller`, `BackfillerProofs` | `RunIfNeeded` and `BackfillRange` |
| 5 | `Monitor`, `MonitorProofs` | composes 1, 2 and 4 by `INSTANCE`, adds shutdown, crash and restart; the proofs compose theirs |
| 6 | `Readiness` | extends 1 with the state callback, its post, `/ready` and the metrics server; it implements 1, and its proofs are in `SubscriberProofs` |
| 7 | `Processor`, `ProcessorProofs` | writers of raw tables and summaries, statement by statement |
| 8 | `BlockEvents`, `BlockEventsMC`, `BlockEventsProofs` | one block from its events to its rows and counters |
| 9 | `Notifier`, `NotifierProofs` | boundary checks, channel, sender, drain |
| 10 | `HeightResolver` | the binary search |
| 11 | `Retention` | hourly cleanup against storing and backfilling |
| 12 | `BackfillCommandProofs` | proofs about 10 and 11, which the backfill command rests on |

What is left, in this order:

- An abstract chain log ("every settlement height at or above the first one seen is
  pending, stored or given up, and moves forward only") that Monitor implements;
  today `LiveAccounting` states it as an invariant.
- `NextDelay` as an operator, with its float and its shift, against a reference
  definition over bounded inputs.
- Schema creation and migrations of the store.

## 3. Modules and the code

Common conventions: a block is its height; history variables (marked `history`) only
serve the properties; definitions marked `mutant` are plausible bugs, used only to
show that each property can fail.

**Subscriber.**  `phase` is the program point of the one goroutine.  `wire` is the
client's result channel, `events` the output channel.  A flow: `SubscribeOK`, then
`Receive` (take a block, ask for its header), `HeaderDone` (gap check, advance
`lastSeenHeight`, `onBlock`), `Emit`, or `EmitBlocks` when the channel is full and
then `Emit` or `EmitAbandoned`.  `Disconnected` is the common end of `ChannelClosed`,
`HeartbeatTimeout` and `ConnectFails`: stop if canceled, else close, back off,
resubscribe.  The node (`Commit`, `Publish`, `ConnectionLost`) is external: it drops
results, and a fresh connection may be to a node up to `MaxLag` behind.  Delays are
nondeterministic, so the jittered backoff leaves no trace.

**Collector.**  `TakeSame`, `TakeOther`, `TimerExpires` and `SafetyTimeout`,
`ContextDone`, `ChannelClosed` are the branches of the `select`; a flush is a call
that begins there and an answer (`FlushOK`, `FlushFails`) during which the subscriber
keeps sending.  A final flush runs under `context.Background()`, the others under the
collector's context.

**BlockPipeline.**  The collector's promise without timers, heights in hand or errors:
`Store` appends to the database the next batches sent, all of one height.  The
refinement mapping in `Collector` (`P`) reads `handled` as what is stored, everything
else as not yet stored.

**Backfiller.**  `startup` is `RunIfNeeded`, `tasks` the `BackfillRange` goroutines in
the order of `gaps`.  Every fetch may fail; after `Retries` retries the startup
backfill returns an error and a gap recovery is abandoned.

**Monitor.**  Shares variables between instances of the three modules.  `EmitStep` is
the subscriber's `Emit` and the collector's `Send` at once; `FlushStep` is the
collector's `FlushOK` and `Process` on the database.  `Restart` keeps the database
and the chain and resets the rest; `Shutdown` closes the database when all of the
errgroup has returned.  `Faults` selects what goes wrong.

**Readiness.**  A subscriber's step that changes the connection ends in the state
callback (`telling`): first the gauge, `wsConnected`, then the flag of `/ready`
(`SetFlag`), then, for a first connection and a disconnection, a post (`PostEnds`);
only after it the subscriber goes on.  Meanwhile the collector takes and processes
blocks, and the first one processed sets the flag (`Processed`, with
`firstBlockOnce`).  `Server.Start` returns in three ways: Serve has failed
(`ServerFails`), or the server was stopped because of the cancellation (`ServerStops`),
in good order or after five seconds with a handler of `/ready` still at work.  `probing`
is such a handler, or one of a server that failed; while the server serves, handlers
come and go and change nothing.  `Shutdown` comes when all of the errgroup has returned,
and closes SQLite; only then is the server stopped again and the process over
(`ProcessEnds`).

**BlockEvents.**  One block and its tables.  `decodeBlockEvents`, `Match`,
`SettlementRows`, `correlateOverservice` are the code's functions on records; the loops
that append what they keep of a slice are `SelectAt`, a recursive function.  `Inserted`
says which rows of a statement's loop INSERT OR IGNORE lets in: those whose key neither
the table nor an earlier row has.  A transaction is one step, since the store has one
connection.  Writers
are the collector, a gap recovery that counts as live, and any backfill.  A restart
may change the supplier list.  The properties say by quantification over the events
what the tables hold.

**Processor.**  A writer is a goroutine that processes blocks; each step is one
statement or transaction.  Summary rows are counts, standing for all their columns
that are accumulated; `active_supplier_count` is counted anew at each write and left
out.  `Recalculate` reads whole days and `ReplaceRow`
replaces row after row.  Inserts are idempotent, accumulation is not: that is the
code's.  A block in `Delayed` has the wall clock for its time when it is live
(subscriber.go:258), and the time of its header when it is backfilled.  A row of the raw
tables has its true hour, which is what the reporter groups by, and `written`, the hour
that the text stored for it names (sqlite.go:187): for a wall clock these are `ZoneOffset`
hours apart.  `ForPeriod` compares the text, as the queries do (sqlite.go:752).  A block
is taken to lie past the first second of its hour, since at that second itself the
comparison also depends on how the offset is spelled.

**Notifier.**  `jobs` are the `NotifyBlock` goroutines, `last` the two trackers,
`sender` and `draining` the program point of the sender.  A post under a canceled
context fails at once.

**HeightResolver.**  `Halve` and `SkipPruned` are the two outcomes of a round.  The
node commits and prunes between any two calls.

**Retention.**  Hours for times; a block is the claims of one hour.  Cutoffs are
strings in the local zone compared with UTC, hence `ZoneOffset`.  Blocks have the time
of their header; those with a wall clock are left to Processor.

## 4. Runs

| Run | Module | Expect | What it shows |
|---|---|---|---|
| SubscriberLagging | Subscriber | pass | `GapCoverage`: no height between two seen escapes gap detection, with losses, reconnections and nodes two blocks behind. `EmissionAccounting`: back-pressure loses nothing. `CancelStops`, `Reconnects`, `EventuallyEmitted` under fairness |
| ReadinessServer | Readiness | pass | `ReadyAgrees` (flag and gauge differ in one way only), `ReadyHeals`, `ServerFailureStops` (the process ends in order, whoever fails, posts or is asked for `/ready`); SQLite is closed only when subscriber, collector and server have returned, and a handler outlives that only after a failed Serve or a timed-out stop (`ReadyTypeOK`); without lag, `NoFalseGap` (recovered and live heights are disjoint) and `OrderedEvents` |
| BlockEventsReplay | BlockEventsMC | pass | `StoredExactly`, `RewardsBelong`, `OverserviceAgrees`, `CountersMatchRows`, `ReplayChangesNothing`, over every block of up to three events |
| CollectorFlush | Collector | pass | `OneHeightPerFlush`, `Conservation` (stored, gathered, held, queued = sent), `RefinesPipeline`, `EventuallyHandled` |
| BackfillerRanges | Backfiller | pass | `CompleteMeansStored`, `StartupClosesGap`, `RangesEnd`, `StartupEnds` |
| MonitorFaults | Monitor | pass | `LiveAccounting`, `CountedOnce`, `RestartRecovers`, `ShutdownCompletes`, with every fault and one restart |
| MonitorRestartHole | Monitor | violation | `GapClosedAfterRestart` |
| ProcessorSummaries | Processor | pass | `LiveSummaries`, `RecalculationRepairs`, also with blocks stored under the wall clock of a host that is not in UTC |
| ProcessorConcurrent | Processor | violation | `ConcurrentSummaries` |
| NotifierQueue | Notifier | pass | `MessageAccounting`, `SummariesExact`, `StopReturns` |
| HeightResolverSearch | HeightResolver | pass | `SearchCorrect`, `SearchEnds` |
| RetentionCleanup | Retention | pass | `KeepsWindow`; `SummariesKept`, in the days a backfill leaves alone; `SummariesCoverRaw`: wherever cleanups fall in a backfill, a summary does not fall below its raw rows |

A module's `TypeOK` also bounds what the code bounds (channel capacities, number of
attempts, loop ranges).  Those of Processor and Notifier and `ReadyTypeOK` are checked
by the runs and proved; those of Subscriber, Collector, Backfiller and HeightResolver are
proved (section 5) and not run.  Deadlock is checked in every run; the states where a
component has rightly ended stutter by an action of their own (`Terminated`, `Idle`,
`Exited`, `Stopped`, `Returned`, `AllFinished`, `Over`, `Ended`, `Finished`).

### Bounds and why they are enough

- Heights: with four, a first block can be seen, a block skipped and a later one
  arrive, which is the least a gap takes; ReadinessServer takes five, so that a gap
  and live blocks on both sides of it fit, and no lag, which its order properties need.  Backfiller needs no gap
  detection and takes three heights, two disjoint gaps and every initial database.
- Channels of capacity one or two are full after one or two sends; nothing in the
  code depends on the capacity but being full.
- `MaxLag = 2` takes `lastSeenHeight` back by more than one block.
- `Retries = 1` (Monitor: 0) distinguishes trying again from giving up; the code only
  compares the attempt with its maximum.
- `MaxSessions = 2`: one crash and one restart; what a third process finds, a
  database and a chain, is what the second may find.
- Four batches of three heights make the collector flush by height change twice and
  meet a repeated height.
- Processor: two blocks per hour and two hours per day give a new row, a row shared
  by blocks, and a day with a block outside the backfill; one already stored block is
  backfilled again and accumulated in another day than its row is in.  Initially any summary row may or may not count what is stored.
- BlockEvents: blocks of up to three events from nine, among them two claims with one
  UNIQUE key, two overservice events of one pair, a coin and an attribute that do not
  parse; two calls, which may be by the same writer, at once or one after the other;
  one restart; no supplier list or one of a single supplier.  What a third call finds
  is a table, as the second does.
- Processor, `Delayed` and `ZoneOffset`, with days of blocks 1-3, 4-7 and so on: block 3 is
  stored under the wall clock, which takes it from day 0 to day 1, and is backfilled;
  block 5 is stored in the last hour of day 1 under a text of day 2, since the host is one
  hour ahead of UTC, and the recalculation of day 1 misses it; block 6 is live only and
  goes from day 1 to day 2.  So rows of both kinds occur, those `RecalculationRepairs`
  speaks of and those it excepts.  The zone two hours ahead was checked
  once with the same outcome, and so was the zone one hour behind UTC, with `MayFail`
  FALSE (a configuration cannot hold -1, so it needs a module that defines it).
- Notifier: channel of two, six messages, one retry, three hours in two days.
- HeightResolver: all ascending times up to 5 of four blocks, all requests, all
  prunings.
- Retention: seven hours with days of three and a retention of one hour, so that all
  three cutoffs (one, three and six hours) pass over rows.

### Fairness

- Subscriber: weak fairness of the goroutine's own steps; strong fairness of the
  `ctx.Done` branch, since a `select` chooses at random among ready cases and cannot
  pass one over for ever; the heartbeat timer fires on a silent, drained connection;
  the collector takes blocks while the context is live; strong fairness of a
  successful subscription, as `reconnect` retries without limit.  No fairness for the
  chain, the network, nor for the collector after cancellation.
- Collector, Backfiller: the goroutine runs, calls return (each RPC call and
  transaction succeeds or fails, delays elapse).
- Readiness: that of Subscriber outside the callback; the callback runs, its post ends
  (the client has a timeout of ten seconds), the collector and `ProcessBlock` go on,
  `Server.Stop` returns within its timeout and the shutdown is done.  Nothing has to
  fail, and no handler has to answer.
- HeightResolver: the resolver runs and its calls are answered; a failing call may
  end it earlier, but its end does not depend on one.
- Monitor: the same for each member of the errgroup; gap recoveries get none, and
  shutdown does not need any.
- Notifier: the sender runs, posts have a timeout, and so does the drain.  Nobody
  owes a message.

## 5. What is proved

By TLAPS, for every value of the constants the module's assumption admits:

- Subscriber.  `TypeCorrect` (`Spec => []TypeOK`), with channel capacities.
  `CoverageHolds` (`Spec => []GapCoverage`): it is not inductive; `CoverInv` adds
  `SeenInv`, that `lastSeenHeight` is a height really seen, and 0 exactly until the
  first.  Only `HeaderDone` touches these variables; there, every height up to the new
  one is covered because the old `lastSeenHeight` is in `delivered` and the range
  between is in the new gap.  No assumption about lag.  `EmissionHolds`.
  `NoFalseGapHolds` and `OrderedHolds` (`OrderedEvents`), for `MaxLag = 0`:
  `OrderInv` says that all that was seen, reported or sent is at or below
  `lastSeenHeight` (`SeenBehind`, `EventsBehind`), and all on the wire is above it,
  ascending, and not beyond the node (`WireAhead`).
- Readiness (also in `SubscriberProofs`).  `ReadyImplementsSubscriber`
  (`ReadySpec => Spec`): every step of the callback, the collector, the server and the
  shutdown is a step of Subscriber, its cancellation, or a stutter, so that the
  theorems above hold of it too (`Spec` has no fairness; that is in `FairSpec`).
  `ReadyTypeCorrect` (`ReadyTypeOK`: SQLite is closed when the goroutines of the errgroup
  have returned, and only a handler that a failed Serve or a timed-out stop left behind
  may still want it) and `ReadyAgreesHolds`
  (`ReadyAgrees`), from `ReadyInv`, which adds that the gauge follows the program point
  of the goroutine and that a callback in progress tells what the gauge says (`Told`).
- Collector.  `TypeCorrect`, `OneHeightHolds`, `ConservationHolds` from
  `IInv == TypeOK /\ OneHeightPerFlush /\ Conservation /\ Holding`, where `Holding`
  says that a batch is held beside those gathered exactly during a flush its height
  caused.  `PipelineRefined` (`Spec => RefinesPipeline`): under `IInv` every step is a
  `Send`, a `Store`, an `End` or a stutter of BlockPipeline; that what a flush stores is
  of one height (`OneHeightPerFlush`) and the next in order (`Conservation`) is what
  makes `FlushOK` a `Store`.
- Backfiller.  `TypeCorrect`, `CompleteHolds` (`CompleteMeansStored`) and
  `StartupClosesHolds` (`StartupClosesGap`).  The invariant adds that all heights
  between the start of a loop and its position are in the database
  (`StartupProgress`, `TaskProgress`), that the startup backfill began where
  `FromHeight` says, and that gaps are ranges (`GapRanges`).
- Monitor.  `LiveAccountingHolds`, `RestartRecoversHolds` and `CountedOnceHolds`, for
  every set of faults and number of restarts.  The proof is compositional: the
  proof modules of the three parts are instantiated, every step of the monitor but
  `Restart` is shown to be a step or a stutter of each, and so their invariants hold
  here (`Parts`: `CoverInv` of the subscriber, `IInv` of collector and backfiller).
  `Whole` adds how the parts meet: what the collector has was seen by the subscriber
  and carries settlements, a channel is closed only after the cancellation
  (`Meeting`), and a gap recovery works on its gap (`TasksAreGaps`).  With it
  `LiveAccounting` is inductive: a height leaves the pipeline or a recovery only into
  the database, a new one is `lastSeenHeight` itself or in the gap before it.
  `RestartRecovers` follows from it and `StartupProgress` without an induction of its
  own.  `CountedOnce`, for `MaxLag = 0`, needs `OnceInv`: what is still on its way has
  not been counted (`Counted`), and the collector gathers, holds and is sent ever
  greater heights (`InLine`), so that a height it stores is not there again.
- Processor.  `TypeCorrect` (`TypeOK`), for any interleaving of two writers and any
  failures.  `RecalculationHolds` (`RecalculationRepairs`): `Repairing` says that
  each row to be repaired is still to be replaced or already equals the aggregate of
  the raw rows; nothing is assumed about the rows before.  It holds for every
  `ZoneOffset`, but speaks only of summary rows whose raw rows are all stored under a text
  of their own day (`WrittenInDay`), which is what the query needs to find them; wall
  clocks of a host that is not in UTC are excepted where the zone takes them across
  midnight (section 6, `RecalculationExact`).  `LiveHolds`
  (`LiveSummaries`): between the statements of a report the rows are neither the old
  nor the new aggregate; `Tallied` bounds each by the claims of the blocks before the
  current one, plus those of the current one in the rows already visited.  It has a
  hypothesis, that no block the collector receives is stored yet
  (`LiveBlocks \cap InitialRaw = {}`, as in the run): one that is stored, which a node
  may repeat after a restart, is accumulated again.
- BlockEvents.  All five properties: `StoredExactlyHolds`, `RewardsBelongHolds`,
  `OverserviceAgreesHolds`, `CountersMatchRowsHolds` and `ReplayChangesNothingHolds`, for
  blocks of any length, any supplier lists and any number of calls and restarts.  First,
  what the loops compute.  The library's induction theorems take an operator as a
  parameter; `NatSets`, induction as a fact about sets of naturals, follows from
  the naturals being well-founded and takes none.  With it `Recursion` shows that a step
  can be repeated (so that the recursive function exists), and `Selected` that `SelectAt`
  returns the elements at the positions chosen, as many as there are positions.
  `InsertIs` is INSERT OR IGNORE: afterwards each row's key is in the table, once, and a
  row that is new had no key there; it needs the earliest of the rows with one key
  (`LeastOf`).  Then the invariant `IInv`: a writer has the block's events once or twice
  (`Types`); each row is made from an event that is due, each due event has a row with
  its key, and no key has two (`SettlementsHold`, `OverservicesHold`,
  `ReimbursementsHold`); rewards are those of the claim their settlement was made from,
  all of them (`RewardsHold`); and what is counted once is the number of events that pass
  the list (`CountersHold`).  None of the properties is inductive: `StoredExactly` counts
  rows only if the keys are distinct, which `IInv` does not suppose, except for the
  counters.  Numbers of rows and of events are equal by a bijection (`SameNumber`).
- Notifier.  `TypeCorrect` and `AccountingHolds` (`MessageAccounting`), however many
  `NotifyBlock` goroutines run.  `InHand` adds that there is a message in hand exactly
  while one is posted or waits for a retry, and that it waits only if an attempt is left.
  `SummariesHold` (`SummariesExact`, which speaks of `MaxConcurrent = 1` and blocks in
  chain order) for all lengths of hour and day: `Exact` says that only the highest
  processed block is active (`InTurn`), that one waiting for a summary asked for the
  period its tracker is at (`Asking`), that the tracker is at the latest period
  checked (`Tracks`), and that the summaries made are those of the other periods
  checked (`Listed`).
- HeightResolver (in `BackfillCommandProofs`).  `ResolverTypes` (`ResolverSpec => []TypeOK`): no header is asked for outside
  the chain.  `SearchHolds` (`ResolverSpec => []SearchCorrect`), by the loop invariant
  `LoopInv`: all blocks below `low` are too early or pruned, and `high` is late enough
  once it has moved.  Pruning only weakens the first part, commits do not touch it.
- Retention (also there).  `CoveredHolds` (`SummariesCoverRaw`), in any time zone: the raw
  cutoff is five periods above the one of daily rows, and a day starts less than
  `HoursPerDay` before its hours.  `Covers` says of every day that its row counts what is
  left of it, also where nothing is, and that an hour can have its block counted twice
  only in the days of a running backfill; that needs `Uncounted` (what was never stored
  is not counted) and `Progress` (a backfill is within its range, so that its blocks lie
  in no spared day).  `WindowHolds` (`KeepsWindow`) and `SummariesHold` (`SummariesKept`),
  where local time is UTC or behind it (`ZoneOffset <= 0`; with a zone ahead both fail,
  section 6): `cleaned` never decreases and no cutoff is above `cleaned` minus its
  periods, so what a past cleanup owes is kept by every later one; and a backfill and its
  recalculation leave the days outside its range alone.

The only assumptions are those on the constants (`...Assumption` in each module), which
TLC evaluates in the runs, and the hypotheses named (`ZoneOffset <= 0`,
`LiveBlocks \cap InitialRaw = {}`).  A property that begins with a condition on a
constant (`MaxLag = 0`, `MaxConcurrent = 1 /\ ~CatchUp`) is proved as it stands.

Only model-checked:

- All liveness properties: they need fairness and `ENABLED`, which the prover does not
  support.
- The two properties of the runs that expect a violation, which do not hold.

All safety properties of the passing runs are theorems, in `...Proofs` modules beside
their components (Readiness in `SubscriberProofs`, HeightResolver and Retention in
`BackfillCommandProofs`).

## 6. Known deviations

Statements of the documentation or of comments that the models refute.  The first
two have runs; the others are stated in the modules and fail with the constants
given here (with the others as in the passing run of the module).  A dash stands for
what a reader may expect, although the repository does not state it.

| Property | Statement | What the code does |
|---|---|---|
| `Monitor!GapClosedAfterRestart` | docs/gap-recovery.md:58 | `LastProcessedHeight` is `MAX(height)`, and live blocks are stored above a gap still being filled; a process that ends in between starts again above the hole |
| `Processor!ConcurrentSummaries` | docs/database-schema.md:154 | summary rows are read, added to and written in separate statements; live and backfill lose updates |
| `Notifier!ShutdownDrains` | docs/architecture.md:78 | the sender's context is canceled before `Stop`; it returns without draining |
| `Collector!ShutdownFlushes` (`StoreMayFail = FALSE`) | docs/troubleshooting.md:265 | after the cancellation the `select` may take a block of another height, and flush the one before under the canceled context |
| `Backfiller!CountersOnlyLive` | docs/gap-recovery.md:83 | with a live catch-up threshold gap recovery counts recent blocks (as a comment in the code says) |
| `Backfiller!ZeroMeansCaughtUp` | docs/gap-recovery.md:95 | a recovery that gives up sets the gauge to 0 |
| `Monitor!GapClosedAtStartup` (`Faults = {}`) | docs/gap-recovery.md:21 | a block committed after the backfill's `Status` call and before the first block on the WebSocket is in neither path |
| `Monitor!ReadBeforeLive` (`Faults = {}`) | docs/gap-recovery.md:16-18 | `RunIfNeeded` and the subscriber start together; a live block may be stored before the watermark is read |
| `Processor!MapIsSafe` | docs/database-schema.md:154 | `knownServiceIDs` is written by one goroutine while another iterates over it |
| `Notifier!CompletedPeriods` (`CatchUp = TRUE`) | notify/notifier.go:315 | any block of another hour than the last counts as a boundary, an earlier one too |
| `HeightResolver!LastBlockOfDay` | cmd/height_resolver.go:132 | of a day that has not ended, the last block so far is left out |
| `Retention!SummariesKeptByBackfill` | docs/troubleshooting.md:76 | recalculation from raw rows of which part is deleted replaces the daily row with the remainder |
| `Retention!KeepsWindow` (`ZoneOffset = 1`) | docs/database-schema.md:160 | the cutoff is in local time, rows in UTC; a zone ahead of UTC deletes younger rows |
| `Processor!RecalculationExact` (`ZoneOffset = 1`, as in the run) | processor/reporter.go:341-344 | rows stored under the wall clock of a host that is not in UTC carry its offset, and the query compares text: a day is recalculated without those whose text is of another day, or one of another day is found and replaces that day's row |
| `Readiness!ClosedUnread` | - | a handler of `/ready` that outlives a failed Serve or the five seconds of `Server.Stop` finds SQLite closed, and answers 503 if it still can |
| `Readiness!ReadyMeansConnected` | README.md:357 | `/ready` is no check of the WebSocket while `blockCountingProcessor` may set its flag: the first block processed after a disconnection answers 200 until the next connection |
| `Processor!NoPhantomRows` (`BackfillBlocks = {3}`) | docs/database-schema.md:154 | a block stored under the wall clock is accumulated at the hour of its header when it is backfilled; that hour has no raw row, and recalculation leaves its summary |
| `BlockEvents!NothingIgnored` | - | the UNIQUE key of settlements has no service: of two claims that differ in it only, the second is ignored |
| `BlockEvents!EventCountCurrent` | - | processing a block again with a wider supplier list adds rows, `event_count` stays |
| `BlockEvents!CountedOncePerBlock` | - | a block that a lagging node repeats is gathered twice and counted twice, and stored once |

Three more are about statements no model needs: docs/metrics-reference.md:53 calls
`psm_last_processed_height` the latest height in SQLite, but it is set when a block is
received (cmd/cmd_monitor.go:165) and by every processed block (processor.go:209), so a
backfill sets it back; the order of shutdown in cmd/monitor.go:140-145 stops the server
last, but `Server.Start` stops it as soon as the context is canceled; and
`metrics.enabled` changes only what the validation asks for: the server starts anyway.

`RestartRecovers` and `JoinedOn` in Monitor say how much of the gap guarantee does
hold: what is above the watermark is recovered whenever the watermark was read before
a live block was stored and the WebSocket's first block follows on the backfill's last.

## 7. Not modelled

- Embed formatting, SQL reads for the query commands, command line, configuration,
  output and logging: data without control; read once, or only printed.
- Of the converter, the columns that are only copied and the floating-point estimate of
  the difficulty; of the decoder, its statistics, which are logged.
- Of the metrics, those that no property needs; the models have `wsConnected`,
  `liveCounted`, `remaining`, `counters`, `sentTotal` and `errorTotal`.
- The operational notifier's posts outside the state callback: goroutines that post
  once and keep no state.
- Opening the database, pragmas, schema creation.
- The second context of each RPC call: a call that times out is a call that fails.
- Memory effects of data races beyond `MapIsSafe` and the notifier's trackers.
