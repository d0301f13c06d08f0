# A verification project for the trade bot

TLA+ modules, TLC configurations and TLAPS proofs for `core/` of this
repository, a C++ bot that trades perpetual futures through the MetaScalp
terminal, and for the state of its browser dashboard. Source paths are relative
to the repository, lines to the present commit. `PROJECT.json` maps every
definition to the lines it translates.

## 1. The system

| Component | State it keeps | Operations | What makes it correct |
|---|---|---|---|
| `executor/LiveExecutor` | `trades_` per ticker, `closed_trades_`, `reserved_balance_usd_`, mark prices | `submit`, `on_order_update`, `on_position_update`, `tick`, `close_trade`, `cancel_all`, `pop_closed_trades`, `inject_recovered_trades` | a position is tracked, has a stop, and is recorded once |
| `trading/OrderReconciliator` | `pending_`, `by_ticker_` | `enter_submit_unknown`, `resolve_order`, `poll_open_orders` | an ambiguous submit is resolved by an order that matches, or times out, never early |
| `transport/OrderGateway` | none of its own (HTTP client) | `place_order`, `cancel_order`, `cancel_all_orders`, queries | a failed call may have taken effect; callers must allow for it |
| `risk/RiskManager` | trade and loss histories, streak time, funding times | `evaluate`, `record_trade_end`, `update_funding_time` | no accepted plan breaks a rule, whichever threads evaluate |
| `risk/NewsCalendar` and its watcher | a snapshot of events; an inotify watch, the hang-up flag | load, reload on an edit or SIGHUP, lookups | the calendar is the file's, whoever edits it and how |
| `risk/AccountStatePersister` | the state file, its lock, a temporary file | `save` by write, fsync, rename; `load` | a start finds the last saved state, whole |
| `app/BotApp` | `AccountState` | `tick` at 1 Hz: reset, executor, closed trades, save | each closed trade moves the account once; a restart does not raise a limit |
| `control/KillSwitch`, `handle_kill_switch_` | triggered flag, marker file | `trigger`, ordered shutdown | it ends, and leaves no position unknown |
| `control/ClockDriftMonitor`, `SntpClient` | samples per server, average, state | start, stop, poll, query | the drift it reports is the clock's, up to the delays of the answers |
| `executor/StartupRecovery` | none | match positions and orders to saved trades | every position has a trade after a restart |
| `executor/PaperExecutor` | entries, positions, closed trades | the same interface, simulated fills | the same life of a trade |
| `app/PipelineProcessor` | queues, registered tickers | socket thread pushes, processor thread pops | the book is the exchange's, unless something named was lost |
| `transport/BeastWsClient`, `MarketDataFeed` | connection, timer, write queue, subscriptions | connect, reconnect, read, write, subscribe, resubscribe | everything wanted is subscribed again |
| `transport/MetaScalpCodec`, `Discovery`, readers of `OrderGateway` and feeds | none | messages to records | a field is read by the key of its dialect, defaulted, or the message is dropped, as its readers expect |
| `marketdata/OrderBook`, `TradeStream` | the book; a ring of trades with four windows | updates, snapshots, trades | sums are those of the trades inside the window |
| `signals/DensityDetector`, `TapeAnalyzer`, `IcebergDetector`, `LevelDetector`, `LeaderSignal` | large levels; tape frames; refills at a price; extremes, levels and approaches; histories of a ticker and its leader | book updates, trades, frames | a signal is true of the book and of the trades |
| `signals/SignalLevelBridge`, `NotificationFeed` | levels on the terminal | place and remove, terminal messages | bot and terminal agree on the levels |
| `universe/TickerUniverse`, affinity handler | pool, affinities, entry times; controllers | new coin, refresh, override | strategies run where they are enabled, and trade only stable tickers |
| `strategy/StrategyEngine` and four strategies | recent signals, active plan, watched trade | signals, frames, ticks, accept, reset | one plan at a time with prices in order; an open trade is watched |
| `dashboard/DashboardServer`, `src/dashboard/` (browser) | pending and current state, sessions with write queues; a store, chart buffers | updates, ticks, merging, broadcast; decode, merge, reconnect | a browser shows the present in the end and never goes back |
| `FinresHandler`, external feeds, logger, metrics, journal, configuration, tools | figures, output, parameters | | see section 6 |

Four kinds of thread meet: the **socket** thread (`ioc_`), which is also the
**main** thread of `BotApp::tick`, timers and notifications; the **processor**
thread, which updates books, runs detectors and frames and so emits most plans;
the **dashboard** thread, which closes, cancels and overrides. The path of a
trade: book and trades become signals, a strategy emits a plan, the lambda at
`BotAppInit.cpp:657` asks `TickerUniverse::is_affinity_stable` and
`RiskManager::evaluate`, the executor submits, the exchange's updates come back
through `MarketDataFeed`, `tick` and `close_trade` may close, closed trades reach
`process_closed_trades_` through the processor's queue, which calls
`record_trade_end`: the gate depends on how often the executor records a trade.

What is hard: mutexes are released around HTTP calls and callbacks, so what was
decided under the lock is stale when it is done; a POST that throws may have
arrived; an update may precede the reply that names its order; orders are first
recognised by side, type and size; every exit must place, replace or remove a
stop, and each call may fail; snapshots overtake queued updates; rings and
windows subtract what they once added; saved state is up to 10 s old; a file is
edited while it is read; updates for a browser are merged and dropped.
`PROJECT.json` lists each hazard at its line with the properties about it.

## 2. Modules

| Module | Source | Kind |
|---|---|---|
| `OrderReconciliator` | `trading/OrderReconciliator.{hpp,cpp}` | model |
| `LiveExecutor`, `MCLiveExecutor` | `executor/LiveExecutor.cpp`, `trading/ActiveTrade.hpp`, calls of `OrderGateway` | model with an exchange, instances |
| `TradeLifecycle` | what `executor/IExecutor` promises | abstract specification |
| `PaperExecutor`, `MCPaperExecutor` | `executor/PaperExecutor.cpp` | model, implements `TradeLifecycle` |
| `Strategies` | `strategy/*` | model |
| `Dashboard` | `dashboard/DashboardServer.cpp`, `app/BotAppRun.cpp` (frames), `src/dashboard/src` (worker, decoder, stores) | model of server and browser |
| `MCExecutorShown` | `LiveExecutor`, `Strategies`, `Dashboard` | instance, side by side |
| `RiskManager` | `risk/RiskManager.cpp`, lookups of `NewsCalendar` | model |
| `Journal` | `risk/AccountStatePersister.cpp`, its callers | model with a file system |
| `News` | `risk/NewsCalendar.cpp`, the watch of `BotAppInit.cpp`, `SignalHandler` | model with an editor |
| `ClockDrift` | `control/ClockDriftMonitor.cpp`, `SntpClient.cpp` | model with time servers |
| `MCRiskManager` | the four modules before | instance, side by side |
| `Session`, `MCSession` | `app/BotAppRun.cpp`, `control/KillSwitch.cpp`, `AccountStatePersister.cpp`, `executor/StartupRecovery.cpp`, the closed-trade queue of `PipelineProcessor` | composition, instances |
| `Market` | `transport/BeastWsClient.cpp`, `MarketDataFeed.cpp`, `app/PipelineProcessor.cpp`, `marketdata/OrderBook.cpp`, subscription part of the affinity handler | composition |
| `Wire` | `transport/MetaScalpCodec.cpp`, `Discovery`, the readers of `OrderGateway` and `MarketDataFeed` | model of messages |
| `Densities` | `signals/DensityDetector.cpp`, `OrderBook`, `TickerController` | model |
| `Tape` | `marketdata/TradeStream.cpp`, `signals/TapeAnalyzer.cpp`, trade windows of `FeatureExtractor` | model |
| `Icebergs` | `signals/IcebergDetector.cpp` | model |
| `Approaches` | `signals/LevelDetector.cpp` (extremes, clusters, approaches) | model |
| `Leader` | `signals/LeaderSignal.cpp`, `CircularBuffer`, price changes of `FeatureExtractor`, the frames of `PipelineProcessor.cpp` | model |
| `Levels` | `LevelDetector` (rebuild), `SignalLevelBridge.cpp`, `transport/SignalLevelGateway.cpp`, `NotificationFeed.cpp` | model with the terminal |
| `Plans` | how each strategy prices and fills a `TradePlan` | model |
| `Universe` | `universe/TickerUniverse.cpp`, affinity handler and plan gate of `BotAppInit.cpp` | model |
| `MCSignalSide` | the nine modules before | instance, side by side |
| `PollerProofs` (`OrderReconciliator`, `Dashboard`), `RiskManagerProofs` (`RiskManager`, `Journal`, `News`, `ClockDrift`), `PaperExecutorProofs`, `LiveExecutorProofs`, `StrategyProofs` (`Levels`, `Universe`, `Strategies`, `Icebergs`, `Plans`), `MarketProofs`, `SessionProofs`, `SumProofs` (sums, maxima, products, quotients) | | theorems |

In every model one action is one critical section. Where the code unlocks, the
action ends, and the local variables that survive the unlock are a state
variable:

* `poll_open_orders` is `PollBegin` / `PollFetch` / `PollApply`; the server's
  open orders change in between.
* `submit` is `SubmitBegin` (reserve) / `PostArrives` / `SubmitReturns` or
  `SubmitThrows`; `tick` is `TickDecide` (under the lock) / for each close, unlocked,
  `TickCancelStop`, `TickCancelTp`, `TickCloseMarket`, `TickRecord` / `TickRearm`,
  then `PollResolves` or `PollTimesOut` (no candidate until the deadline, or a fetch
  that throws once it has passed), and `HandleReconciled`. A gateway call inside a handler has several outcomes
  (accepted; threw before or after it took effect), so handlers are operators
  that yield sets of outcomes and thread the exchange through the calls; a loop
  over trades (`ForEach`) threads it from one trade to the next.
* `evaluate` is `EvaluateBegin` (clock read, R1-R9), then under `mtx_` one of
  `EvaluateRate`, `EvaluateCooloff`, `EvaluateLate`, `EvaluateAccept`. What R10
  dropped and R11 reset stays so when a later rule rejects, as in the code.
* `PaperExecutor::tick` takes its list of tickers in one step and ticks each in
  another, with the book read twice.
* In `Session` the main thread's tick is `TickBegin` / `TickExecutor` /
  `TickDrain` / `TickSync`, the shutdown goes through `KillCancel`, `KillFetch`,
  `KillClose`, `KillPoll`, `KillDeadline`, `KillExit`; `Crash` loses what is not
  on disk. `StartupRecovery::run` is a step per call: `BootPositions`, `BootOrders` for
  each ticker, `BootTicker` (which may place an emergency stop), `BootCancel` for each
  orphan, `BootDone`; orders fill (`UnseenFill`) between any two of them, and a call
  that throws ends the start (`Crash`).
* In `Journal` a save is open, write, rename and sync, one system call a step,
  against a crash, a loss of power and a second instance; in `News` the watcher's
  event, reload and swap are steps between which an editor writes, moves or
  deletes the file.
* In `Market` the handlers of the websocket client (`TimerFires` ... `ReadUpdate`)
  run on the main thread, which blocks them while it fetches a REST snapshot; the
  affinity handler, also on the dashboard thread, enables and disables a ticker in
  several steps, and the processor's `ProcessUpdate` interleaves with both.
* In `Strategies` a signal is `Publish`, a frame of the processor `EngineFrame`, the
  engine's tick on the main thread `Tick`; the callback of a plan is `Deciding` /
  `Accepted` or `Rejected` / `Notified`, between which the other thread runs.
* In `Levels` `on_level_formed` is `MakeRoom` / `RemoveVictim` / `Create` /
  `Find` / `Insert` on the processor's thread against `HandleMessage`.
* In `Universe` changes are collected in one step and handed to the handler one
  by one (`FireAffinityChange`), by the main and the dashboard thread.
* In `Leader` a message, the frame made of it and the frame handed on are three
  steps of the processor, each under the mutex of one controller, between which the
  main thread delivers snapshots; the time of a frame is a clock that may be set back.
* In `Dashboard` the main thread builds and sends a frame, the dashboard thread
  merges, broadcasts and writes, and the browser receives, decodes and stores.

Data is abstracted to what decides control. Prices in the live executor are the
choices they decide (slippage beyond the limit, a plan the mark invalidates); a
shape in the reconciliator is side, type, price and size up to the tolerances;
in `RiskManager` prices, sizes and balances are exact integers and basis points
are cross-multiplied (rounding of `double` is not modelled); prices of the paper
executor are integers; in `Plans` a price of the market is any fraction of a tick,
a plan's price a whole tick, offsets and scales exact fractions; `Market` keeps which levels exist and not
their sizes, `Densities` and `Icebergs` ticks and sizes; a state on the dashboard
is the number of the tick it was built in, per group of fields; a message in
`Wire` is which keys it has, under which dialect, and whether one of them is
missing, null, zero, of the wrong type, or a text as long as a time; the CUSUM, medians, correlations, the numeric
conditions of strategies on a frame and the clustering of levels in `Levels` are
free choices. The server, the terminal, the file system, the time servers and the
market are external and modelled from how the code uses them.

## 3. Runs

| Run | What it asks |
|---|---|
| `reconciliator` | `IndexConsistent`, `NoEarlyTimeout`, and `EveryIntentSettled` for two ids, two tickers, two shapes, one server order |
| `risk_gate` | two threads at the gate: `SlidingRateLimit`, `CooloffRespected`, `SizedWithinLimits`; the state file through crashes, power losses and failing writes: `JournalWhole`; the news file while it is edited, moved and deleted: `CalendarFollows`; clock polls with delayed answers: `DriftJudged` |
| `executor_lifecycle` | one plan with a TP1, all operations, partial fills, one failing call: `RecordedOnce`, `ClosedIsFinal` |
| `executor_twins` | two equal plans on one ticker: `EntryIdUnique`, `FillsKnown` |
| `executor_quiet` | two tickers, no failing call: `TrackedExposure`, `Protected`, `ReservationCovers`; signals, frames and ticks of two threads for two strategies: `PlanPacing`, `BounceWatched`; server and browser: `BrowserCurrent`, `NeverBack` |
| `executor_protection` | two failing calls, updates before replies, no id in the reply: `FilledGetsProtected`, `UnknownSettled` |
| `session` | one restart or failing call over two days, with fills between the calls of a recovery: `PnlConserved`, `ExitRemembersPositions`, `RecoveryOwnsExchange`, `KillTerminates` |
| `kill_closes_nothing` | violated: see section 4 |
| `paper_executor` | a long and a short plan on a ticker, books that jump: `TakeProfitGains`, `NothingOverdue`, and `Lifecycle`, the refinement of `TradeLifecycle` |
| `market` | reconnects, lost writes, a full queue, snapshots by two ways: `BookFaithful`, `Resubscribed` |
| `hot_path_silent` | violated: see section 4 |
| `signal_side` | `ReadsTrue` (messages), `SignalsTrue` (densities), `TapeExact`, `EatenWasTraded` (icebergs), `ApproachesJudged`, `LeaderMeasured`, `LevelsAgree` (levels and terminal), `PlansTradable`, `StrategiesAgree` (universe) |

`Protected`, `FillsKnown`, `TrackedExposure`, `LevelsAgree` and `BrowserCurrent`
are stated for quiet states, in which every message has been delivered: in
between, the program cannot know. `risk_gate`, `executor_quiet` and `signal_side`
check several models side by side in one run: they meet only in signals, messages
and lists which each model chooses freely, so `part` picks the one that takes
steps, and a part that is idle stays at one initial state.

**Bounds.**

* *Reconciliator*: backoff 1, cap 2 and timeout 2 let an intent be polled,
  postponed to the cap and timed out before the clock stops at 3; two ids on one
  or two tickers are what the index can get wrong.
* *Risk gate*: windows of 1, a limit of 2 and a cooloff of 2 fit twice into a
  clock of 3; each history reaches its capacity of 2.
* *Files and clock*: two instances, two saves and two breaks (every pair of a save
  cut short and a start); four edits and two hang-ups (an edit before, during and
  after a reload); averages of two samples, two servers, datagrams that take 0 or
  the timeout of 4, five offsets around both thresholds, a field of 64 seconds that
  wraps in the middle of a run.
* *Executor*: one plan shows the races of all threads on a trade, two plans the
  confusions between trades; four orders are an entry, a stop, a TP and one
  replacement or close, six leave room for retries.
* *Session*: one plan of two lots with a take-profit for one, one mishap (a
  restart at any point, or any one gateway call that fails; a recovery may be cut
  short by a crash besides), two days, drains
  after one event where the code has 5000, one retry and two polls in the shutdown.
* *Paper*: a clock of 2, timeouts of 1, three quotes so that the market can jump
  over entry, stop and target.
* *Strategies*: a bounce and a leader strategy with their signals, three fresh
  signals, two orders, windows scaled to 0..2.
* *Dashboard*: one browser, two coins, write queue of 2, at most three ticks and
  four events (selections, icebergs, broken connections): every merge of a full
  state with fast ones, every frame lost at the queue's limit.
* *Market*: one ticker (books share nothing but the queue), two prices a side,
  write queue, processor queue and wire of 3, 2 and 2, so that each of the first two
  overflows, and three events of two changes, one fault, one new controller;
  controllers end at any time, so one ticker is left and entered again.
* *Wire*: one message at a time, of every kind and dialect (position updates under
  the contract's names too, an offset of 05:30 with and without its colon), at most one
  faulty field, lists of up to two items: readers keep nothing between messages.
* *Densities*: four ticks of which two change, sizes up to 3, four market events,
  a clock of 3 against `sticky_duration` 2.
* *Tape*: a ring of 2 trades with two windows, four events (the ring is full after
  two), a clock of 2. *Icebergs*: two ticks, six events, a clock of 2.
  *Approaches*: seven frames over four mids, enough for two extremes, a level of
  two touches, an approach and its end. *Leader*: histories of 3,
  five messages (the leader's history wraps before the follower's first frame), a
  clock set back by 2. *Levels*: one level allowed on the terminal, so every second
  one evicts, three ids, two rebuilds, one change by others, one fault.
* *Plans*: three price grounds (so that rounding to ticks weighs little, some and
  much), four prices above each, in thirds of a tick, three volume scales (a half, one
  and two and a half), at most two remembered signals
  and three signals and mids together.
* *Universe*: three tickers for a pool of two, three coins, one override, a stable
  time of 2 on a clock of 3.

`CHECK_DEADLOCK FALSE` wherever plans, events, edits or days are finite: the
environment may stop. `risk_gate` uses thread symmetry, sound for its safety
properties.

**Fairness.** `EveryIntentSettled` needs polling that goes on and a clock that
advances: `LiveExecutor::tick` polls every ticker with pending intents at 1 Hz
(`LiveExecutor.cpp:645-671`); the fetch may fail every time. The executor's
liveness assumes that websocket messages are read, that the 1 Hz tick runs
(strong fairness for re-arming and polling, which other parts of a tick disable
for a moment) and that an HTTP call returns (curl has a timeout). `KillTerminates`
assumes that the main thread goes on with its tick and its shutdown and the
processor with its drain. `NothingOverdue` assumes the ticks of the main thread
and the clock, at a weak fairness each. Nothing makes a price move, an order
fill, the exchange cancel or a call succeed.

## 4. What the code does not do

Two runs end in a violation, each against a sentence of the repository:

| Run | Behaviour |
|---|---|
| `hot_path_silent` | `process_event_` looks for `Ticker`, `Updates`, `Trades` and `Price` at the top of a message, where the documented envelope has only `Type` and `Data` (`METASCALP_API_CONTRACT.md:107`): once the processor runs, no update reaches a book (`PipelineProcessor.cpp:244`) |
| `kill_closes_nothing` | the shutdown cancels first, which takes every trade out of `Open`, and then asks `close_trade`, which closes only open ones: positions stay (`BotAppRun.cpp`, kill sequence) |

The passing runs leave situations out by name where the code is known to
misbehave: `HttpFirst` (updates after replies), `swept` and `badClose` in
`RecordedOnce` (trades that `cancel_all` swept or whose market close threw), one
plan for `UnknownSettled`, no failing call and no invalidation for
`EntryIdUnique` (see below), the named losses `lost` in `BookFaithful`, `unseen` in
`SignalsTrue`, `astray` in `LevelsAgree`, `adrift` in `StrategiesAgree`, `missed` in
`CalendarFollows`, `unsure` in `JournalWhole`, `strayed` in `ApproachesJudged`, a
trade `matched` twice in `EatenWasTraded`, `missed` and `torn` in `BrowserCurrent`.

Found while reading or modelling and checked by no run:

*Live executor.* A second ambiguous submit is refused, all intents having local
id 0 (`:134`). A fill reported before the POST returns finds no trade (`:116`).
An unknown stop update is claimed by the first trade of the ticker (`:285`). TP1
filled while the average price is unknown leaves no stop (`:408`), its profit is
not recorded and `executed_size` not reduced. `cancel_all` during
`EmergencyClosing` records twice (`:152`). A trade that `tick` closes stays
`EmergencyClosing` and is never purged. A partly filled entry is not cancelled
when its stop fires (`ARCHITECTURE.md:362` says it is). `handle_reconciled_`
compares side and size over all tickers; a market close may be taken for the
entry of an opposite trade (`:244`); an ambiguous submit releases its reservation
twice (`:133`, `:713`).

*Gate and account.* The value cap comes after the `min_size` check, so a size
below the minimum, or 0, is accepted (`RiskManager.cpp:236`). A loss recorded
after the cooloff but before the next `evaluate` re-arms the breaker. R12 looks
ahead only, where `RISK_MANAGEMENT.md` says before and after; R13 is silent
between the funding moment and the next announcement, and its only source,
`tick_controllers_`, has no caller; R15 needs a mark price nothing writes. R3 and
R4 see positions as of the last tick, without pending entries. Equity is
overwritten by `equity_accumulator_` (`BotAppRun.cpp:105-115`), which takes a PnL
for equity. A daily reset not saved before a crash is repeated; losses wait for
5000 events before the account sees them (`PipelineProcessor.cpp:157`).

*Recovery and persistence.* Only the first saved trade of a ticker is recovered;
positions are fetched before orders, and an order that fills between the calls
(`StartupRecovery.cpp:29, 38, 92, 168`) leaves a position without a trade (an entry), a
trade of the wrong size (a stop, a take-profit), or a trade that has adopted an order
that is gone and is never armed again: `RecoveryOwnsExchange` allows a ticker its first
two when such an order filled (`Missed`), and nothing else; a stale stop id makes recovery cancel the
live stop as an orphan (`StartupRecovery.cpp:159`); a `cancel_order` that throws
ends the start; the saved state lacks `opened_at`, `entry_client_order_id`,
`valid_until` and more; it is saved every 10 s, where a doc says 5. Recovered
trades have no controller until their ticker enters the pool; recovered paper
positions, opened at the epoch, are closed at once by the no-progress timeout.

*State file.* A recovered trade's `opened_at` is the epoch, for the state does not
hold it, though `STRATEGIES.md:170-172` lists only `plan.valid_until` and
`frame_at_entry` as runtime-only: the first tick with a mark price may close it as
NoProgress or FollowThrough (`LiveExecutor.cpp:515-545`). A short `write()` is
taken for success (`AccountStatePersister.cpp:76`) and the torn file replaces the
good one; a directory that cannot be opened is not synced, unnoticed; a null (as a
NaN is written) or a missing required key makes `load` drop the whole state, its
kill flag too; a `rename` that throws ends the program.

*News.* An edit between the parse of `load` and `inotify_add_watch` is missed
(`BotAppInit.cpp:446`); a file absent while events are handled is never watched
again; if the first load fails nothing is watched and no SIGHUP handled.

*Clock.* `set_kill_switch` has no caller, so a drift above `max_clock_drift_ms` is
only logged, where `RISK_MANAGEMENT.md:252` and `TASK_SPECS.md:362` say that the
kill switch is triggered. An answer delayed one way errs by up to half of the
1500 ms timeout, more than the maximum of 500 ms, so a right clock can be judged
off; stratum and origin of an answer are not checked; samples of opposite sign
cancel; between the two thresholds a triggered monitor is not re-armed.

*Market data.* Updates longer than 8192 bytes are skipped by both paths.
`register_ticker` is called while the processor runs, though
`PipelineProcessor.hpp:108` forbids it. `connect` resets the reconnect delay, so
there is no backoff; replacing the stream aborts the new read and may reconnect
every second; the read buffer is not cleared after an error; an overflow pops the
message that is being written, and its completion then pops one that was never
sent. After a ticker is disabled and enabled again, its new snapshot may overtake
updates from before that are still queued, which then undo what the exchange did
not send in between, until the next resync (the loss `unsent`). The processor keeps pointers to a controller that is gone.

*Strategies.* `active_trade_info_` of a bounce is not cleared when its trade ends
by stop or target, and may later close another strategy's trade
(`StrategyEngine.cpp:98`); a rejected plan of the other three clears the watch of
their open trade; `LeaderLag` stops watching after 5 s (`:124`); a close requested
while the entry is pending is lost; `FlushReversal` takes eaten asks for the
continuation of a flush down (`:154`); plans made in `on_signal` bypass the regime
check (`:137`); `on_frame` and `tick` of the engine are not locked against adding
and removing.

*Densities.* A level that shrinks below the threshold, or that a snapshot changes,
stays tracked with its old size and side and may still be announced
(`SIGNAL_DETECTION.md` §1: "if still present in book"); a tick that changes its
side by a resize keeps its old one; two stacks displace the single `last_stack_`
and are announced every frame.

*Levels.* The bridge may exceed `max_server_levels` (foreign levels, lost
replies); a failed DELETE leaves an orphan; a late entry after a trigger or removal
leaves a phantom; without an `Id` the level found by price may be another's; a
trigger is published twice (its own message and a notification); nothing subscribes
again after a reconnect of the notification feed; a `placed` message makes the level
the oldest, the first to be evicted; no caller passes `current_mid`.

*Threads.* `tick_controllers_` has no caller (`BotAppRun.cpp:398`): frames come with
updates only, the 500 ms refresh of `TickerController::tick` is hardly ever needed,
and its `ticker_stats_cache_` stays empty, so the affinity filters see no statistics
(`BotAppInit.cpp:1062`). `SignalBus` calls itself single-threaded
(`SignalBus.hpp:12`), yet the main thread publishes `LevelBreak` for the terminal
while the processor publishes: a signal may wait for the other thread or be
delivered beside it.

*Universe.* The first screener coin after the fallback drops every fallback
ticker without a callback: strategies stay in the engine but cannot trade; a coin
that returns gets its strategies twice; the operator's disable is undone by the
next refresh; a controller may be erased between a plan's gate and its submit;
disabling the leader's own strategies erases the leader's controller; with more
approved coins than `max_pool_size` the newest may be dropped for good.

*Tape.* Once the ring of 65536 trades is full, a window that a trade finds empty
keeps its tail at the head for ever: the overwritten trade is subtracted twice and
the new one never expires (`TradeStream.cpp:40-49, 78-89`, against its comment at
`:39`). The CUSUM of TapeFade grows below the gate and is not reset, so a burst
that lifts the peak over the gate is announced as a fade at its highest rate
(`TapeAnalyzer.cpp:106`). A first frame without trades may be a buying burst.
Snapshots do not refresh `last_pre_trade_mid_`. `price_change_1s` falls back to the
oldest mid after a gap and is -100 % for an empty book (`FeatureExtractor.cpp:136`).

*Icebergs.* A trade in the join window is counted by every update of its level
(`IcebergDetector.cpp:63-108`); snapshots do not refresh `last_sizes_`; pruning lets
a level be announced again. *Approaches.* They are kept by the tick of a centroid: a
rebuild that moves it leaves one open and announces a second; the conditions of
time, distance and volume of `SIGNAL_DETECTION.md:450-463` are not in the code.

*Leader.* For negative shifts the lag is computed from unshifted samples
(`LeaderTracker.cpp:91-108`), against "[-K..+K] sample shifts" (`:68`); the
correlation is over all samples where `SIGNAL_DETECTION.md:592` says 60 s; nobody
reads the decorrelation alarm; samples are not "at a fixed cadence":
one is pushed per frame, and a message of trades without a readable side hands the
leader's last frame on again (`PipelineProcessor.cpp:412`); the leader's mid is
paired with the follower's last frame, however old; `LeaderMove` is published with every frame while it lasts.

*Plans.* Price changes are percent (`FeatureExtractor`), which `LeaderLag` and the
bounce take for fractions, a hundred times too strict; `set_universe` is called
only by a tool, so thresholds by tier are dead; `nearest_support` and
`nearest_resistance` are never set, so the anchor of the bounce stop never acts;
`LeaderLag` does not skip a plan whose risk rounds to zero (R6 rejects it). The target
of a flush may be its entry: at a level of 800 2/3 ticks a buy has entry 801, stop 800
and target 801, since only entry and stop are compared (`FlushReversal.cpp:194`);
`PlansTradable` says so (reward at least the risk less a tick) and asks of the others a
reward of at least the risk.

*Wire.* `METASCALP_API_CONTRACT.md:151` says that a `position_update` carries
`PositionId`, `parse_position_update` requires `Id` (`MetaScalpCodec.cpp:248`): such
updates are dropped. `handle_trade_update_` reads sides only as numbers and
`handle_mark_price_update_` the key `Price` (`PipelineProcessor.cpp:387`) where the
contract (`:160`) and the feed (`MarketDataFeed.cpp:439`) have `MarkPrice`. An
answer 200 without its list is an empty list; a null `OrderId` reads as 0. A time is
read without a look at its digits (`MetaScalpCodec.cpp:122-138`), so any text of 19
characters or more makes one, and an offset "+HHMM" is misread (`Misread`, `:174`):
`ReadsTrue` allows another time in these two cases and for the field at fault only.

*Dashboard.* A full update replaces the list of icebergs, so one may never be shown,
against the comment that the last ones are kept; an iceberg after a moved-from
`pending_state_` broadcasts a blank state; `update_state` and `push_iceberg_event`
write `current_state_` without a common lock; a full queue pops the message being
written and its completion one never written; a session whose handshake is not done
may be dropped and stay without updates; the selected coin is read twice for a frame
(`BotAppRun.cpp:279, 357`); a coin without controller shows the book of the one
before (`:377`); a binary fast frame empties the density history
(`DashboardServer.cpp:511`); the kill-switch toggle changes only what is displayed.

*Twins.* With a failing call or an invalidation two plans of one ticker, side and
size may claim the same entry order: the result of a reconciliation goes to the
first `SubmitUnknown` twin, and an update of a partly filled entry whose trade is
`EmergencyClosing` to the other one. Met when `EntryIdUnique` was to be proved.


## 5. Proofs

TLAPS checks every theorem for all values of the constants, under the named
assumptions of the modules, which TLC evaluates in the runs:

| Assumption | Says |
|---|---|
| `ConfigAssumption` | backoffs and timeout are naturals, the first backoff is positive and not above the cap |
| `RiskConfig`, `RequestShape` | limits positive, capacities not below the counts they serve, prices and lots integers |
| `PaperAssumption`, `TargetAssumption` | shapes of plans and quotes; a plan's target lies beyond its entry by at least the slippage |
| `InstanceAssumption` | plans are a sequence of tickers, sides and positive sizes, with or without TP1; bounds are naturals |
| `JournalAssumption`, `GivenAssumption`, `InstancesAssumption` | bounds are naturals, states are sets of fields, no process is called nobody |
| `NewsAssumption` | bounds are naturals |
| `MarketAssumption` | prices are finitely many integers, capacities and bounds are positive |
| `SessionAssumption` | tickers are a finite set of numbers, profits integers, limits and intervals positive, bounds naturals |
| `DriftAssumption` | the window has a slot, the timeout is even, and the true time of a poll lies between half an era and an era and a half of NTP seconds (1968 to 2104) |
| `IcebergsAssumption` | sizes, windows and bounds are naturals |
| `PlansAssumption` | a tick has at least one grain, markets are positive, scales lie within the clamp of `volume_scale_factor` (0.15 to 5), signals are of the four kinds a plan looks at |
| `StrategiesAssumption` | strategies and climates are the four and the three of the code, timeouts, windows and bounds are naturals |
| `DashAssumption` | the leader's coin is a coin, "no coin" is none; the write queue holds at least two; bounds are naturals |
| `UniverseAssumption` | candidates are tickers, suitable strategies are strategies; pool size and stable time are naturals |

*Reconciliator.* The inductive invariant is `TypeOK /\ IndexConsistent /\
PollInPast /\ BackoffBounded`. `PollInPast` says that the clock of a running
poll was read before: without it the step that expires intents could not show
that one re-registered during the fetch has waited long enough.
`IndexConsistent` is needed for typing, `PollApply` erases through the index.
`TypeCorrect`, `IndexAlwaysConsistent`, `TimeoutNeverEarly`,
`ResolvedAlwaysFromServer`, `BackoffAlwaysBounded` and `LateEntriesStayUntouched`
follow.

*Live executor.* `ExecInv` has five parts. The exchange is sound: ids are given
in order and every update, waiting or delayed, is about an order that exists and
tells no more than happened to it. Trades are well formed, name existing orders,
and the trade of a plan is in one ticker's list, once (`TradesOK`). A submit that
landed has no trade yet (`LandedOK`). The books agree (`BooksOK`): for each plan
the records in the journal, in the closed queue and those that the running `tick`
has still to write are at most one together (`Due`), and none while the trade is
neither closed nor being closed; only plans swept by `cancel_all` or with a failed
market close are outside. What `tick` decided is about trades that exist
(`ActsOK`), and so is an answer of the reconciliator (`ResultOK`). `RecordedOnce`
speaks of the journal alone and is not inductive: between `TickDecide` and
`TickRecord` a record is due that is nowhere yet, and an update or a close in
between must not write a second one. Each action is reduced to one change of one
trade with the records it writes (`Changed`, `OneDealing`), or to a loop over the
trades (`ForEach`), a recursive function whose existence (`TurnsExist`) and
invariant (`TurnsOK`) are proved by induction over the position in the list.
`NoRevival`, shown for every step beside the invariant, gives `ClosedIsFinal`.

Two more invariants stand on `ExecInv` and on a calm exchange, where no call throws
(`Calm`): the update that says an order is done is the last one of it (`Ordered`), so an
order can be `Gone`, and stays so through every call a handler makes (`Onward`). No
handler but `on_order_update` changes what a trade has claimed (`Keeps`), and that one
as `Taken` says. `ClaimInv` then says of every two trades of a ticker that the earlier
one, unless it is closed, has not the later one's entry, and if it has none would not
take it (`Apart`); and that a trade being closed by market has an entry that is gone, so
that the order it leaves to its twin is no longer there to be taken (`Claimed`).
`EntriesClaimedOnce` follows: a trade can only take an order that every earlier one has
passed over. `OwingInv` says that `reserved_balance_usd_` covers the plans whose POST
is in flight and, beyond what `ReservationCovers` asks, those whose trade still awaits
the end of its entry (`Owing`): only they give something back, and each only its own
size (`TakenOwing`). Both theorems name what the code does not survive: after an
exception an intent is reconciled by side and size alone and the reservation is given
back although the order may be there; a trade that the mark price invalidates before the
last update of its entry passes that update on to its twin; `cancel_all` and the timeout
of a reservation give back what the end of the entry gives back again. TLC finds each
of these when `MaxFaults` or `Operations` of the run allow it.

*Risk gate.* `SlidingRateLimit` is not inductive: `RateInv` adds that
`trade_history_` is the end of the sequence of all accepted plans, never longer
than the limit, and that what it has forgotten is older than the window *now*,
which is where a clock read before the lock would do harm if it could be late
(`TypeOK` has it: a waiting call holds a time in `0..now`). The plan `MaxTrades`
before a new one is then always a forgotten one. `CooloffRespected` needs
`StreakInv`: `loss_history_` is an end of all trade ends since the last reset,
and what it lost is outside the window or beyond a capacity that no streak
needs, so every streak of the full history is seen (`StreakIsSeen`); the armed
time is the last streak's unless that one's cooloff is over, which is what makes
one thread's reset harmless to another with an older clock.
`AlwaysSizedWithinLimits` needs `PassedStatic` (a call waits for the lock only
with a plan that passed R1-R9) and that division rounds down.

*Files.* `JournalInv`: at most one instance works, the one with the lock
(`OneWorks`); each file that may survive is whole and holds a state that was given
to a save (`FilesWhole`); a save under way has the newest state and puts it where
the next step expects it (`SavesNewest`). What a crash or a loss of power leaves
is then one of two whole files. `NewsInv`: the calendar of a watcher that rests,
or is about to swap, is of the file's last edit, unless an event or a signal
waits or the edit was missed by name.

*Paper executor.* `IInv` is `TypeOK /\ Sound`: a position's stop and target keep
their distance to its entry through the shift of a market fill, plans waiting and
plans open are submitted ones, and a plan is in one place only. `TakeProfitsGain`
needs it because the target fires on a quote read apart from the one that gave the
fill. `ImplementsLifecycle` is the refinement: the status of a plan is `Stage`, and
every step of the executor lets each plan stay or make one of the moves of
`TradeLifecycle` (lemmas `KeepsMoves`, `ClosesMoves`, `SubmitMoves`,
`CancelAllMoves`, `InjectMoves`, put together in `StepLife`), with `OneOpenHolds`
for the limit of one open plan per ticker.

*Levels.* `LevelsAgree` speaks of quiet states. The invariant behind it says of
each level, at any time, that reading the queued messages one after the other,
from the bridge's view or from the first message that leaves no choice, ends with
the terminal's view (`Synced`); and, for the HTTP calls during which messages are
handled, that a removal is in the queue or was heard (`RemovalsTold`, `AllWiped`),
that a snapshot comes before what follows it (`SnapshotFirst`) and that what the
call is about to enter is still true (`Ready`).

*Universe.* `InStep`: for each strategy and ticker at most one change is
collected and not handed over, and the number of such strategies in the engine is
what the affinity says or what the change will make it, or the pair is `adrift` by
name. `TradesAreStable` uses that a ticker's stable time starts when it enters the
pool (`SinceEntered`).

*Strategies.* `EngineInv` holds what two threads between a plan and its callback
need of each other. While an order is within its strategy's entry timeout the plan
it came of is still `active_plan_`, with just the time left (`PlanKept`), so the
strategy proposes nothing; a thread on its way to the risk manager or to the
callback has a plan of this second (`FreshPlan`) and is the only one for its
strategy (`Apart`), which has no young order then and, if it is the bounce, no
order whose close it has not asked for (`NothingElse`); a thread about to call
`on_plan_accepted` carries the id of the one bounce that is not watched yet
(`AboutToWatch`). Neither property is inductive alone. Frames, fills and ends are
steps that make no plan (`Stays`), signals and ticks reduce to one
(`MakesPlan`, `PlanMade`).

*Dashboard.* `DashInv` follows one update on its way: from the tick along the
strand, `pending_state_`, the state being broadcast and `current_state_`
(`Follows`, `BoxOK`), through the session's queue (`FrameOK`) to the browser's
store (`ViewOK`). No stage has figures newer than the one before it, which is what
keeps a browser from going back (`HeavyUp` has it for the journal, up to an
iceberg's broadcast of a moved-from state). `Latest` says that a session with a
broadcast since it joined has the server's state in its store or as the last
message of its queue, and `LatestFull` the same of what only a full update
carries, unless the session is among those that missed one. Losing the front of a
full queue leaves its last message alone because the queue holds two at least.
`TimerRuns` counts the sessions whose connection broke unnoticed. Steps that
neither queue nor deliver leave a client as it is (`ClientStays`); those that do
are `NewFrame` and `AppliedIs`.

*Market.* `LinkInv` says of every wanted ticker, while the connection is up, that
it is still to be sent by the resubscription or by the affinity handler, or that
the last word about it in the write queue is a subscription, or that the exchange
has it and no word in the queue takes it back (`Covered`); the message being
written counts as the front of the queue, where only its shell is left
(`Place`, `FrontIsWritten`). An unsubscription is sent for unwanted tickers only
(`LeavesWanted`). `SendIs`, `ExtendedQueue` and `DrainedQueue` are the lemmas about
the queue. The theorem ends at the first overflow (`dropped`), which pops the
message being written.

The book: `BookFaithful` says nothing while updates are under way. `Follows` says for
each level of each ticker, at each place between exchange and book, what the last
word there is worth: the last change of the level on the wire is the exchange's
(`Chain`); a snapshot on the wire, with the updates behind it, ends there too
(`LastSeed`), and so does one fetched by `resync` unless the wire corrects it
(`FetchRight`); without a word on the wire the processor's queue has the last one
(`ChainRight`), and without one there either the book has what the exchange has
(`BookRight`). That is why a snapshot may overtake older updates in the queue: their last
word about a level is no older than the snapshot's unless the wire has a newer one.
What an update does to a book is a fold over its changes, of which the last about a
level counts (`AppliedExists`, `UpdateIs`).

*Session.* `Inv` is the types, that a process that is gone or recovering has no trades (`Shape`),
and `IdsOK`: an order id was given out once, and an open order whose id a trade
knows is of that trade's ticker. `PnlConserved` follows step by step from what an
append and a clearing do to a sum. `RecoveryOwnsExchange` is about the last step of a
recovery and needs an invariant of the ones before it (`BootInv`): what was fetched
keeps its ids and the rebuilt trades own theirs (`BootIds`), a position is as it was
fetched or an order of its ticker has filled since (`BootPos`), a ticker done with has
the one trade of that position (`BootTrades`), and every order still open was fetched
and is owned or about to be cancelled (`BootSeen`).
`ExitRemembersPositions` needs, for a process that recovered nothing itself,
`Accounted`: the open trades of a ticker are worth its position (`Worth`: two lots,
or one once the take-profit is gone from the exchange), unless `cancel_all` was
there; every entry order has a trade waiting for it, and the orders of a trade are
of its type and size. So a position that could not be closed has a trade that is
not `Closed`, which is what the final save writes (`Unclosed`), and `DiskKept`
carries it over fills nobody sees afterwards. The orders and trades of different
tickers do not meet, each step is reduced to one ticker (`AtTicker`).

*Clock drift.* `DriftInv`: each slot is within half of a round trip of how far the
clock was off when it was written, the average is that of the slots, and the handler
was called once if `triggered`. `AverageSide` bounds an average by its entries; the
wrapped seconds are right because the true time is within an era of the local one's
(`DriftAssumption`).

*Icebergs.* `eaten` of a level is at most the sum of the trades there that were joined
with exactly one update (`MatchedAt`), while none was joined with two. An update adds
at most the trades it joins, and they were not in the sum before.

*Plans.* Rounding to ticks keeps the order of two prices and leaves a price on a tick
where it is (`AtIs`, `AtOrder`, `AtTick`), so what is in order before it is not out of
order after it, and what must be apart the code tests again. `TargetAhead`: a target of
one and a half risks is at least the risk away from the entry. For the anchor of a
bounce's stop, the outermost of a finite pile, offsets at different prices are compared
(`Stretch`), for which the scale must lie between a third and three (`RatesAre`, from
the clamp): so no density of the pile is behind the stop (`StopBehind`). The invariant
is `PlansTypes /\ PlansTradable`.

*Sums* (`SumProofs`). `MapThenSumSet` and `MapThenFoldSet` of the community modules
recurse over sets and take operators. Written out they are a recursive function on
the subsets of the set: that it exists is an induction over the size (`SumExists`,
`SumUnique`), and from it follow the sum over a set with one more element, over two
disjoint sets, of equal functions and of functions one of which is never greater, and
what a product and a quotient keep of an order.

**Only model-checked.** Liveness and ENABLED, everywhere. `TrackedExposure`,
`Protected` and `FillsKnown` of the live executor relate what the exchange has to what
many partial answers say of it, beyond what `ExecInv` knows of an order's fills; they
stay with TLC. Of the detectors and the data paths, `SignalsTrue`, `TapeExact`,
`ApproachesJudged`, `LeaderMeasured` and `ReadsTrue` are checked on their instances
only. Induction runs over sets of naturals
(`SetInduction`), because a theorem of the library that takes an operator cannot be
used.

## 6. Not modelled

* Floating-point statistics: volatility, background intensity, dispersion and
  percentiles of the tape, the probability of an iceberg beyond its counts, the
  correlation, lag, CUSUM and Kalman filter of `LeaderTracker`, averages of levels,
  volume windows, `numeric/`. What they decide is a free choice where a model reads
  it.
* `FinresHandler` sums results per day; it reaches the rest only as the account's
  equity, which the requests of `RiskManager` choose freely (`reset_day_start` and
  `get_realized_pnl` have no caller in the program).
* Boosts, scale factors, tiers and filters of `TickerUniverse`; connection
  selection; order book settings.
* HTTP client, replay, cluster snapshots, external feeds (`BinanceFundingClient` is
  not wired into the program), logger, metrics, journal, configuration: input,
  output and parameters.
* Of the dashboard: authorisation, dumps, the panels of `get_state` and what the
  browser draws; the commands that change state (`order`, `strategy`, `close`) are
  actions of the models they reach.
* Offline tools (`tool/`, `bench/`) are not part of the trading program.
* `LiveExecutor::inject_recovered_trades` is modelled in `Session`, where the
  trades it enters come from.
* Hazards without a model: the snapshot of active positions read lock-free
  (`BotAppRun.cpp:432`), publishers and subscribers of `SignalBus` changing while a
  signal is delivered (`SignalBus.hpp:21`), a controller destroyed while the
  processor holds its pointer (`BotAppInit.cpp:855`; `Market` names the loss).
