# trading-floor: specifications, model checks and proofs

TLA+ specifications of the trading-floor repository (`src/`), the TLC runs that
check them on small instances and the TLAPS proofs about them.  Source paths
below are relative to `src/` (the Python package is `src/src/`).

## 1. The system

Trading floor is a set of Python processes around one Redis and one Postgres:
an API server, loops that run agents over symbols and place orders, monitors
that watch positions and risk, and writers that move Redis streams into
Postgres.  The processes have no lock and no transaction in common.  Each is
asyncio code, so what another process (or another task of the same one) may see
and change is decided at every `await` on Redis.

| Component (files) | State it keeps | Operations | Modules |
|---|---|---|---|
| **Paper broker** `src/execution/broker.py` | `paper:initialized`, `:cash`, `:positions`, `:daily_pnl`, `:trade_count`, `:orders`, `stream:trades` | `submit_order`, `flatten_all`, `update_position_field`, `reset_daily_pnl`, reads | `PaperBroker` |
| **Atlas, order path** `src/agents/atlas.py`, `scripts/run_paper_trading.py` | `approval:pending`, `paper:trade:{id}:contributors`, `paper:position:{symbol}:contributors` | the end of each cycle; a gathered round of symbols per loop | `OrderFlow` |
| **Scheduler** `src/schedulers/cycle_runner.py` | last bar per symbol | feed loop, cycle loop; never reads the kill switch | `OrderFlow` |
| **Orders router** `src/api/routers/orders.py`, `src/core/security.py` | `kill_switch:active` | approve, reject, order, kill, flatten, reset | `OrderFlow`, `Venues` |
| **Position monitor** `src/execution/position_monitor.py` | a snapshot per sweep, `stream:trade_outcomes`, agent ELO | sweep, kill sweep, trailing stop, exit, outcome, ELO update | `OrderFlow`, `Venues` |
| **Stream consumers** `src/streams/*` | stream, group, pending list; tables | `produce`, consumer loop, `handle` | `StreamConsumer`, `Delivery` |
| **Venues** `position_source.py`, `alpaca_broker.py`, `portfolio_snapshot.py`, `api/settings.py` | `config:system` venue and legacy flag, accounts, accepted orders, cached snapshot | choose the venue, route, place, fill late, flatten, read | `Venues`, `Constructor` |
| **Risk monitor** `src/execution/risk_monitor.py` | day marker, day's baseline, `risk:metrics` | day rollover, three readings, loss limit, concentration | `RiskMonitor` |
| **Sizing, construction** `portfolio_constructor.py`, `position_sizer.py`, `cost_model.py` | a snapshot cache, a decision cache | caps and sizes | `Sizing`, `Constructor`, `Judgement` |
| **Cycle graph** `agents/sage.py`, `graph.py`, `base.py`, `diana.py` | the cycle's state, heartbeats, episodes | route, wrap, merge, approve | `Cycle`, `Research` |
| **Trade desk, Nova** `trade_desk.py`, `agents/nova.py` | packets, group, open trades | weigh, forward, expire, execute | `Judgement`, `Research`, `TradeDesk` |
| **Learning, oversight** `src/learning`, `src/oversight` | signals, tallies, weights, calibration | record, weigh, calibrate, suppress | `Learning` |
| **Research agents, signals, feeds** `src/agents`, `src/signals`, `src/data` | caches, volume history | formulas, a model's answer, one signal each | `Feeds`, `Voices`, `Research` |
| **Back-testing** `src/backtesting` | engine, jobs | bar loops, windows, metrics | `Strategies`, `Backtest`, `Ensemble` |
| **Front end, scripts, API reads, web socket, schema, core** | connections, tables | I/O | - |

How they interact: a cycle calls the agents in turn and Atlas at its end; Atlas,
the orders router and both monitors call the broker, which routes by the venue;
the kill switch is a Redis key all of them may read; the monitor's outcomes and
every agent's episode leave by streams that the consumers move to Postgres; Nova
hands packets to Desk 2 by a stream.  `PROJECT.json` lists every component with
its files and status.

### What is hard here, and what makes each part correct

- *Broker.* Every balance or P&L update is a read, awaits, then a write of a
  computed value, so overlapping calls lose updates; a crash stops between two
  writes.  Correct: cash is never negative; the cash agrees with the trade
  stream and with the book; a symbol's position is the one its last trade
  left; a call alone behaves as if it happened at once.
- *Order path and kill switch.* The switch is read once, long before the order
  is submitted; the check for a held symbol and the order are separate steps;
  the approval queue is read before and deleted after the trade.  Correct: a
  decision trades once and never after it was rejected; orders begun under the
  switch do not execute; the book empties once the switch stays up; a position
  is not overwritten, sold twice, or closed without an outcome.
- *Stream consumers.* Redis moves its cursor although the reply may be lost,
  commit and acknowledgement are two steps, streams are trimmed unread.
  Correct: an entry is handed out once and in order, settled only with its row
  and written by its holder alone; no entry with two handlers, no loss that
  leaves no trace, bad entries do not block good ones.
- *Venues, risk monitor, constructor.* The venue is two settings written by two
  endpoints and read anew by every call; errors become empty answers; a close
  outlives its timeout; the rollover is three writes; a snapshot is three reads
  and cached.  Correct: real money only with consent; an exit goes where the
  position is; a loss at the limit trips the switch; the day is reset once;
  decisions rest on one venue and one moment; the venue's book empties.
- *Desks and learning.* A packet is read once and may be processed halfway;
  cycles overlap on shared agent objects whose wrapper nests two `finally`
  blocks; an outcome is marked, counted and weighed in separate commands.
  Correct: nothing is traded that was not approved and sized; a packet is acted
  on at most once; the switch stops a desk within a batch; one episode per
  call; a weight is the rate of what it claims to be the rate of.
- *Research and back-tests.* Ten agents at once, each of which tells a stream
  and a graph what it thinks, in that order; a validator that must not let a
  strategy see the bars it is judged on; shorts whose proceeds run backwards.
  Correct: what Nova weighs is what was said; windows share nothing; a verdict
  is earned out of sample; the books of a replay balance.

The full list, at the line where each hazard bites, is `hazards` in
`PROJECT.json`.

## 2. The modules

Six families; each has an MC module that TLC reads and a module of proofs.

| Family | Modules | Instance | Proofs |
|---|---|---|---|
| Broker | `Fills`, `Ledger` (abstract), `PaperBroker` | `MCPaperBroker` | `PaperBroker_proofs`, `Sums` |
| Order flow | `OrderFlow` | `MCOrderFlow` | `OrderFlow_proofs`, `OrderFlow_once_proofs` |
| Consumers | `Delivery` (abstract), `StreamConsumer` | `MCStreamConsumer` | `StreamConsumer_proofs` |
| Guard | `Venues`, `RiskMonitor`, `Sizing`, `Constructor`, composed in `RiskGuard` | `MCRiskGuard` | `RiskGuard_proofs` |
| Desks | `Judgement`, `Cycle`, `TradeDesk`, `Learning`, composed in `Desks` | `MCDesks` | `Desks_proofs` |
| Lab | `Strategies`, `Backtest`, `Ensemble`, `Feeds`, `Voices`, `Research`, composed in `Lab` | `MCLab` | `Lab_proofs` |

### 2.1 PaperBroker

Variables are the Redis keys, plus `pc[c]` and `call[c]`: the command client `c`
issues next and the Python locals of its call.  One action is one Redis command
and the computation up to the next `await`:

| Actions | Code (`broker.py`) |
|---|---|
| `EnsureInitialized`, `SeedCash`, `SeedPnl`, `SeedCount` | `_ensure_initialized`: `SET NX`, then three writes |
| `Submit`, `ReadCash`, `DebitCash`, `SetPosition` | `submit_order` into `_paper_fill`, the BUY branch |
| `ReadPosition`, `CreditCash`, `ReadPnl`, `SetPnl`, `DeletePosition` | the SELL branch |
| `PushOrder`, `IncrTradeCount`, `ProduceTrade` | the common tail |
| `FlattenAll`, `ReadPositions`, `FlattenOne`, `FlattenCredit` | `flatten_all` with no price map |
| `TrailingRead`, `TrailingWrite` | `update_position_field` |
| `ResetDailyPnl` | `reset_daily_pnl` |
| `Abort` | a crash, a cancelled task or a Redis error at any command |

The broker enforces nothing on its callers, but what holds depends on them, so
the constant `Traffic` is a set of ways to call it and each behaviour picks one
(`traffic`, which never changes): a *habit*: `free` (calls overlap), `serial`
(one at a time) or `careful` (one at a time, BUY only what is not held, SELL the
whole position: what Atlas and the position monitor do); and the symbols each
client *reaches* (disjoint reaches are the gathered cycles of one loop, one
task per symbol).  A property that needs a habit names it as its hypothesis.

Money is an integer and a rate is a fraction of `Scale`, rounded down; the code
computes in floats.  No property depends on a rounding direction except that a
commission is at least 0, and the proof of `TypeCorrect` uses only that the cut
quantity costs no more than the cash, which keeps the cash from going below 0.

### 2.2 Ledger

`Buy`, `Sell`, `Flatten`, `MarkTrailing` and `ResetPnl` on cash, positions and
P&L, each at once: what a caller that has the broker to itself may rely on.
`MCPaperBroker!ImplementsLedger` maps a call to the abstract step at the last of
its writes to those three keys; until then the mapping shows what the call read.

### 2.3 OrderFlow

A broker call is one step here and a position is only an identity (`id`, the
trade id of the broker, and `from`, the decision behind it); `PaperBroker` has
the steps inside a call.  One action is the stretch between two awaits that
touch shared state.

| Actions | Code |
|---|---|
| `StartRound` | `run_paper_trading.py`: the switch is read, then one gathered cycle per symbol; a failed read trades all the same |
| `RunOneCycle` | `cycle_runner.py`: one symbol at a time, no read of the switch |
| `NoOrder`, `ReadExisting`, `ReadMode`, `Queue`, `SubmitOrder`, `RecordTrade`, `RecordLegacy` | `AtlasAgent.analyze` |
| `Approve`, `Order`, `CheckKill`, `RequestSubmit`, `ApproveElo`, `ApproveDelete`, `RequestFails`, `Reject`, `Kill`, `FlattenRead`, `FlattenOne`, `FlattenCredit`, `Reset`, `SetMode` | `orders.py` (and the mode in `settings`) |
| `TripKill` | the risk monitor's activation |
| `MonitorCheck`, `SweepRead`, `KillRead`, `SweepDone` | the loop of `position_monitor.py`: snapshot, one task per position, wait for all |
| `CheckPosition`, `TrailRead`, `TrailWrite`, `Trailed` | `_check_position`, the trailing stop's read and write-back |
| `Exit`, `ReportOutcome`, `EloRead`, `EloDelete` | `_exit_position`, `_update_agent_elos` |

`Deployments` plays the role `Traffic` has above: which loops run on which
symbols, the sides decided on, the modes, the requests the operator may make, and
the bounds.  `epoch` counts how often the switch went up; with it a step knows
whether the switch has been up ever since its cycle or request began.
`executed`, `closed`, `credited` and `rejected` are histories, and so is `cut`: the trades
of approvals that ended, by a Redis error or a crash, between the trade and the removal
of the signal from the queue (`orders.py:169-181`).  `RequestFails` ends a request at any
of its commands; it costs one of the requests the operator may make, so that the number
of failures is bounded with them.

### 2.4 StreamConsumer

Entries are numbered.  `added`, `trimmed`, `group`, `cursor`, `pel` and `acked`
are Redis's, `table` and `up` Postgres's, `pc` and `batch` the process's.
`Produce` is `XADD` with an approximate `MAXLEN`; `Start` creates the group with
every error suppressed; `Read`/`ReadLost` is `XREADGROUP >`, whose effect in Redis
stays when the reply is lost; `Store`, `SkipIncomplete`, `HandleFails` and `LookupFails`
(the outcome writer's question to Redis, before its transaction, raises) are the
outcomes of a writer's `handle()`; `Ack`/`AckFails`, `BatchDone`, `Stop`,
`Outage` and `Recovery` complete the loop.  An entry is `valid`, `incomplete`
(a field is missing: logged and acknowledged) or `unstorable` (a value does not
convert or Postgres refuses it: `handle()` raises).

`Delivery` is what the group and its consumers come to for an entry, without cursors,
batches, processes or faults: it waits, may be dropped unread, is handed out once with
everything older, and is then settled with its row or stuck for good.  Its steps are
`Add`, `HandOut`, `Commit`, `Settle` and `GiveUp`.  `ImplementsDelivery` maps a state by
`Life`: an entry in the batch of some consumer is held, one that is pending and in no
batch is stuck, one acknowledged is settled.  A crash, a lost reply, an outage, a failed
`handle()` and a failed acknowledgement are each a `GiveUp`, a `HandOut` into nobody's
hands, or nothing.

### 2.5 Venues, RiskMonitor, Sizing, Constructor, RiskGuard

An account (`sim`, `alpaca_paper`, `live`, or the ccxt `exchange`) holds the sign of each
symbol's position; sizes and the steps of a simulated fill are in `PaperBroker`.

| Actions | Code |
|---|---|
| `UpdateSettings`, `ToggleLive` | `api/settings.py`, `orders.py`: the venue and the legacy `paper_trading` flag |
| `Enter`, `ReadVenue`, `PlaceUnavailable`, `PlaceFilled`, `PlacePending`, `PlaceRejected`, `AlpacaFills`, `AlpacaDrops` | `submit_order`: the venue is read, the order routed, and filled, accepted, refused or impossible; an accepted one fills later, or is a DAY order that expires or is cancelled |
| `Kill`, `FlattenSim`, `Reset` | the kill endpoint, which empties the simulation's book only |
| `StopHit`, `KillSweep`, `Dispatch`, `Exit`, `Flatten`, `ClosePosition`, `CloseTimesOut` | the position monitor: exits, or `VenueAwareFlattener`, each reading the venue again |
| `BeginSweep`, `StampDay`, `ResetBroker` | `_reset_daily_pnl_if_new_day`: the marker, then the reset |
| `ReadLabel`, `ReadPositions`, `Blind`, `ReadWorth`, `ReadPnl`, `Publish`, `Enforce`, `Crash` | a sweep of `risk_monitor.py`; only the second reading trips the switch when there is no broker |
| `Analyze`, `SnapshotVenue`, `SnapshotPositions`, `SnapshotWorth`, `SnapshotPnl`, `SnapshotStore`, `BuildDecision`, `Tick` | `portfolio_constructor.py` over `portfolio_snapshot.py` |
| `PaperSale` | `broker.py:575-588`: a sale of the simulation moves `paper:daily_pnl` |
| `Alpaca`, `MarketMove`, `Midnight` | the surroundings: each endpoint of Alpaca (`"book"`, `"account"`) answers or does not |

The day's P&L (`DayPnl`) is what each venue's source gives: of the simulation the realised
counter `paper:daily_pnl` (`broker.py:267-279`), which a loss on paper, or one that
`flatten_all` takes, does not move; of an account at Alpaca what it is worth less what it
was worth at the last close.

`Sizing!Decide` is the arithmetic of a decision, in the order of the code.  A *cast* says
who acts in a behaviour (orders and monitors, the sweep, the constructor): the three meet
only in the venue, the switch and the accounts, and each of them is checked with the
settings and the venue changing under it.  `since` and `until` of a snapshot, `chosen`,
`settled`, `strays`, `resets` are histories.  The assumption `TradersApart` says the last: no
cast has both the risk monitor or the constructor and somebody who trades.

### 2.6 Judgement, Cycle, TradeDesk, Learning, Desks

`Judgement` holds what decides: Diana's gate (`Approves`, `Decision`), Nova's weights
(`FinalConfidence`, `Consensus`), the cost model and what Nova forwards.

| Actions | Code |
|---|---|
| `Start`, `Leave` | `sage.py`: the route, with LangGraph's edges or without them |
| `HeartbeatActive`, `EmitEpisode`, `HeartbeatIdle` | `BaseAgent.analyze_with_heartbeat`; each command may raise |
| `Analyse`, `AnalyseRaises`, `Diana`, `Construct`, `Atlas` | the agents' analyses; any of them may raise, Atlas also behind an order that has left (`atlas.py:146-147, 222`) |
| `Publish`, `TimePasses`, `Halt` | Nova, the clock, the kill switch |
| `CheckSwitch`, `ReadBatch`, `Dismiss`, `Execute`, `Register`, `Acknowledge`, `PacketError`, `Restart` | the loop of `trade_desk.py` |
| `RecordSignal`, `Report`, `Mark`, `CountOutcome`, `CountTotal`, `Recalculate`, `SetWeight` | `agent_memory.py`, one Redis command each |
| `Suppress`, `SuppressionExpires`, `Calibrate` | `portfolio_chief.py`, `calibration.py` |

Three parts, one specification: the code connects them by no key (nobody calls
`record_signal` or `record_trade_outcome`), so a behaviour has one as its cast.  Cycles
that overlap share the agent objects, and with them `status`.

### 2.7 Strategies, Backtest, Ensemble, Feeds, Voices, Research, Lab

Algorithms are operators; what runs them is a state machine.

| Module | Actions or operators | Code |
|---|---|---|
| `Strategies` | one operator per strategy, of the bar and the bars before it | `backtesting/strategies.py`, `signals/momentum.py` |
| `Backtest` | `Refuse`, `NextSegment`, `Bar`, `EndSegment`, `Conclude` | `engine.py`, `metrics.py`, `walk_forward.py`, `validation.py` |
| `Ensemble` | `LoadFails`, `Replay`, `Complete` | `ensemble.py` |
| `Feeds` | what a feed makes of what it fetched | `data/feeds/*`, `signals/carry.py` |
| `Voices` | what each agent says, given its report | `agents/*_analyst.py` and the other research agents |
| `Research` | `Begin`, `DetectRegime`, `MacroOverlay`, `ValidateData`, `Gather`, `Speak`, `SpeakFails`, `Merge`, `Orthogonalize`, `InTurn`, `InTurnFails`, `Polymarket`, `Nova`, `Raises` | `agents/graph.py`, `regime_detector.py`, `validator.py` |

A report is the data a feed or a language model may return; an answer that fails to
arrive is an empty one or raises, as in the code.  LangGraph keeps the keys `AgentState`
declares and drops the others, so a rejected bar (`skip_cycle`) goes on to the agents, and
momentum and Nova never see the regime that was detected.

## 3. What the runs check

| Run | Instance and bounds | Shows |
|---|---|---|
| `broker` | 2 clients, 2 symbols, 3 calls, 1 call cut short, starting unseeded; four kinds of traffic | the books; 5.3 million states |
| `flow` | the deployments `Attended`, `Queueing`, `Draining`, and each kind of loop alone on 2 symbols | orders, switch and exits; 1.4 million states |
| `flow_two_operators` | one queued decision, 2 approvals | **violation**: the decision trades twice |
| `flow_runner` | cycle runner and one KILL | **violation**: a cycle begun under the switch buys |
| `flow_attribution` | a loop, one decision | **violation**: the outcome's trade id has no contributors |
| `consumer` | 2 consumers, 3 entries of every kind, batches of 2, stream limit 2, 1 stop, 1 lost reply, 1 outage | the stream properties; 0.40 million states |
| `consumer_outage` | 1 consumer, 2 entries, 1 outage | **violation**: an entry read during an outage is not retried |
| `risk` | 3 symbols of three kinds, 2 entries, 2 changes of the surroundings, 2 days, 1 restart, 2 sized cycles | venues, rollover, snapshot, caps, flattening; 0.81 million states |
| `risk_outage` | the sweep alone | **violation**: a venue that does not answer trips nothing |
| `desk` | 2 cycles, 1 failing command, 2 opinions; 3 packets in batches of 2, 1 error, 1 restart; 3 signals, window of 2, 2 reports at once | approval, wrapper, packets, weights; 2.1 million states |
| `desk_phantom` | Desk 2 alone | **violation**: an open trade nobody executed |
| `lab` | 3 bars through the graph, every agent's report, 1 mishap; every strategy over tapes of 12 bars and walks of 20, fitted on a rally or on nothing; every replay of up to 4 bars of 4 kinds | what is weighed, windows, verdicts, replays; 0.47 million states |

**Broker.** With any overlap and any call cut short: `TypeOK`, which has that cash is never
negative (the 95% cut of `broker.py:560` has to earn it).  With clients that keep to their
own symbols but otherwise overlap: `PositionsMatchTrades`.  With careful callers:
`CashReconciles` (cash is the initial cash plus the flows of the trade stream) and
`BooksBalance` (cash plus the book at cost is the initial cash plus realised P&L less entry
fees).  Called serially: `ImplementsLedger`.  The last three do *not* hold when calls
overlap, which the system's gathered exits and separate processes do allow; that limit is a
result of the model and is stated with the properties rather than hidden.  Seeding is part
of it: `_ensure_initialized` (`broker.py:50`) calls itself idempotent, but claims its flag
before it writes, and the loser of the claim can buy before the winner's starting cash
overwrites its debit.

*Bounds.* Three calls are a BUY, something that disturbs it and a third that sees
the result, or two overlapping calls and the seeding; the initial cash of 300
against prices of 100 makes a BUY of 4 be cut and a BUY of 2 fit; slippage and
commission are non-zero; an order list of one entry overflows at the second.

**Order flow.** Always: `TypeOK`, `ReportedOnce`, `LoopsSuspended`.  With one request at a
time: `ExecutedAtMostOnce` (a decision is traded again only where the approval that traded
it first was cut short before it removed the signal: there the code does trade twice, one
operator's next approval being enough), `RejectedStaysRejected`.  With one loop trading long
only and no operator: `NoPositionLost`, `SoldOnce`, `ExitsReported`.  One request at a time
is the instance's (`Operators` has one element; `flow_two_operators` has two); the others
are hypotheses of the properties.  Each is needed: a second loop on the same symbols loses a
position, and a SELL decision, or an operator who orders and flattens, sells a position
twice and closes one without an outcome.  `KillDrains`: where every loop reads the switch
and no read has failed (`SwitchRead`), the book empties for good once the switch stays up.
Beside a cycle runner, which never reads it (`cycle_runner.py:166-214`), the book may be
refilled for ever, as `flow_runner` shows; nothing is claimed of it. Deadlock is checked:
the monitor always has a step.

*Bounds.* Two uuids let a position be opened, closed and replaced; two symbols
exercise gathered cycles and tasks; two requests (four in `Queueing`) allow
KILL-RESET, APPROVE-REJECT and MODE changes around one order; one activation by the
risk monitor adds a switch no request raised.

**Consumers.** `OneHandler`, `LossIsVisible`, `ImplementsDelivery` and, while nothing
fails, `ValidStored`.  *Bounds.* With a limit of 2 and 3 entries the stream can drop
an entry that was never read; with batches of 2 an entry waits behind a bad one; one
of each fault, since faults of different kinds meet in every order.

**Risk.** `LiveNeedsConsent` (no sequence of toggles of the legacy flag, late fills and
exits leads to real money the operator did not ask for), `ExitsGoWhereHeld` while the
venue is changed only when everything is flat (otherwise exits do go astray),
`ResetOncePerDay`, `GuardsTrip` for a sweep whose venue answers, `SnapshotTrue`,
`ApprovedFits` (what is approved fits the account as it is, not only the snapshot, where
the snapshot's book is the account's) and `KillEmptiesVenue`, which is claimed from when no
more entries are made: they never read the switch, so that an operator or a cycle runner
who goes on ordering would refill the venue for ever.  Of the simulation the loss limit and
the daily cap see what was realised and no more: positions deep under water trip nothing
and block nothing.  The endpoints of Alpaca fail apart: a positions call that fails alone
(`alpaca_broker.py:212-215`) is an empty book beside a good account, on which the
constructor may approve beyond its caps; that is in the model, and excluded by the
hypothesis of `ApprovedFits`.  *Bounds.* Two changes are a venue and a loss, a venue back and forth,
or an outage and its end; with two entries a position is opened at one venue and the next
order goes to another; two days and a restart place a crash in every step of a rollover;
a time to live of one tick makes a snapshot hit, expire and be refreshed in two cycles.
A sale at a loss of more than the limit stands for every realised loss.  Credentials of
the exchange vary only where an order can reach it.

**Desk.** `TradesAreSized` with and without LangGraph, alone and overlapping, whichever
agent raises (that an order has a size is claimed outside shadow mode only); `OneEpisode`
and `NoneLeftActive` while no command fails, however analyses end; `ProcessedOnce` and
`KillBoundsDesk` across errors and restarts; `WeightSettles` for reports that do not overlap
(two that do leave the older weight) and while no signal of the window waits for its
outcome, and `SuppressedOnce`. *Bounds.* Batches of 2 (the code: 5) and 3 packets leave one
for a second batch and one behind a failing packet; a window of 2 (50) over 3 signals drops
the oldest; packets expire after one tick of two; two opinions make a majority, a tie and a
lack of confidence.

**Lab.** `WeighedOnce`, `WindowsApart`, `RobustEarnedUnseen`, `ExitsPayAsNamed` (money is
in cents and rounded down, so that stops lose and targets gain is claimed of trades worth a
dollar or more at a price of a dollar or more: below that the cent decides, which the
code's floats do not let it; that no cent is lost is claimed of all).  *Bounds.*
Lookbacks are shortened (1 and 2 bars for the averages, 2 for the RSI, 3 for the rest),
a window needs 10 bars for 20 and is split in half (the code: 70%), so that both parts of
a window of 10 have the 5 bars the code asks for; the anomaly check averages one volume
for 20.  Every strategy buys, sells, is stopped and takes its profit on the tapes; the
replays contain every sequence of a rise, a fall, a calm bar and one that touches both
levels.  Two agents of the ten have something to say in a cycle, every pair of them.

**Fairness.** `flow`: weak fairness of the monitor's own steps (one coroutine
in a loop that catches every exception) and strong fairness of a symbol being priced
in a kill sweep: an assumption on the price feed, which the code retries each sweep
but cannot enforce.  Nothing is assumed fair about loops, operators or the switch.
`risk`: weak fairness of the monitor's sweep and dispatch, of requests under way and of
Alpaca filling what it accepted; strong fairness of a position being priced or closed
while its venue answers.  `consumer` and `consumer_outage`: weak fairness of each consumer
(its process is restarted by the container runtime and does nothing else) and of the
database coming back.

**Deadlock** is off where the system really stops: when the bounds are used up.

**Each property has a mutant**, a plausible bug in one mapped definition (a dropped
commission, a SELL that leaves the position, an approval that leaves the signal, an
acknowledgement after failure, a venue that follows the legacy flag, a marker that is
never written, a snapshot stamped when stored, an episode outside the `finally`, one
engine for all windows, ...), under which the same run finds it violated.  Such mutants
are marked faulty where they stand and are used by nothing else.

### Disagreements between the code and its own words

Shown by a run:

1. `orders.py:165` "not found or already processed": two approvals in progress both
   pass it (`flow_two_operators`).
2. `README.md:78` "suspends all new orders until reset": not for the cycle runner
   (`flow_runner`).
3. `atlas.py:77` "Outcome writer reads this hash on exit": it is keyed by an id no
   outcome carries (`flow_attribution`).
4. `episode_writer.py:7` "retries on the next sweep": nothing reads the pending list
   (`consumer_outage`).
5. `risk_monitor.py:154` "can't be read, that's a safety event": only missing
   credentials are; an Alpaca that does not answer is an empty book (`risk_outage`).
6. `trade_desk.py:8` "Calls Atlas for execution": Atlas refuses what has no sized order,
   and the desk records an open trade all the same (`desk_phantom`).

Met while modelling, in the model but claimed by no run:

- `validator.py:4`, `graph.py:208`: a rejected bar does not skip the cycle, the key that
  says so is dropped with `technical_regime` and `market_regime`.
- `seasonal_commodity` uses the month of the day the test is run; `sma_crossover` compares
  with the averages of two bars ago; the engine leaves at the bar's close whatever level
  was hit, and the trade it closes at the end is not in its curve; the ensemble closes a
  short at the end as if it were long.
- A build of inventories counts as bullish, and natural gas files its score under a key
  its reader does not look for; two agents say BULL and BULLISH where Nova counts LONG.
- `portfolio_constructor.py:8-9`, `:188` and `:241` "Atlas keeps its own sizing": in shadow
  mode the state gets no sized order, without which Atlas skips the trade
  (`atlas.py:130-141`) and LangGraph's edge does not lead to it (`sage.py:65-70`), so that
  nothing is traded at all.
- `agent_memory.py:146` and `:317` "last N resolved signals": the newest N are taken
  (`:191`), and those that wait for their outcome take places in the window; the weight is
  then the rate over fewer (`WeightSettles` claims the words only where none waits).
- The ensemble back-test asks `run_trading_cycle` for its decisions (`ensemble.py:206`): the
  live cycle, Atlas included, so that a replay writes heartbeats and episodes, and queues or
  places orders at old prices with whichever venue is configured, the live one included.
- `get_effective_weight` is never read: a suppression has no effect on Nova.
- The kill endpoint flattens the simulation whatever the venue; a partial fill at Alpaca
  is reported FILLED; an accepted order whose event cannot be written is reported
  REJECTED.

## 4. What is proved

For every value of the constants that satisfies the named assumptions (`FillsAssumption`,
`BrokerAssumption`, `FlowAssumption`, `ConsumerAssumption`, `VenuesAssumption`,
`RiskAssumption`, `TradersApart`, `SizingAssumption`, `ConstructorAssumption`,
`CycleAssumption`, `DeskAssumption`, `LearningAssumption`, `BacktestAssumption`,
`EnsembleAssumption`, `LabAssumption`), each of which TLC evaluates in the runs of its
family.  Sets of symbols are finite where a proof sums over them, `Limits` has the row
`COMMANDER` the code falls back to, the numbers of a signal are integers, and the bars of a
tape close above 0; these are the only assumptions the code does not spell out, and no
deployment breaks them.

| Theorem | Statement |
|---|---|
| `PaperBroker_proofs!TypeCorrect` | `Spec => []TypeOK` |
| `PaperBroker_proofs!LedgerImplemented` | `Spec => ImplementsLedger` |
| `PaperBroker_proofs!CashAlwaysReconciles` | `Spec => []CashReconciles` |
| `PaperBroker_proofs!BooksAlwaysBalance` | `Spec => []BooksBalance` |
| `PaperBroker_proofs!PositionsAlwaysMatch` | `Spec => []PositionsMatchTrades` |
| `OrderFlow_proofs!TypeCorrect` | `Spec => []TypeOK` |
| `OrderFlow_proofs!Suspended` | `Spec => []LoopsSuspended` |
| `OrderFlow_once_proofs!OnceReported` | `Spec => []ReportedOnce` |
| `OrderFlow_once_proofs!PositionsKept` | `Spec => []NoPositionLost` |
| `OrderFlow_once_proofs!OnceSold` | `Spec => []SoldOnce` |
| `OrderFlow_once_proofs!AllExitsReported` | `Spec => []ExitsReported` |
| `OrderFlow_once_proofs!TradedOnce` | `OneAtATime` assumed: `Spec => []ExecutedAtMostOnce` |
| `OrderFlow_once_proofs!RejectedNotTraded` | `OneAtATime` assumed: `Spec => RejectedStaysRejected` |
| `OrderFlow_once_proofs!SalesAreOfPurchases` | `Spec => []SoldWasBought` |
| `OrderFlow_once_proofs!KillStopsRefilling` | `Spec => BookDrains`, the safety half of `KillDrains` |
| `OrderFlow_once_proofs!NoOutcomeAttributed` | `Spec => []NeverAttributed`, why `flow_attribution` is violated |
| `StreamConsumer_proofs!TypeCorrect` | `Spec => []TypeOK` |
| `StreamConsumer_proofs!AckAfterCommit` | `Spec => []AckedImpliesStored` |
| `StreamConsumer_proofs!Exclusive` | `Spec => []OneHandler` |
| `StreamConsumer_proofs!NoSilentLoss` | `Spec => []LossIsVisible` |
| `StreamConsumer_proofs!DeliveryImplemented` | `Spec => ImplementsDelivery` |
| `StreamConsumer_proofs!NoSecondRow` | `Spec => StoredOnce` |
| `StreamConsumer_proofs!BadEntriesCostNone` | `Spec => []NothingLeftBehind`, the safety half of `ValidStored` |
| `StreamConsumer_proofs!NeverRetried` | `Spec => StuckForGood`, why `consumer_outage` is violated |
| `RiskGuard_proofs!GuardTypes` | `Spec => []TypeOK` |
| `RiskGuard_proofs!ConsentBeforeRealMoney` | `Spec => []LiveNeedsConsent` |
| `RiskGuard_proofs!RolloverOncePerDay` | `Spec => []ResetOncePerDay` |
| `RiskGuard_proofs!SnapshotsAreTrue` | `Spec => []SnapshotTrue` |
| `RiskGuard_proofs!ExitsFindTheirPosition` | `Spec => []ExitsGoWhereHeld` |
| `RiskGuard_proofs!SweepsTrip` | `Spec => []GuardsTrip` |
| `RiskGuard_proofs!OutagesAreSilent` | `Spec => OutageTripsNothing`, why `risk_outage` is violated |
| `RiskGuard_proofs!ApprovalsFit` | `Spec => []ApprovedFits` |
| `Desks_proofs!DesksTypes` | `Spec => []TypeOK` |
| `Desks_proofs!OncePerPacket` | `Spec => []ProcessedOnce` |
| `Desks_proofs!HaltWithinBatch` | `Spec => []KillBoundsDesk` |
| `Desks_proofs!TradesApproved` | `Spec => []TradesAreSized` |
| `Desks_proofs!OneEpisodeEach` | `Spec => []OneEpisode` |
| `Desks_proofs!NobodyLeftActive` | `Spec => []NoneLeftActive` |
| `Desks_proofs!WeightIsWinRate` | `Spec => []WeightSettles` |
| `Desks_proofs!SuppressionsDoNotCompound` | `Spec => []SuppressedOnce` |
| `Lab_proofs!WeighedOnceAlways` | `Spec => []WeighedOnce` |
| `Lab_proofs!WindowsAlwaysApart` | `Spec => []WindowsApart` |
| `Lab_proofs!RobustAlwaysEarned` | `Spec => []RobustEarnedUnseen` |
| `Lab_proofs!ExitsAlwaysPay` | `Spec => []ExitsPayAsNamed` |
| `Lab_proofs!NoStopGains` | `Spec => []StopsNeverGain` |

`OneAtATime` says that no two operators send requests (`Operators` has at most one
member, as in the `flow` run); with two the properties are false, and `flow_two_operators`
shows how.  With one, an approval that fails behind its trade leaves the signal queued, and
the next one trades it again: `TradedOnce` says that this, and nothing else, trades a
decision twice.

Three of the disagreements of section 3 are proved in general as well: what the run shows
in one deployment holds in every one (`NeverRetried`, `NoOutcomeAttributed`,
`OutagesAreSilent`).  They say what the code does, which is not what its comments say.

Every inductive invariant below was first an invariant of a run at the bounds of section 3.

*Broker.* `cash \in Nat` is not inductive: the debit subtracts a cost computed
earlier.  `IInv` adds for each call what its place in the program implies; the part
that matters is that a BUY at `setCash` costs no more than the cash *it read*, which
is also the cash it subtracts from, so overlap does not matter.  The lemma
`AffordableFits` proves that the 95% cut fits, slippage and commission included, by
nonlinear arithmetic in small steps.

*Ledger.* A call that has the broker to itself is cut into commands nobody reads between.
`SerialInv` says what the keys hold at each of its places: whatever it read is still
there (`Stage`), and a call that has just begun has touched nothing (`Untouched`).  The
mapping shows what the call read until its last write, so the step there is the abstract
operation and every other one a stutter; there is one lemma per action.

*Books.* Summed up, a call is worth what it will still do: `Worth` is the cash to come and
to go of the call under way, `Ahead` and `Unbooked` what cash and P&L are ahead of each
other and of the trade stream.  `CarefulInv` is the equation with those terms, which are
zero between calls.  A sum over a log or a book needs induction; `Sums` has it.

*Positions.* `MatchInv` needs no habit: a symbol's position is what its latest trade left
unless the client that reaches the symbol is inside a call on it, and then it is what that
call's place implies (`PostedBy`).  Two clients of disjoint reaches cannot see each
other's symbols, which is why one lemma per command suffices for all interleavings.

*Sums.* The folds of the community modules are recursive functions on finite sets.
Induction in the library takes a predicate as a parameter, which the provers cannot
instantiate; the lemmas of `Sums` state it with a *set* in the place of the predicate
(`NatSteps`: a set with 0 and every successor has all of `Nat`), and from there what
`FoldLeft`, `MapThenSumSet` and `SelectLastInSeq` make of one element more.

*Order flow.* `OrdersSuspended` says of past orders that none was late; to keep it,
an order under way must not be able to become late.  `InTime` says each of them
noted an `epoch` that is not the current one while the switch is up (`Timely`): it
began while the switch was down, and each activation raises the epoch.  `LocalsOK`
gives the locals the types a place in the program implies.  `FlowInv` is the
conjunction, with `InTime` only under `SwitchRead` (every loop reads the switch and
no read failed): without that hypothesis `flow_runner` refutes it.  The proof has one
lemma for each kind of process with what its steps must respect, and a step per
action below it.

*Reports.* `ReportInv`: an identity drawn is never drawn again (`Known`), no two tasks of
the monitor can report the same one (`Separate`), and one that is about to report has left
the book (`Left`).  It holds with any loops and operators.

*Unattended.* With one long-only loop and no requests (`Unattended`) more holds, and
`AloneInv` says why: a cycle that looked and found nothing still finds nothing when it
orders (`Clear`), as nobody else buys that symbol; a task that will sell still finds what
it saw, or finds it gone (`Guarded`), as nobody else sells it; from these, each BUY is on
the book or among the sold (`Bought`), each sold one told or about to be (`Told`).

*Decisions.* `DecisionInv` follows an identity from the draw: below `nextId` once spent or
drawn (`Numbered`), carried by one cycle at most (`Own`), queued only while nobody carries
it and whoever traded it is about to remove it or was cut short before that (`Queued`), and
served only while queued (`Served`).  The last is where two requests at a time break it.

*Origins.* `OriginInv`: an identity that is anywhere (on the book, in a snapshot or a
task, on the way to a flatten, sold, reported) is that of an executed BUY (`Named`,
`Opened`); one that contributors are filed under, or will be, is of the same counter but
of no execution (`Filed`), because Atlas and the broker each draw their own.

*Draining.* `Drain` is about a single step.  Three sets hold whatever may still put a position
on the book: cycles before their order (`Deciding`), requests about to submit (`Sending`)
and trailing stops a sweep may write back (`Trailing`).  While the switch stays up none of
them grows, and a step after which something more is held shrinks one.  They are finite, so the
book is refilled a bounded number of times; that it then empties is `KillDrains`' other
half, for which the monitor has to be fair.  `BookDrains` is claimed where every loop reads
the switch and no read has failed (`SwitchRead`): a failed read lets one more round trade.

*Consumers.* The group's cursor splits the stream: what is after it nobody holds.  To
the three properties `IInv` adds that a consumer's batch ends at or before the cursor
(`Delivered`), so that a read, which takes entries after the cursor, is disjoint from
every batch, and that the entry a consumer is about to acknowledge is stored or
incomplete (`ReadyToAck`), which carries the commit over the step between.  From these
`AckAfterCommit` follows: nothing acknowledged before it is stored.

*Delivery.* A step of one consumer maps to a step on `Life`, which asks what the others
hold.  `DInv` adds to `IInv` that what was delivered is pending, acknowledged or trimmed
(`Accounted`), and that what a process holds is pending and without a row, except for the
one it is about to acknowledge (`InHand`); so a read hands out exactly what waits up to
the new cursor, a commit is never a second one (`NoSecondRow`), and what a process lets
go of (`LetGo`) becomes stuck and nothing else changes.  `Served` is `DInv`'s companion
while nothing fails: what was delivered and is valid has its row or a holder.

*Consent.* That nothing is held in a real account is not inductive: an order may have
read the venue long before it is placed.  `NoRealMoney` adds that the configured venue is
not the live one, that no task carries it, as the venue it will route by or the account it
closes at, and that nothing accepted is for it; all of it holds until a request names the
venue.  The flag alone cannot get there because `VenueOf` takes it to the paper account.

*Exits.* `RouteInv`: while the venue moves only when all is quiet, whatever is held is at
home where the present venue routes it (`Homed`), and so is what tasks carry or Alpaca has
accepted (`Bound`); a change of venue finds nothing to strand.

*Rollover.* `DayInv` ties the history to the marker: no day after the marker was reset,
and the marked day was not while the monitor stands between the stamp and the reset.  A
restart there leaves the day at zero resets, never at two: the marker is written first.

*Sweeps.* `TripInv` says of each place of a sweep that, had nothing changed since it
began, the venue has its broker and the P&L read is what the venue's source gives now, so that
what `Enforce` compares is what `GuardsTrip` speaks of.  Of a venue that does not answer
the source gives 0, which is below no limit: `OutageTripsNothing`.

*Snapshots.* `SnapshotInv` says of the snapshot being taken, of every cached one and of
the one in use that it was begun (`at`) no later than its positions were read, and that
its readings were of the venue it was begun for as long as nothing changed (`Sound`,
`Taken`).  `VenueStands` is the lemma behind it: a step that leaves the count of changes
alone leaves the venue alone.

*Caps.* `FitInv` adds to that what the snapshot's worth and P&L are (`WorthIs`, `PnlIs`)
and that the decision in hand fits the snapshot it was made on (`FitsSnapshot`).  The
arithmetic of `Sizing` (caps, correlation cut, size by conviction) is in lemmas of its own,
one per stage: what each stage returns is at most what it was given.  `ApprovedFits` speaks
of a loss (`DayPnl < 0`), as the code does.

*Desk 2.* `BatchOK`: the batch in hand is an increasing run of delivered packets, none
yet handled but the one being registered; the group's place is not lost by a restart,
which is why none is read again.  `LateOK`: packets begun under the switch and those left
in the batch are at most a batch together, and the desk cannot get to a new read while
the switch is up, except by one it looked at before.

*Cycle.* What Atlas trusts is earlier nodes' work, so `CycleInv` says what each place in
the route implies: an approval is Diana's verdict on exactly the signals that are there,
as analysts come before her and add no more (`ApprovedOK`), a size is the constructor's
(`SizedOK`), an order is both (`TradedOK`).  `RouteNodes` and `NextNode` are the lemmas on
the route.

*Episodes.* That an agent leaves one episode and not two is that the route never returns
to it: `Behind` orders what a cycle called by its place in the route (`RouteRises`), so
that the node it goes on to is not among it.  `ActiveInv` needs no more than the types:
the cycle that leaves an agent is the one that wrote it idle last.

*Weights.* `SettleInv`: without overlap at most one report is under way, what it is about to
store is the rate over the window as it is now, and between reports that is what is stored,
because recording a signal makes the newest one pending.  Where none of the newest is
pending they are the last that are resolved (`NewestResolved`), by counting.  `LearnType`
has the rates in range: a part of a finite set of places is no larger than the set.

*Suppression.* `WeightInv`: the stored weight is one the agent has had, and so is the one
a suppression was taken from.

*What is weighed.* `SaidInv` follows a signal from its agent to Nova by the node of the
graph.  While the analysts gather, each has told the graph nothing or one signal of its
own that is on the stream, and those on the stream and not yet told (`Untold`) are no more
than the commands that raised (`Gathering`); after `Merge`, which flattens the answers
(`Flattened`: where each comes from and that each comes once), the same is said of the
signals (`Told`).  Momentum and a copy trader who publishes nothing are the exceptions by
name (`Quiet`).

*Back-tests.* `SegmentsApart` is about the bars alone: windows of one size, cut at one
place, do not meet, by products in small steps.  `BackInv` says of the engine (`EngineOK`)
that its trades lie within the bars replayed, that what it holds was bought with money it
had, which keeps the equity from going below 0, that its equity is accounted for, and that
while no trade has won its curve has not risen (`Charted`).  The last is why a Sharpe ratio
above 0 means a trade that gained, whatever the ratio is; the sum of the out-of-sample
ratios being above 0, one of them is (`SumOfPositive`).

*Ensemble.* `BookInv`: the book balances (`BookOK`), and a position's stop is 3% of its
entry away on the losing side and its target 6% on the winning one, but for a cent
(`Placed`); a stop is also near enough that a short sold back at twice its entry less the
price brings something.  So what a stop or a target sells brings less or more than it cost
(`Suits`), and the trade says so (`Pays`).  That 2% of a sizeable trade, which is left after
rounding the prices, is more than what rounding the amounts and the fee can take is
`GainOrLoss`.

*Only model-checked.*  Liveness under fairness (`KillDrains`, `ValidStored`,
`KillEmptiesVenue`), for which the prover has no rules here; of the first two the safety
half is proved (`KillStopsRefilling`, `BadEntriesCostNone`), of the third none is stated: at
a venue, orders and late fills refill the book whatever the switch says, and that nobody
orders any more is a hypothesis of the property.  Every other property of every passing run
is a theorem. Whatever a theorem cannot assume is left in the hypothesis of the property
itself: no failed command, no overlap, careful callers.

## 5. What is left out, and why

Inside the modelled components: `flatten_all` with a price map; LLM calls, prices and
the wording of prompts (an answer or a price is a choice); the text of orders and events;
the bar cache and feed of the scheduler; the agents' ELO values (who is credited is kept,
the number is not); a crash of the position monitor; the rows the two writers share in
Postgres; the order history the Alpaca wrapper pushes into Redis; positions on a ccxt
exchange, which the code itself never reads; the Sharpe ratio's square root (its sign is a
choice); signal orthogonalisation, whose import fails, so that its step does nothing; the
chief's briefings; reads for dashboards; an Atlas that fails between its order and the
record of the contributors (`atlas.py:198-218`, where it is caught), which is the order
without the record.

Commands that are one step where the code sends several: those of `record_signal`
(`agent_memory.py:80-83`), between which only a set one longer than it is kept can be seen,
and the push and trim of the order history (`broker.py:321-322`), which nothing reads
between the two.

Detail that no property depends on: the exact scores of `Voices` and most of the arithmetic
of `Feeds` are there so that the signals the agents say are those they can say; what is
claimed of the agents is what `Research` and `Lab` say of who is heard and weighed, and of
the averages.

Not modelled: the front end, the scripts that only start something or read, configuration,
connections and the tables of the database.  They keep no state the modelled parts decide
by; of the schema only that Postgres may refuse a row matters, and that is in
`StreamConsumer`.

## 6. What comes next

1. The meeting of the episode and outcome writers in one table, on top of the stream model.
2. The scheduler's feed, bar cache and shutdown.
