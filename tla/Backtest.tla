------------------------------ MODULE Backtest ------------------------------
(***************************************************************************)
(* The back-tester: the engine that replays bars through a strategy        *)
(* (engine.py), the measures of a run (metrics.py), the walk-forward       *)
(* validator that runs the engine twice per window (walk_forward.py) and   *)
(* the safeguard against results a language model may remember             *)
(* (validation.py).                                                        *)
(*                                                                         *)
(* A job is a strategy, a tape of bars and the number of its windows, 0    *)
(* for a single back-test.  It replays its segments one after the other,   *)
(* each in an engine of its own, one bar per step.  Money is in cents and  *)
(* quantities in thousandths, rounded down.  A Sharpe ratio is whatever    *)
(* its sign can be: the square root it is divided by is left out.          *)
(***************************************************************************)
EXTENDS Strategies, Integers, Sequences, FiniteSets

CONSTANTS
    InitialEquity,
    MinPerWindow,    \* bars a window needs on average (20)
    MinSegment,      \* bars either part of a window needs (5)
    TrainPct,        \* percent of a window that is in-sample (70)
    Sharpes,         \* the Sharpe ratios a run with trades may have
    Cutoff           \* the bar of the language model's knowledge cut-off

ASSUME BacktestAssumption ==
    /\ InitialEquity \in Nat /\ MinPerWindow \in Nat /\ MinSegment \in Nat \ {0}
    /\ TrainPct \in 0..100 /\ Sharpes \subseteq Int /\ Cutoff \in Nat

VARIABLES
    job,       \* [strategy, bias, coverage, tape, windows]
    segment,   \* the index of the segment being replayed, 0 before the first
    at,        \* bars of it that were processed
    engine,    \* the BacktestEngine replaying it
    results,   \* what is kept of the segments replayed, in order
    verdict    \* what the job concluded, NoVerdict before

backtestVars == <<job, segment, at, engine, results, verdict>>

Flat == [entry |-> 0]
NoVerdict == "none"

\* fees, what entries have cost, is for the properties.
NewEngine == [position |-> Flat, equity |-> InitialEquity, curve |-> <<InitialEquity>>,
              trades |-> <<>>, fees |-> 0]

(***************************************************************************)
(* Which bars each engine is given.                                        *)
(***************************************************************************)
WindowSize == Len(job.tape) \div job.windows
Split == (WindowSize * TrainPct) \div 100

\* The two halves of window i; the bars left over by the division are in no window.
InSample(i) == [from |-> (i - 1) * WindowSize + 1, to |-> (i - 1) * WindowSize + Split,
                window |-> i, oos |-> FALSE]
OutOfSample(i) == [from |-> (i - 1) * WindowSize + Split + 1, to |-> i * WindowSize,
                   window |-> i, oos |-> TRUE]

\* A window with a half too short is skipped: all of them are of the same size.
Segments ==
    CASE job.windows = 0 ->
           <<[from |-> 1, to |-> Len(job.tape), window |-> 0, oos |-> FALSE]>>
      [] job.windows > 0 /\ (Split < MinSegment \/ WindowSize - Split < MinSegment) -> <<>>
      [] OTHER -> [k \in 1..2 * job.windows |->
                     IF k % 2 = 1 THEN InSample((k + 1) \div 2) ELSE OutOfSample(k \div 2)]

(***************************************************************************)
(* The engine: slippage of 0.05% against the trade, commission of 0.1%,    *)
(* 2% of the equity in each position.  A position is closed at the close   *)
(* of the bar whatever stop or target it went through.                     *)
(***************************************************************************)
ApplySlippage(price, isBuy) == IF isBuy THEN price + price \div 2000 ELSE price - price \div 2000
ApplyCommission(value) == value \div 1000
Worth(quantity, price) == (quantity * price) \div 1000

EnterLong(e, i, bar, signal) ==
    LET entry == ApplySlippage(bar.close, TRUE)
        value == e.equity \div 50
    IN  [e EXCEPT !.equity = @ - ApplyCommission(value), !.fees = @ + ApplyCommission(value),
                  !.position = [entry |-> entry, quantity |-> (1000 * value) \div entry,
                                at |-> i, stop |-> signal.stop, target |-> signal.target]]

ExitPosition(e, i, bar, reason) ==
    LET p     == e.position
        exit  == ApplySlippage(bar.close, FALSE)
        value == Worth(p.quantity, exit)
        pnl   == value - Worth(p.quantity, p.entry) - ApplyCommission(value)
    IN  [e EXCEPT !.equity = @ + pnl, !.position = Flat,
                  !.trades = Append(@, [from |-> p.at, to |-> i, pnl |-> pnl,
                                        reason |-> reason])]

CheckStops(e, i, bar) ==
    CASE e.position # Flat /\ bar.low <= e.position.stop -> ExitPosition(e, i, bar, "STOP_LOSS")
      [] /\ e.position # Flat
         /\ bar.low > e.position.stop /\ bar.high >= e.position.target
           -> ExitPosition(e, i, bar, "TAKE_PROFIT")
      [] OTHER -> e

Act(e, i, bar, signal) ==
    CASE signal.action = "BUY" /\ e.position = Flat -> EnterLong(e, i, bar, signal)
      [] signal.action = "SELL" /\ e.position # Flat -> ExitPosition(e, i, bar, "SIGNAL")
      [] OTHER -> e

\* One bar of BacktestEngine.run.  The curve takes the equity as it was before the
\* bar, and the strategy the bars before it: of this segment, and of no other.
ProcessBar(e, i, bar, history) ==
    LET checked == CheckStops([e EXCEPT !.curve = Append(@, e.equity)], i, bar)
    IN  Act(checked, i, bar, Strategy(job.strategy, bar, history, job.bias))

\* What is still open goes at the last close: into the trades, and not into the curve.
EndOfData(e, i, bar) == IF e.position = Flat THEN e ELSE ExitPosition(e, i, bar, "END_OF_DATA")

(***************************************************************************)
(* metrics.py.                                                             *)
(***************************************************************************)
Wins(trades) == {i \in DOMAIN trades : trades[i].pnl > 0}
TotalPnl(trades) == SumOf([i \in DOMAIN trades |-> trades[i].pnl])

\* The deepest fall from an earlier peak, in absolute terms.
MaxDrawdown(curve) ==
    Highest([k \in DOMAIN curve |-> Highest(SubSeq(curve, 1, k)) - curve[k]])

\* Without trades every measure is 0.  A curve that never moves rates 0 as well.
SharpesOf(e) ==
    CASE e.trades = <<>> \/ Highest(e.curve) = Lowest(e.curve) -> {0}
      [] \A k \in 2..Len(e.curve) : e.curve[k] <= e.curve[k - 1] -> {s \in Sharpes : s < 0}
      [] OTHER -> Sharpes

CalculateMetrics(e, sharpe) ==
    [sharpe |-> sharpe, trades |-> Len(e.trades), winning |-> Cardinality(Wins(e.trades)),
     pnl |-> TotalPnl(e.trades), drawdown |-> MaxDrawdown(e.curve),
     final |-> e.curve[Len(e.curve)]]

(***************************************************************************)
(* validation.py, with days counted in bars of the tape.  A pair with USD  *)
(* in its name is of high coverage, as names are looked for anywhere in it.*)
(***************************************************************************)
CheckMemorizationRisk(coverage, first, last) ==
    CASE last < Cutoff /\ coverage # "low" -> "HIGH"
      [] last >= Cutoff /\ first < Cutoff /\ coverage = "high" -> "MEDIUM"
      [] OTHER -> "LOW"

\* In quarters of the Sharpe ratio.
ValidateBacktestResult(sharpe, risk) ==
    [trustworthy |-> risk = "LOW",
     adjusted |-> CASE risk = "HIGH" -> 2 * sharpe
                    [] risk = "MEDIUM" -> 3 * sharpe
                    [] risk = "LOW" -> 4 * sharpe]

(***************************************************************************)
(* walk_forward.py: the sums stand for the averages, as both are over the  *)
(* same number of windows.                                                 *)
(***************************************************************************)
SharpeSum(oos) ==
    SumOf([i \in DOMAIN results |-> IF results[i].oos = oos THEN results[i].metrics.sharpe ELSE 0])

\* The ratio of the averages, of which the second is positive, rounded to four places;
\* the limits 2.0 and 3.0 it is held against.
Degradation == (20000 * SharpeSum(FALSE) + SharpeSum(TRUE)) \div (2 * SharpeSum(TRUE))
Acceptable == 20000
Excessive == 30000

\* faulty variant: the degradation alone.
IsRobustByRatio == IF SharpeSum(TRUE) > 0 THEN Degradation < Acceptable ELSE SharpeSum(FALSE) <= 0

\* Degradation is infinite when only the in-sample average is positive, and 1 when it
\* is not positive itself.
IsRobust == SharpeSum(TRUE) > 0 /\ Degradation < Acceptable

Overfit ==
    \/ SharpeSum(FALSE) > 0 /\ SharpeSum(TRUE) <= 0
    \/ SharpeSum(TRUE) > 0 /\ Degradation > Excessive

(***************************************************************************)
(* The steps of a job.                                                     *)
(***************************************************************************)
BacktestInit(Jobs) ==
    /\ job \in Jobs
    /\ segment = 0 /\ at = 0
    /\ engine = NewEngine
    /\ results = <<>> /\ verdict = NoVerdict

\* A single test needs a bar, a walk MinPerWindow of them for each window.
Refuse ==
    /\ segment = 0 /\ verdict = NoVerdict
    /\ job.tape = <<>> \/ Len(job.tape) < job.windows * MinPerWindow
    /\ verdict' = "error"
    /\ UNCHANGED <<job, segment, at, engine, results>>

\* faulty variant: one engine for all segments
NextSegmentSameEngine ==
    /\ verdict = NoVerdict
    /\ job.tape # <<>> /\ Len(job.tape) >= job.windows * MinPerWindow
    /\ segment = Len(results) /\ segment < Len(Segments)
    /\ segment' = segment + 1 /\ at' = 0
    /\ UNCHANGED <<job, engine, results, verdict>>

NextSegment ==
    /\ verdict = NoVerdict
    /\ job.tape # <<>> /\ Len(job.tape) >= job.windows * MinPerWindow
    /\ segment = Len(results) /\ segment < Len(Segments)
    /\ segment' = segment + 1 /\ at' = 0
    /\ engine' = NewEngine
    /\ UNCHANGED <<job, results, verdict>>

Bar ==
    /\ segment > Len(results)
    /\ at < Segments[segment].to - Segments[segment].from + 1
    /\ at' = at + 1
    /\ LET i == Segments[segment].from + at
       IN  engine' = ProcessBar(engine, i, job.tape[i], SubSeq(job.tape, i - at, i - 1))
    /\ UNCHANGED <<job, segment, results, verdict>>

\* The last close, the measures and, by the engine itself, the assessment of the risk.
EndSegment ==
    /\ segment > Len(results)
    /\ at = Segments[segment].to - Segments[segment].from + 1
    /\ LET s == Segments[segment]
           done == EndOfData(engine, s.to, job.tape[s.to])
       IN  \E sharpe \in SharpesOf(done) :
             /\ engine' = done
             /\ results' = Append(results,
                  [oos |-> s.oos, trades |-> done.trades,
                   metrics |-> CalculateMetrics(done, sharpe),
                   valid |-> ValidateBacktestResult(sharpe,
                               CheckMemorizationRisk(job.coverage, s.from, s.to))])
    /\ UNCHANGED <<job, segment, at, verdict>>

Conclude ==
    /\ verdict = NoVerdict /\ segment = Len(results) /\ segment = Len(Segments)
    /\ job.tape # <<>> /\ Len(job.tape) >= job.windows * MinPerWindow
    /\ verdict' = CASE job.windows = 0 -> "done"
                    [] job.windows > 0 /\ IsRobust -> "robust"
                    [] job.windows > 0 /\ Overfit -> "overfit"
                    [] OTHER -> "weak"
    /\ UNCHANGED <<job, segment, at, engine, results>>
=============================================================================
