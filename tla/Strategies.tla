---------------------------- MODULE Strategies ----------------------------
(***************************************************************************)
(* The strategies of the back-tester (backtesting/strategies.py) and the   *)
(* momentum factor two of them are built on (signals/momentum.py), as      *)
(* operators of the bar being decided on and of the bars before it.        *)
(*                                                                         *)
(* Prices are integers (hundredths of the quote currency), a comparison    *)
(* of two averages is a comparison of sums scaled to the same length, and  *)
(* a stop or a target is a number of parts in 10,000 of the close.  The look-  *)
(* backs are constants: the defaults (10, 20, 14, 10 bars) are only long.  *)
(***************************************************************************)
EXTENDS Integers, Sequences, SequencesExt

CONSTANTS
    Fast, Slow,      \* bars of the two averages of sma_crossover
    Period,          \* bars of the RSI
    Lookback         \* bars the other strategies look back

ASSUME StrategiesAssumption ==
    /\ Fast \in 1..Slow /\ Slow \in Nat
    /\ Period \in Nat \ {0}
    /\ Lookback \in Nat /\ Lookback >= 3

NoSignal == [action |-> "none"]
Sell == [action |-> "SELL"]

\* A BUY with its bracket, in ten-thousandths of the close.
Buy(bar, stop, target) ==
    [action |-> "BUY",
     stop |-> (bar.close * stop) \div 10000, target |-> (bar.close * target) \div 10000]

Newest(s, n) == SubSeq(s, Len(s) - n + 1, Len(s))
Closes(bars) == [i \in DOMAIN bars |-> bars[i].close]
Volumes(bars) == [i \in DOMAIN bars |-> bars[i].volume]
SumOf(s) == FoldLeft(LAMBDA x, y : x + y, 0, s)
Highest(s) == CHOOSE x \in ToSet(s) : \A y \in ToSet(s) : y <= x
Lowest(s) == CHOOSE x \in ToSet(s) : \A y \in ToSet(s) : x <= y

\* volume / average > tenths / 10; an average of 0 counts as a ratio of 1.
VolumeOver(bar, volumes, tenths) ==
    IF SumOf(volumes) > 0 THEN 10 * bar.volume * Len(volumes) > tenths * SumOf(volumes)
                          ELSE 10 > tenths

\* The average of the newest Fast closes less that of the newest Slow, up to scale.
Spread(closes) == Slow * SumOf(Newest(closes, Fast)) - Fast * SumOf(Newest(closes, Slow))

\* The averages before are those of two bars ago: the bar just before is in neither.
SmaCrossover(bar, history) ==
    IF Len(history) < Slow + 1 THEN NoSignal
    ELSE LET now    == Spread(Newest(Closes(history), Slow) \o <<bar.close>>)
             before == Spread(SubSeq(Closes(history), Len(history) - Slow, Len(history) - 1))
         IN  CASE before <= 0 /\ now > 0 -> Buy(bar, 9800, 10400)
               [] before >= 0 /\ now < 0 -> Sell
               [] OTHER -> NoSignal

\* Gains and losses are averaged over the bars that gained and the bars that lost;
\* a window without a loss rates 100, one without any move included.
RsiMeanReversion(bar, history) ==
    IF Len(history) < Period + 1 THEN NoSignal
    ELSE LET closes == Newest(Closes(history) \o <<bar.close>>, Period + 1)
             deltas == [i \in 1..Period |-> closes[i + 1] - closes[i]]
             gains  == SelectSeq(deltas, LAMBDA d : d > 0)
             losses == SelectSeq(deltas, LAMBDA d : d < 0)
             gain   == SumOf(gains) * Len(losses)
             loss   == -SumOf(losses) * (IF gains = <<>> THEN 1 ELSE Len(gains))
         IN  CASE losses # <<>> /\ 7 * gain < 3 * loss -> Buy(bar, 9700, 10600)
               [] losses = <<>> \/ 3 * gain > 7 * loss -> Sell
               [] OTHER -> NoSignal

XrpMomentum(bar, history) ==
    IF Len(history) < Lookback THEN NoSignal
    ELSE LET closes == Newest(Closes(history), Lookback)
             high == Highest(closes)
             low  == Lowest(closes)
         IN  CASE 100 * bar.close > 101 * high /\ 100 * (high - low) > 3 * low
                    -> Buy(bar, 9600, 11200)
               [] 100 * bar.close < 99 * low -> Sell
               [] OTHER -> NoSignal

\* The deviation is from the average of the closes before the bar; the fade needs a
\* larger deviation on less volume, so that the two branches exclude each other.
GoldSafeHaven(bar, history) ==
    IF Len(history) < Lookback THEN NoSignal
    ELSE LET closes  == Newest(Closes(history), Lookback)
             volumes == Newest(Volumes(history), Lookback)
             deviates(thousandths) ==
                 1000 * (Lookback * bar.close - SumOf(closes)) > thousandths * SumOf(closes)
         IN  CASE deviates(12) /\ VolumeOver(bar, volumes, 15) -> Buy(bar, 9850, 10400)
               [] /\ deviates(40)
                  /\ SumOf(volumes) > 0
                  /\ 10 * bar.volume * Lookback < 8 * SumOf(volumes) -> Sell
               [] OTHER -> NoSignal

CommodityMomentum(bar, history) ==
    IF Len(history) < Lookback + 5 THEN NoSignal
    ELSE LET closes == Newest(Closes(history), Lookback + 1) \o <<bar.close>>
             past   == closes[1]
             recent == SumOf(SubSeq(closes, Lookback - 1, Lookback + 1))
             prior  == SubSeq(closes, 1, Lookback - 2)
             moved(thousandths) == 1000 * (bar.close - past) > thousandths * past
             \* (recent / 3) / (prior / n) - 1 against half a percent
             accelerates == 200 * (recent * Len(prior) - 3 * SumOf(prior)) > 3 * SumOf(prior)
             brakes == 200 * (recent * Len(prior) - 3 * SumOf(prior)) < -3 * SumOf(prior)
             heavy == VolumeOver(bar, Newest(Volumes(history), Lookback), 12)
         IN  CASE moved(15) /\ accelerates /\ heavy -> Buy(bar, 9775, 10450)
               [] 1000 * (bar.close - past) < -15 * past /\ brakes /\ heavy -> Sell
               [] OTHER -> NoSignal

\* bias is the table's entry, in tenths of a percent, for the month in which the
\* test is RUN (date.today()), not for the month of the bar.
SeasonalCommodity(bar, history, bias) ==
    IF Len(history) < 5 THEN NoSignal
    ELSE LET moved == 1000 * (bar.close - Closes(Newest(history, 5))[1])
             half  == 5 * Closes(Newest(history, 5))[1]
         IN  CASE bias > 10 /\ moved > half -> Buy(bar, 9820, 10000 + 30 * bias)
               [] bias < -10 /\ moved < -half -> Sell
               [] OTHER -> NoSignal

\* In thousandths: the price skip-1 bars ago over the one lookback-1 bars ago, as
\* prices[-1] is the newest.  Nothing is skipped when skip is 1, the default.
CalculateMomentum(prices, lookback, skip) ==
    IF Len(prices) < lookback + skip \/ Newest(prices, lookback)[1] <= 0 THEN 0
    ELSE LET start == Newest(prices, lookback)[1]
         IN  (1000 * (prices[Len(prices) - skip + 1] - start)) \div start

\* momentum_12_1 and, but for one more bar of history and a size it returns beside,
\* risk_parity_momentum: target 1.5 times the score above the close.
Momentum(bar, history, extra) ==
    IF Len(history) < Lookback + 1 + extra THEN NoSignal
    ELSE LET prices == Newest(Closes(history), Lookback + 1 + extra) \o <<bar.close>>
             score  == CalculateMomentum(prices, Lookback, 1)
         IN  CASE score > 50 -> Buy(bar, 9600, 10000 + 15 * score)
               [] score < -50 -> Sell
               [] OTHER -> NoSignal

Momentum121(bar, history) == Momentum(bar, history, 0)
RiskParityMomentum(bar, history) == Momentum(bar, history, 1)

\* AVAILABLE_STRATEGIES, and the two defined after it.
Strategy(name, bar, history, bias) ==
    CASE name = "sma_crossover" -> SmaCrossover(bar, history)
      [] name = "rsi_mean_reversion" -> RsiMeanReversion(bar, history)
      [] name = "xrp_momentum" -> XrpMomentum(bar, history)
      [] name = "gold_safe_haven" -> GoldSafeHaven(bar, history)
      [] name = "commodity_momentum" -> CommodityMomentum(bar, history)
      [] name = "seasonal_commodity" -> SeasonalCommodity(bar, history, bias)
      [] name = "momentum_12_1" -> Momentum121(bar, history)
      [] name = "risk_parity_momentum" -> RiskParityMomentum(bar, history)
=============================================================================
