------------------------------- MODULE Feeds --------------------------------
(***************************************************************************)
(* What the feeds make of what they fetched: positioning (cot_feed.py),    *)
(* inventories (eia_feed.py), macro series (fred_feed.py), options         *)
(* (options_flow_feed.py), carry (signals/carry.py), news (news_feed.py)   *)
(* and prediction markets (polymarket_feed.py).  A fetch that fails gives  *)
(* an empty sequence here as it does there; who answered is data.          *)
(*                                                                         *)
(* Confidences, ratios and ranks are in thousandths and yields in          *)
(* hundredths of a percent, all rounded down.                              *)
(***************************************************************************)
EXTENDS Integers, Sequences, FiniteSets, SequencesExt

AddUp(s) == FoldLeft(LAMBDA x, y : x + y, 0, s)
Least(x, y) == IF x < y THEN x ELSE y
Magnitude(x) == IF x < 0 THEN -x ELSE x

\* The first source that has anything, the order in which they are asked.
FirstAnswer(sources) ==
    IF \A i \in DOMAIN sources : sources[i] = <<>> THEN <<>>
    ELSE sources[CHOOSE i \in DOMAIN sources : /\ sources[i] # <<>>
                                               /\ \A j \in 1..i - 1 : sources[j] = <<>>]

(***************************************************************************)
(* Positioning.  Weekly readings [long, short] of the commercial hedgers,  *)
(* newest first: those in the cache, else this year's and last year's.     *)
(***************************************************************************)
History(cached, current, prior, weeks) ==
    IF cached # <<>> THEN cached
    ELSE SubSeq(current \o prior, 1, Least(weeks, Len(current \o prior)))

\* Ties count a half.
PercentileRank(value, series) ==
    IF Len(series) < 2 THEN 500
    ELSE LET below == Len(SelectSeq(series, LAMBDA x : x < value))
             equal == Len(SelectSeq(series, LAMBDA x : x = value))
         IN  (500 * (2 * below + equal)) \div Len(series)

ClassifySignal(rank) ==
    CASE rank >= 600 -> "BULL"
      [] rank <= 400 -> "BEAR"
      [] OTHER -> "NEUTRAL"

\* A reading without one of the legs is in no series, and is still ranked when newest.
CotSignal(history) ==
    IF history = <<>> THEN [available |-> FALSE]
    ELSE LET whole == SelectSeq(history, LAMBDA r : r.long # 0 /\ r.short # 0)
             nets  == [i \in DOMAIN whole |-> whole[i].long - whole[i].short]
             rank  == PercentileRank(history[1].long - history[1].short, nets)
         IN  [available |-> TRUE, signal |-> ClassifySignal(rank),
              confidence |-> 2 * Magnitude(rank - 500)]

\* The other reader of these reports (commodities_feed.py): what the commercials and
\* the speculators hold net, in hundredths of a percent of the open interest.
SmartMoney(commercials, speculators) ==
    LET damped(strength, crowded) == IF crowded THEN (7 * strength) \div 10 ELSE strength
    IN  CASE commercials > 0 ->
               [signal |-> "BULLISH",
                strength |-> damped(Least(900, commercials), speculators > 2000)]
          [] commercials < -1500 ->
               [signal |-> "BEARISH",
                strength |-> damped(Least(700, -commercials \div 2), speculators < -2000)]
          [] OTHER -> [signal |-> "NEUTRAL", strength |-> 0]

(***************************************************************************)
(* Inventories, newest first: the last weekly change against the mean and  *)
(* the deviation of the four before it.  A larger build is a positive      *)
(* score, and a positive score is called bullish.  A score is the square   *)
(* of the code's z with the sign of z, in ten-thousandths: 1.5 is 22500.   *)
(***************************************************************************)
ComputeSurprise(stocks) ==
    IF Len(stocks) < 6 THEN 0
    ELSE LET change(i) == stocks[i] - stocks[i + 1]
             sum == AddUp([i \in 1..4 |-> change(i + 1)])
             squares == AddUp([i \in 1..4 |-> change(i + 1) * change(i + 1)])
             excess == 4 * change(1) - sum
             spread == 4 * squares - sum * sum
             square == (10000 * excess * excess) \div spread
         IN  CASE spread = 0 -> 0
               [] spread # 0 /\ excess >= 0 -> square
               [] spread # 0 /\ excess < 0 -> -square

Surprised(z) == CASE z > 22500 -> "BULL" [] z < -22500 -> "BEAR" [] OTHER -> "NEUTRAL"

\* The largest of the scores of crude, gasoline and distillate, the first of equals.
Headline(z) ==
    LET i == CHOOSE i \in DOMAIN z : \A j \in DOMAIN z :
                 Magnitude(z[j]) <= Magnitude(z[i]) - (IF j < i THEN 1 ELSE 0)
    IN  [surprise |-> z[i], direction |-> Surprised(z[i])]
PetroleumReport(series) == Headline([i \in DOMAIN series |-> ComputeSurprise(series[i])])

\* Its score is filed as z_score, where the analyst looks for surprise_z_score: 0.
NatgasReport(stocks) == [surprise |-> 0, direction |-> Surprised(ComputeSurprise(stocks))]

(***************************************************************************)
(* Macro series, newest first, in hundredths: what is missing in them is   *)
(* left out, so that the observation a month back may be an older one.     *)
(***************************************************************************)
\* The last value, its change over 21 observations, or as many as there are, and that
\* over 10 in thousandths of a percent.
LatestAndChange(obs) ==
    LET back(n) == obs[Least(n, Len(obs) - 1) + 1]
    IN  IF obs = <<>> THEN [available |-> FALSE, latest |-> 0, month |-> 0, fortnight |-> 0]
        ELSE [available |-> TRUE, latest |-> obs[1], month |-> obs[1] - back(21),
              fortnight |-> IF back(10) = 0 THEN 0
                            ELSE (100000 * (obs[1] - back(10))) \div back(10)]

\* The direction each cascade that fired carries, in the order they are looked for.
CascadeSignals(macro) ==
    LET of(series) == LatestAndChange(macro[series])
        when(fired, direction) == IF fired THEN <<direction>> ELSE <<>>
    IN  when(of("oil").fortnight > 5000 /\ of("cpi").month > 0, "BEARISH_RATES_SENSITIVE")
     \o when(of("vix").latest > 2500 /\ of("vix").month > 500, "RISK_OFF_THEN_RECOVERY")
     \o when(of("spread").available /\ of("spread").latest < 0, "REDUCE_RISK_MEDIUM_TERM")
     \o when(of("dgs2").month > 15 /\ of("dgs2").month > of("dgs10").month + 10,
             "BEARISH_FINANCIALS_CRYPTO")

(***************************************************************************)
(* Options.  A flow is [put, premium, size], premiums in thousands.        *)
(***************************************************************************)
CallPutRatio(flows) ==
    LET premium(put) == AddUp([i \in DOMAIN flows |->
                                  IF flows[i].put = put THEN flows[i].premium ELSE 0])
    IN  CASE premium(TRUE) > 0 -> (1000 * premium(FALSE)) \div premium(TRUE)
          [] premium(TRUE) = 0 /\ premium(FALSE) > 0 -> 9990
          [] OTHER -> 1000

\* At least three deviations above the mean, of four sizes or more: trades of one size
\* are all unusual.
UnusualTrades(flows) ==
    LET sized == SelectSeq(flows, LAMBDA f : f.size > 0)
        n     == Len(sized)
        sum   == AddUp([i \in 1..n |-> sized[i].size])
        squares == AddUp([i \in 1..n |-> sized[i].size * sized[i].size])
        above(f) == n * f.size - sum
    IN  IF n < 4 THEN {}
        ELSE {i \in DOMAIN flows :
                 /\ above(flows[i]) >= 0
                 /\ above(flows[i]) * above(flows[i]) * (n - 1)
                        >= 9 * n * (n * squares - sum * sum)}

Institutional(flows) == AddUp([i \in DOMAIN flows |-> flows[i].premium]) > 500 * Len(flows)

OptionsSignal(flows) ==
    LET ratio  == CallPutRatio(flows)
        signal == CASE ratio >= 1500 -> "BULL" [] ratio <= 600 -> "BEAR" [] OTHER -> "NEUTRAL"
        base   == CASE signal = "BULL" -> Least(750, 450 + (3 * (ratio - 1500)) \div 20)
                    [] signal = "BEAR" -> Least(750, 450 + (600 - ratio) \div 5)
                    [] signal = "NEUTRAL" -> 0
        unusual == Least(850, base + Least(100, 30 * Cardinality(UnusualTrades(flows))))
    IN  [signal |-> IF flows = <<>> THEN "NEUTRAL" ELSE signal,
         confidence |-> CASE flows = <<>> -> 0
                          [] flows # <<>> /\ Institutional(flows) /\ signal # "NEUTRAL"
                                -> Least(850, unusual + 50)
                          [] OTHER -> unusual]

(***************************************************************************)
(* Carry: the annualised roll yield of a commodity, half a percent of it   *)
(* being a signal and ten a certainty, and against the crowd the funding   *)
(* of a perpetual, in millionths for eight hours.                          *)
(***************************************************************************)
CommodityCarry(front, second) ==
    LET yield == (10000 * (front - second) * 73) \div (second * 6)
    IN  [signal |-> CASE yield > 50 -> "BULL" [] yield < -50 -> "BEAR" [] OTHER -> "NEUTRAL",
         confidence |-> Least(1000, Magnitude(yield))]

CryptoCarry(funding) ==
    CASE funding >= 1000 -> [signal |-> "BEAR", confidence |-> Least(1000, funding - 1000)]
      [] funding <= -100 -> [signal |-> "BULL", confidence |-> 1000]
      [] OTHER -> [signal |-> "NEUTRAL", confidence |-> 0]

(***************************************************************************)
(* Prediction markets [id, words, yes, volume], yes in thousandths: the    *)
(* first of each id, if its question is about something traded and it is   *)
(* liquid, the largest first.  Those about the macro outlook move the      *)
(* conviction of any symbol, those about a symbol only XRP's.              *)
(***************************************************************************)
\* A question is about the first of these it mentions.
ExtractSignal(m) ==
    LET about(topic) == <<[about |-> topic, yes |-> m.yes, volume |-> m.volume]>>
    IN  CASE "XRP" \in m.words -> about("XRP")
          [] "XRP" \notin m.words /\ "BTC" \in m.words -> about("BTC")
          [] {"XRP", "BTC"} \cap m.words = {} /\ "MACRO" \in m.words -> about("MACRO")
          [] m.words = {"CRYPTO"} -> about("CRYPTO")
          [] OTHER -> <<>>

TradingSignals(markets) ==
    LET first(i) == \A j \in 1..i - 1 : markets[j].id # markets[i].id
        kept == FlattenSeq([i \in DOMAIN markets |->
                              IF first(i) THEN ExtractSignal(markets[i]) ELSE <<>>])
        liquid == SortSeq(SelectSeq(kept, LAMBDA m : m.volume > 1000),
                          LAMBDA x, y : x.volume > y.volume)
    IN  SubSeq(liquid, 1, Least(15, Len(liquid)))

ConvictionBoost(base, markets) ==
    LET relevant == SelectSeq(TradingSignals(markets),
                              LAMBDA m : m.about \in {base, "MACRO", "CRYPTO"})
        top(about) == LET kept == SelectSeq(relevant, LAMBDA m : m.about = about)
                      IN  SubSeq(kept, 1, Least(3, Len(kept)))
        xrp(m)   == IF m.yes > 700 \/ m.yes < 300 THEN (m.yes - 500) \div 10 ELSE 0
        macro(m) == IF m.yes > 700 THEN 20 ELSE 0
        boost == AddUp([i \in DOMAIN top("XRP") |-> xrp(top("XRP")[i])])
                   + AddUp([i \in DOMAIN top("MACRO") |-> macro(top("MACRO")[i])])
    IN  IF boost < -200 THEN -200 ELSE Least(200, boost)

(***************************************************************************)
(* News, for a day: what is cached, be it nothing, else what the news      *)
(* service has, else (without a key, or when it fails) what the quotes     *)
(* page lists.                                                             *)
(***************************************************************************)
GetHeadlines(n) ==
    CASE n.cached # <<>> -> n.cached[1]
      [] n.cached = <<>> /\ n.key /\ n.newsapi # <<>>
           -> SelectSeq(n.newsapi[1], LAMBDA a : a.titled)
      [] OTHER -> SelectSeq(n.rss, LAMBDA item : ~item.old)

\* What the word lists make of a headline, from -1000 to 1000.
Scored(compound) ==
    CASE compound >= 50 -> [positive |-> 500 + compound \div 2, negative |-> 100, neutral |-> 400]
      [] compound <= -50 -> [positive |-> 100, negative |-> 500 - compound \div 2, neutral |-> 400]
      [] OTHER -> [positive |-> 200, negative |-> 200, neutral |-> 600]
=============================================================================
