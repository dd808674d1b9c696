------------------------------- MODULE Voices -------------------------------
(***************************************************************************)
(* What each research agent says of a symbol, given what it was told: at   *)
(* most one signal of direction and confidence (in thousandths), as a      *)
(* sequence.  The report an agent is given is its feeds' answer (Feeds),   *)
(* the language model's, or both.                                          *)
(*                                                                         *)
(* A language model's answer is [kind |-> "raises"], [kind |-> "prose"]    *)
(* without an object in it, or [kind |-> "json", direction, confidence].   *)
(***************************************************************************)
EXTENDS Feeds

Silent == <<>>
Say(direction, confidence) == <<[direction |-> direction, confidence |-> confidence]>>
Side(signal) == CASE signal = "BULL" -> "LONG" [] signal = "BEAR" -> "SHORT" [] OTHER -> "NEUTRAL"

Coins == {"XRP", "BTC", "ETH"}
Commodities == {"GC", "CL", "NG"}

(***************************************************************************)
(* Agents that ask a language model.                                       *)
(***************************************************************************)
\* Prose is read as an object without fields; an answer is not held to any range.
Answer(answer, default) ==
    CASE answer.kind = "raises" -> Silent
      [] answer.kind = "prose" -> Say("NEUTRAL", default)
      [] answer.kind = "json" -> Say(answer.direction, answer.confidence)

Llm(symbol, r) == Answer(r.answer, 500)
XrpAnalyst(symbol, r) == IF symbol = "XRP" THEN Answer(r.answer, 500) ELSE Silent

\* Each cascade that points the same way adds 50, up to the cap.  The snapshot the
\* cascades are read from is another than the one the model was shown.
MacroAnalyst(symbol, r) ==
    LET said == Answer(r.answer, 400)
        aligned == Len(SelectSeq(CascadeSignals(r.macro),
                       LAMBDA d : d \in {"BEARISH_RATES_SENSITIVE", "BEARISH_FINANCIALS_CRYPTO"}))
    IN  IF symbol \notin {"XRP", "BTC", "GC", "CL"} \/ said = Silent THEN Silent
        ELSE Say(said[1].direction,
                 Least(700, Least(700, said[1].confidence)
                              + (IF said[1].direction = "SHORT" THEN 50 * aligned ELSE 0)))

\* Without a key, or when the model raises, the rank speaks for itself.
RuleBased(cot) == Say(Side(cot.signal), cot.confidence)
LlmAnalysis(cot, answer) ==
    IF answer.kind = "raises" THEN RuleBased(cot) ELSE Answer(answer, 500)

CotAnalyst(symbol, r) ==
    LET cot == CotSignal(r.history)
    IN  CASE symbol \notin Commodities \/ ~cot.available -> Silent
          [] symbol \in Commodities /\ cot.available /\ r.key -> LlmAnalysis(cot, r.answer)
          [] OTHER -> RuleBased(cot)

(***************************************************************************)
(* Agents that compute.                                                    *)
(***************************************************************************)
\* Crude on Wednesdays and gas on Thursdays, within four hours of the release.
ActiveReport(symbol, day, hours) ==
    \/ symbol = "CL" /\ day = "Wednesday" /\ hours <= 4
    \/ symbol = "NG" /\ day = "Thursday" /\ hours <= 4

\* The direction is the feed's, BULL or BEAR, and not LONG or SHORT.
Graded(report) ==
    LET z == Magnitude(report.surprise)
    IN  Say(IF z >= 22500 THEN report.direction ELSE "NEUTRAL",
            CASE z >= 90000 -> 950
              [] z >= 40000 /\ z < 90000 -> 800
              [] z >= 22500 /\ z < 40000 -> 650
              [] z < 22500 -> 350)

EiaAnalyst(symbol, r) ==
    CASE ~ActiveReport(symbol, r.day, r.hours) -> Silent
      [] ActiveReport(symbol, r.day, r.hours) /\ symbol = "CL" -> Graded(PetroleumReport(r.series))
      [] OTHER -> IF r.series[1] = <<>> THEN Silent ELSE Graded(NatgasReport(r.series[1]))

Convinced(s) ==
    IF s.confidence >= 600 /\ s.signal # "NEUTRAL"
    THEN Say(Side(s.signal), Least(850, s.confidence)) ELSE Silent

OptionsFlow(symbol, r) ==
    IF symbol \in {"BTC", "ETH", "GC", "CL"}
    THEN Convinced(OptionsSignal(FirstAnswer(r.sources))) ELSE Silent

\* From two prices up: what the last five returned against the last twenty.  It asks
\* the state for a market_regime, which no node can leave there, and reads RANGING: the
\* volatile market it means to sit out is never seen.
Momentum5v20(prices) ==
    LET back(n) == prices[Len(prices) - Least(n, Len(prices)) + 1]
        return(n) == (10000 * (prices[Len(prices)] - back(n))) \div back(n)
        score == return(5) - return(20)
    IN  IF Len(prices) < 2 \/ Magnitude(score) < 200 THEN Silent
        ELSE Say(IF score > 0 THEN "LONG" ELSE "SHORT", Least(850, Magnitude(score)))

Carry(symbol, r) ==
    LET s == IF symbol \in Coins THEN CryptoCarry(r.funding)
                                 ELSE CommodityCarry(r.front, r.second)
    IN  IF ~r.error /\ s.signal # "NEUTRAL" /\ s.confidence >= 50
        THEN Say(Side(s.signal), s.confidence) ELSE Silent

\* Of headlines, each weighed by its age: the sum of the weights, of the scores and of
\* the surest labels.
AnalyzeSentiment(h) ==
    LET top(x) == IF x.positive >= x.negative /\ x.positive >= x.neutral THEN x.positive
                  ELSE IF x.negative >= x.neutral THEN x.negative ELSE x.neutral
        said(i) == Scored(h[i].compound)
    IN  [weight |-> AddUp([i \in DOMAIN h |-> h[i].weight]),
         score  |-> AddUp([i \in DOMAIN h |-> (said(i).positive - said(i).negative) * h[i].weight]),
         belief |-> AddUp([i \in DOMAIN h |-> top(said(i)) * h[i].weight])]

Felt(s) ==
    IF s.weight = 0 \/ Magnitude(s.score) < 150 * s.weight THEN Silent
    ELSE Say(IF s.score > 0 THEN "LONG" ELSE "SHORT", s.belief \div s.weight)

SentimentAnalyst(symbol, r) ==
    LET h == GetHeadlines(r.news)
    IN  IF Len(h) < 3 THEN Silent ELSE Felt(AnalyzeSentiment(h))

(***************************************************************************)
(* Copy trading: the side the leaders are on, what whales move to and from *)
(* exchanges, and for a commodity its commercials.  It always says         *)
(* something, in words of its own; for any other coin its code names a     *)
(* function only the commodities define, raises and is silent.             *)
(***************************************************************************)
Lean(scores, side, amount) == [scores EXCEPT ![side] = @ + amount]

\* Traders whose positions could be read, each [ours, amount]: any amount that is not
\* positive counts as short.
TopTraders(traders) ==
    LET ours == SelectSeq(FlattenSeq(traders), LAMBDA p : p.ours)
    IN  [i \in DOMAIN ours |-> IF ours[i].amount > 0 THEN "LONG" ELSE "SHORT"]

\* Payments [native, amount, from, to] of the wallets that answered, in thousands: the
\* large ones, to an exchange to be sold, from one to be kept.
WhaleMoves(wallets) ==
    LET large == SelectSeq(FlattenSeq(wallets), LAMBDA p : p.native /\ p.amount >= 500)
    IN  [i \in DOMAIN large |->
            [amount |-> large[i].amount,
             direction |-> CASE large[i].to = "exchange" -> "BEARISH"
                             [] large[i].to # "exchange" /\ large[i].from = "exchange" -> "BULLISH"
                             [] OTHER -> "NEUTRAL"]]

GetCotSmartMoney(cot) ==
    IF cot = <<>> THEN [signal |-> "NEUTRAL", strength |-> 0]
    ELSE SmartMoney(cot[1].commercials, cot[1].speculators)

Leaders(scores, sides) ==
    LET all   == Len(sides)
        long  == Len(SelectSeq(sides, LAMBDA s : s = "LONG"))
        short == all - long
    IN  CASE all = 0 -> scores
          [] all > 0 /\ 10 * long > 6 * all -> Lean(scores, "BULLISH", (350 * long) \div all)
          [] all > 0 /\ 10 * short > 6 * all -> Lean(scores, "BEARISH", (350 * short) \div all)
          [] OTHER -> Lean(scores, "NEUTRAL", 350)

Whales(scores, moves) ==
    LET volume(way) == AddUp([i \in DOMAIN moves |->
                                 IF moves[i].direction = way THEN moves[i].amount ELSE 0])
        bought == volume("BULLISH")
        sold   == volume("BEARISH")
    IN  CASE moves = <<>> -> scores
          [] moves # <<>> /\ 2 * bought > 3 * sold
               -> Lean(scores, "BULLISH", (350 * bought) \div (bought + sold))
          [] moves # <<>> /\ 2 * sold > 3 * bought
               -> Lean(scores, "BEARISH", (350 * sold) \div (bought + sold))
          [] OTHER -> Lean(scores, "NEUTRAL", 175)

Strongest(all) ==
    CASE all.BULLISH >= all.BEARISH /\ all.BULLISH >= all.NEUTRAL -> Say("BULLISH", all.BULLISH)
      [] all.BULLISH < all.BEARISH /\ all.BEARISH >= all.NEUTRAL -> Say("BEARISH", all.BEARISH)
      [] OTHER -> Say("NEUTRAL", all.NEUTRAL)

Commercials(scores, cot) ==
    IF cot.signal = "NEUTRAL" THEN Lean(scores, "NEUTRAL", 150)
    ELSE Lean(scores, cot.signal, (3 * cot.strength) \div 10)

AggregateSignals(r, commodity) ==
    LET none == [BULLISH |-> 0, BEARISH |-> 0, NEUTRAL |-> 0]
    IN  Strongest(IF commodity THEN Commercials(none, GetCotSmartMoney(r.cot))
                  ELSE Whales(Leaders(none, TopTraders(r.traders)), WhaleMoves(r.wallets)))

CopyTradeScout(symbol, r) ==
    IF symbol = "XRP" \/ symbol \in Commodities
    THEN AggregateSignals(r, symbol \in Commodities) ELSE Silent

(***************************************************************************)
(* Who speaks, and whose signals go on the stream as well: the momentum    *)
(* agent's never, the copy trader's from its least confidence on.          *)
(***************************************************************************)
Voice(agent, market, r) ==
    CASE agent \in {"marcus", "vera", "rex"} -> Llm(market.symbol, r)
      [] agent = "xrp_analyst" -> XrpAnalyst(market.symbol, r)
      [] agent = "macro_analyst" -> MacroAnalyst(market.symbol, r)
      [] agent = "cot_analyst" -> CotAnalyst(market.symbol, r)
      [] agent = "eia_analyst" -> EiaAnalyst(market.symbol, r)
      [] agent = "options_flow_agent" -> OptionsFlow(market.symbol, r)
      [] agent = "momentum" -> Momentum5v20(market.prices)
      [] agent = "carry_agent" -> Carry(market.symbol, r)
      [] agent = "sentiment_analyst" -> SentimentAnalyst(market.symbol, r)
      [] agent = "copy_trade_scout" -> CopyTradeScout(market.symbol, r)

Emits(agent, signal) ==
    /\ agent # "momentum"
    /\ agent = "copy_trade_scout" => signal.confidence >= 650
=============================================================================
