------------------------------ MODULE Research ------------------------------
(***************************************************************************)
(* The research graph (agents/graph.py): regime detection, macro overlay,  *)
(* data validation, ten agents at once, then three in turn and Nova, who   *)
(* weighs what they said.  An agent that speaks puts its signal on the     *)
(* stream first and in the graph's state when its whole call returned, so  *)
(* that the two can tell different stories.                                *)
(*                                                                         *)
(* LangGraph keeps of a node's result the keys AgentState declares         *)
(* (base.py): market_regime, technical_regime and skip_cycle are not, and  *)
(* what a node returns under them reaches no other node.                   *)
(***************************************************************************)
EXTENDS Judgement, Voices

CONSTANTS
    Markets,      \* bars [symbol, class, adv, prices, age, ohlc, volume]
    Reports,      \* for each agent, what its feeds and its model may answer
    MacroScores,  \* what signals:macro_analyst:latest may hold; src only reads it
    Predictions,  \* the lists of prediction markets that may be open
    Weights,      \* accuracies by regime the agents' memory may have
    VolumeWindow, \* volumes the anomaly check averages (20)
    MaxVoices,    \* agents of the gather that have something to say
    MaxCycles,
    MaxMishaps    \* commands that raise in an agent

ASSUME ResearchAssumption ==
    /\ VolumeWindow \in Nat \ {0}
    /\ MaxVoices \in Nat /\ MaxCycles \in Nat /\ MaxMishaps \in Nat

VARIABLES
    node,       \* the node that runs next, or how the cycle ended
    market,     \* market_data: the bar, with the regime and quality nodes add
    signals,    \* of the graph's state
    waiting,    \* agents of the gather that are still at it
    answers,    \* the signals of the states that were returned, by agent
    stream,     \* the signals this cycle's agents emitted, in order
    boost,      \* what Polymarket added to every confidence
    packets,    \* directions Nova published to Desk 2's inbox this cycle
    volumes,    \* the validator's volume history per symbol, of the process
    keys,       \* regime, override and sentiment, as published for the symbol
    cycles, mishaps

researchVars == <<node, market, signals, waiting, answers, stream, boost, packets,
                  volumes, keys, cycles, mishaps>>

\* The order in which graph.py gathers them, and so merges what they return.
Gathered == <<"marcus", "sentiment_analyst", "momentum", "cot_analyst", "eia_analyst",
              "carry_agent", "macro_analyst", "options_flow_agent", "copy_trade_scout",
              "xrp_analyst">>

NoKeys == [regime |-> "none", override |-> "none", sentiment |-> "none"]
Said(agent, s) == [agent |-> agent, direction |-> s.direction, confidence |-> s.confidence]

ResearchInit ==
    /\ node = "start" /\ market = [symbol |-> "none"]
    /\ signals = <<>> /\ waiting = {} /\ answers = <<>> /\ stream = <<>>
    /\ boost = 0 /\ packets = <<>>
    /\ volumes = [s \in {m.symbol : m \in Markets} |-> <<>>]
    /\ keys = NoKeys /\ cycles = 0 /\ mishaps = 0

\* A cycle for some bar, of this symbol or another.
Begin(m) ==
    /\ node \in {"start", "done", "raised"} /\ cycles < MaxCycles
    /\ node' = "detect_regime" /\ market' = m @@ [regime |-> "UNKNOWN", suspicious |-> FALSE]
    /\ cycles' = cycles + 1
    /\ signals' = <<>> /\ answers' = <<>> /\ stream' = <<>> /\ packets' = <<>>
    /\ boost' = 0 /\ keys' = NoKeys
    /\ UNCHANGED <<waiting, volumes, mishaps>>

(***************************************************************************)
(* regime_detector.py, from closes alone.                                  *)
(***************************************************************************)
\* The sum of the last n moves; 0 where there are not so many.
Moves(prices, n) ==
    IF Len(prices) <= n THEN 0
    ELSE AddUp([i \in 1..n |-> Magnitude(prices[Len(prices) - i + 1] - prices[Len(prices) - i])])

\* The last five moves against the last long of them; a quiet market is not flat.
ClassifyRegime(prices, long) ==
    LET then == prices[Len(prices) - Least(24, Len(prices) - 1)]
        move == Magnitude(prices[Len(prices)] - then)
        wild == \/ Moves(prices, long) = 0
                \/ 2 * Moves(prices, 5) * long > 3 * Moves(prices, long) * 5
    IN  CASE wild -> "VOLATILE"
          [] ~wild /\ 200 * move < then -> "RANGING"
          [] OTHER -> "TRENDING"

Regime(prices) ==
    IF Len(prices) < 3 THEN "RANGING" ELSE ClassifyRegime(prices, Least(50, Len(prices) - 1))

\* The key is written if the store lets it; the state's copy is dropped.
DetectRegime ==
    /\ node = "detect_regime" /\ node' = "macro_regime_overlay"
    /\ keys' \in {keys, [keys EXCEPT !.regime = Regime(market.prices)]}
    /\ UNCHANGED <<market, signals, waiting, answers, stream, boost, packets, volumes,
                   cycles, mishaps>>

\* With no technical_regime in the state the overlay starts from RANGING.
EffectiveRegime(score) ==
    CASE score = <<>> -> "RANGING"
      [] score # <<>> /\ score[1] < -300 -> "VOLATILE"
      [] score # <<>> /\ score[1] > 300 -> "TRENDING"
      [] OTHER -> "RANGING"

MacroOverlay(score) ==
    /\ node = "macro_regime_overlay" /\ node' = "validate_data"
    /\ market' = [market EXCEPT !.regime = EffectiveRegime(score)]
    /\ keys' \in IF EffectiveRegime(score) = "RANGING" THEN {keys}
                 ELSE {keys, [keys EXCEPT !.override = EffectiveRegime(score)]}
    /\ UNCHANGED <<signals, waiting, answers, stream, boost, packets, volumes, cycles, mishaps>>

(***************************************************************************)
(* validator.py.  The check for splits needs a previous close, and is      *)
(* never given one.                                                        *)
(***************************************************************************)
Rejected(m) ==
    \/ m.age > (IF m.class = "commodity" THEN 86400 ELSE 300)
    \/ 0 \in {m.ohlc.open, m.ohlc.high, m.ohlc.low, m.ohlc.close}
    \/ m.ohlc.close > m.ohlc.high
    \/ m.ohlc.close < m.ohlc.low

Suspicious(m, history) ==
    LET recent == SubSeq(history, Len(history) - VolumeWindow + 1, Len(history))
    IN  /\ Len(history) >= VolumeWindow
        /\ AddUp(recent) > 0 /\ m.volume * VolumeWindow > 10 * AddUp(recent)

Trimmed(history) ==
    IF Len(history) <= 3 * VolumeWindow THEN history
    ELSE SubSeq(history, Len(history) - 2 * VolumeWindow + 1, Len(history))

\* A bar that fails leaves the state as it is, but for a key nobody declares: the
\* cycle goes on with it.
ValidateData ==
    /\ node = "validate_data" /\ node' = "run_parallel_signals"
    /\ IF Rejected(market) THEN UNCHANGED <<market, volumes>>
       ELSE LET past == volumes[market.symbol]
            IN  /\ market' = [market EXCEPT !.suspicious = Suspicious(market, past)]
                /\ volumes' = IF market.volume = 0 THEN volumes
                              ELSE [volumes EXCEPT ![market.symbol] =
                                       Trimmed(Append(past, market.volume))]
    /\ UNCHANGED <<signals, waiting, answers, stream, boost, packets, keys, cycles, mishaps>>

(***************************************************************************)
(* The gather.  Most agents are silent about most bars: heard are those    *)
(* whose report is looked at, the others return the state as it was.       *)
(***************************************************************************)
Gather(heard) ==
    /\ node = "run_parallel_signals" /\ Cardinality(heard) <= MaxVoices
    /\ node' = "gathering" /\ waiting' = heard
    /\ answers' = [a \in ToSet(Gathered) |-> IF a \in heard THEN <<>> ELSE signals]
    /\ UNCHANGED <<market, signals, stream, boost, packets, volumes, keys, cycles, mishaps>>

\* emit_signal, where the agent uses it, is done before the state is returned, with the
\* signals it came with and the agent's own.
Speak(a, r) ==
    /\ node = "gathering" /\ a \in waiting
    /\ \E said \in {Voice(a, market, r)} :
       LET signal == Said(a, said[1])
       IN  /\ answers' = [answers EXCEPT ![a] = IF said = Silent THEN signals
                                                  ELSE Append(signals, signal)]
           /\ stream' = IF said # Silent /\ Emits(a, said[1]) THEN Append(stream, signal)
                        ELSE stream
    /\ waiting' = waiting \ {a}
    /\ UNCHANGED <<node, market, signals, boost, packets, volumes, keys, cycles, mishaps>>

\* What raises in it is the emission or, sent, the audit record after it: the agent
\* has then said on the stream what it does not tell the graph.
SpeakFails(a, r, sent) ==
    \E said \in {Voice(a, market, r)} :
        /\ node = "gathering" /\ a \in waiting /\ mishaps < MaxMishaps
        /\ said # Silent /\ Emits(a, said[1])
        /\ stream' = IF sent THEN Append(stream, Said(a, said[1])) ELSE stream
        /\ waiting' = waiting \ {a} /\ mishaps' = mishaps + 1
        /\ UNCHANGED <<node, market, signals, answers, boost, packets, volumes, keys, cycles>>

\* In the order they were gathered, and not in the order they spoke; what the state held
\* before the gather would be merged once more for every agent that returned it.
Merge ==
    /\ node = "gathering" /\ waiting = {}
    /\ node' = "orthogonalize_signals"
    /\ signals' = signals \o FlattenSeq([i \in DOMAIN Gathered |-> answers[Gathered[i]]])
    /\ UNCHANGED <<market, waiting, answers, stream, boost, packets, volumes, keys, cycles,
                   mishaps>>

\* transform_state is not defined; the error is caught and the signals are as they were.
Orthogonalize ==
    /\ node = "orthogonalize_signals" /\ node' = "vera"
    /\ UNCHANGED <<market, signals, waiting, answers, stream, boost, packets, volumes, keys,
                   cycles, mishaps>>

(***************************************************************************)
(* Vera and Rex, who have read the signals before them.  Rex publishes the *)
(* sentiment of the symbol before he emits.                                *)
(***************************************************************************)
Following == [vera |-> "rex", rex |-> "polymarket_scout"]
Sentiment(r) == IF r.answer.kind # "json" \/ Magnitude(r.answer.score) <= 200 THEN "NEUTRAL"
                ELSE IF r.answer.score > 0 THEN "BULLISH" ELSE "BEARISH"
Published(a, said, r) ==
    IF a = "rex" /\ said # Silent THEN [keys EXCEPT !.sentiment = Sentiment(r)] ELSE keys

\* faulty variant: the agent returns its own signal in place of the state's
InTurnForgets(a, r) ==
    /\ node = a /\ node' = Following[a]
    /\ \E said \in {Voice(a, market, r)} :
       LET told == IF said = Silent THEN <<>> ELSE <<Said(a, said[1])>>
       IN  /\ signals' = told
           /\ stream' = stream \o told
           /\ keys' = Published(a, said, r)
    /\ UNCHANGED <<market, waiting, answers, boost, packets, volumes, cycles, mishaps>>

InTurn(a, r) ==
    /\ node = a /\ node' = Following[a]
    /\ \E said \in {Voice(a, market, r)} :
       LET told == IF said = Silent THEN <<>> ELSE <<Said(a, said[1])>>
       IN  /\ signals' = signals \o told
           /\ stream' = stream \o told
           /\ keys' = Published(a, said, r)
    /\ UNCHANGED <<market, waiting, answers, boost, packets, volumes, cycles, mishaps>>

InTurnFails(a, r, sent) ==
    \E said \in {Voice(a, market, r)} :
        /\ node = a /\ node' = Following[a]
        /\ mishaps < MaxMishaps /\ mishaps' = mishaps + 1
        /\ said # Silent
        /\ stream' = IF sent THEN Append(stream, Said(a, said[1])) ELSE stream
        /\ keys' \in {Published(a, said, r)} \cup (IF sent THEN {} ELSE {keys})
        /\ UNCHANGED <<market, signals, waiting, answers, boost, packets, volumes, cycles>>

(***************************************************************************)
(* Polymarket moves every confidence by as much, up to 950 and down to     *)
(* what there is; it catches nothing.                                      *)
(***************************************************************************)
Polymarket(markets) ==
    /\ node = "polymarket_scout" /\ node' = "nova"
    /\ boost' = ConvictionBoost(market.symbol, markets)
    /\ signals' = [i \in DOMAIN signals |->
                     [signals[i] EXCEPT !.confidence = Least(950, @ + boost')]]
    /\ UNCHANGED <<market, waiting, answers, stream, packets, volumes, keys, cycles, mishaps>>

(***************************************************************************)
(* Nova.  The packet is published before its audit record, which may raise.*)
(***************************************************************************)
Decided(weights) ==
    IF Forwards(signals, weights[market.regime], market.class, market.adv)
    THEN <<Consensus(signals, weights[market.regime])>> ELSE <<>>

Nova(weights) ==
    /\ node = "nova" /\ node' = "done"
    /\ packets' = packets \o Decided(weights)
    /\ UNCHANGED <<market, signals, waiting, answers, stream, boost, volumes, keys, cycles,
                   mishaps>>

\* A node that raises ends the cycle: the memory Nova asks, or the record she keeps.
Raises(weights) ==
    /\ node \in {"polymarket_scout", "nova"} /\ node' = "raised"
    /\ mishaps < MaxMishaps /\ mishaps' = mishaps + 1
    /\ packets' \in IF node = "nova" /\ signals # <<>> THEN {packets, packets \o Decided(weights)}
                    ELSE {packets}
    /\ UNCHANGED <<market, signals, waiting, answers, stream, boost, volumes, keys, cycles>>
=============================================================================
