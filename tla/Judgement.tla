------------------------------ MODULE Judgement ------------------------------
(***************************************************************************)
(* How signals become a decision: Diana's gate (src/agents/diana.py), and  *)
(* Nova's weighted aggregation with its cost filter (src/agents/nova.py    *)
(* over src/execution/cost_model.py).  A signal is a record of agent,      *)
(* direction and confidence; confidences and weights are in thousandths,   *)
(* costs and edges in hundredths of a basis point.                         *)
(***************************************************************************)
EXTENDS Integers, FiniteSets, Sequences, SequencesExt, FiniteSetsExt

Directions == {"LONG", "SHORT", "NEUTRAL"}
Scale == 1000

Count(signals, d) == Len(SelectSeq(signals, LAMBDA s : s.direction = d))
Total(signals, value(_)) == FoldSeq(LAMBDA s, acc : acc + value(s), 0, signals)
Larger(x, y) == IF x > y THEN x ELSE y

(* ------------------------------- Diana ---------------------------------- *)
\* the average confidence and the larger camp must each reach a half
Approves(signals) ==
    /\ signals # <<>>
    /\ 2 * Total(signals, LAMBDA s : s.confidence) >= Len(signals) * Scale
    /\ 2 * Larger(Count(signals, "LONG"), Count(signals, "SHORT")) >= Len(signals)

\* the larger camp's direction; a tie is neutral
Decision(signals) ==
    CASE Count(signals, "LONG") > Count(signals, "SHORT") -> "LONG"
      [] Count(signals, "LONG") < Count(signals, "SHORT") -> "SHORT"
      [] OTHER -> "NEUTRAL"

(* ----------------------------- cost model ------------------------------- *)
\* spread and fee of one leg, per asset class
CostOf == [major     |-> [spread |-> 500, fee |-> 600],
           alt       |-> [spread |-> 1500, fee |-> 600],
           commodity |-> [spread |-> 1000, fee |-> 500]]

Root(n) == CHOOSE k \in 0..1000 : k * k <= n /\ (k + 1) * (k + 1) > n

\* estimate: both legs of spread and fee, and the square-root market impact of
\* a size at a daily volume (in millions)
TotalCost(class, size, adv) ==
    2 * CostOf[class].spread + 2 * CostOf[class].fee + Root((size * 10000) \div adv)

\* what is left of an edge; nothing is left of an order without size or price
AdjustedEdge(edge, class, size, adv, price) ==
    IF size <= 0 \/ price <= 0 THEN 0 ELSE edge - TotalCost(class, size, adv)

\* confidence_to_edge_bps: a point above a half is a basis point
EdgeOf(confidence) == Larger(0, (confidence - Scale \div 2) * 10)

(* -------------------------------- Nova ---------------------------------- *)
\* an agent nobody has weights for counts a half
Weight0(weights, agent) == IF agent \in DOMAIN weights THEN weights[agent] ELSE Scale \div 2

WeightOfAll(signals, weights) == Total(signals, LAMBDA s : Weight0(weights, s.agent))

\* held to a thousand, as a model's confidence need not be
FinalConfidence(signals, weights) ==
    LET sum == Total(signals, LAMBDA s : s.confidence * Weight0(weights, s.agent))
    IN  CASE WeightOfAll(signals, weights) = 0 -> Scale \div 2
          [] WeightOfAll(signals, weights) > 0 /\ sum <= 0 -> 0
          [] OTHER -> Min({Scale, sum \div WeightOfAll(signals, weights)})

VotesFor(signals, weights, d) ==
    Total(SelectSeq(signals, LAMBDA s : s.direction = d),
          LAMBDA s : Weight0(weights, s.agent))

\* the heaviest direction; of equals the one that was voted for first
Consensus(signals, weights) ==
    LET Heavier(d) == \A i \in DOMAIN signals :
            VotesFor(signals, weights, signals[i].direction) <= VotesFor(signals, weights, d)
        First == Min({i \in DOMAIN signals : Heavier(signals[i].direction)})
    IN signals[First].direction

Strength(confidence) == CASE confidence >= 700 -> "strong"
                          [] confidence >= 500 /\ confidence < 700 -> "moderate"
                          [] OTHER -> "weak"

\* DEFAULT_NOTIONAL_USD times DEFAULT_POSITION_SIZE_PCT
Notional == 200

\* a signal that does not clear its costs is discarded; so is a weak one, and a
\* price that is not known counts as 1
Forwards(signals, weights, class, adv) ==
    LET confidence == FinalConfidence(signals, weights)
    IN /\ signals # <<>>
       /\ Strength(confidence) # "weak"
       /\ Consensus(signals, weights) # "NEUTRAL" =>
              AdjustedEdge(EdgeOf(confidence), class, Notional, adv, 1) > 0
=============================================================================
