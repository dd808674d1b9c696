------------------------------ MODULE Learning -------------------------------
(***************************************************************************)
(* What is learned from closed trades.  TradeDesk.record_trade_outcome     *)
(* writes the outcome to a stream and hands it to AgentMemory              *)
(* (src/learning/agent_memory.py), which marks the signal, counts it and   *)
(* recomputes the agent's weight, one Redis command after the other; the   *)
(* portfolio chief (src/oversight/portfolio_chief.py) suppresses an agent  *)
(* that keeps losing and recalibrates (src/learning/calibration.py).  One  *)
(* agent: each has keys of its own.  Rates are in thousandths.             *)
(***************************************************************************)
EXTENDS Integers, FiniteSets, Sequences, SequencesExt, FiniteSetsExt

CONSTANTS Callers,         \* calls of record_outcome that may overlap
          Regimes,
          Window,          \* ROLLING_WINDOW; twice as many signals are kept
          LossStreak,      \* CONSECUTIVE_LOSS_THRESHOLD
          Few,             \* signals a regime's own accuracy takes: 5
          MinSignals,      \* MIN_SIGNALS_FOR_CALIBRATION and its step
          SuppressFor,     \* ttl_seconds of a suppression, in sweeps
          MaxSignals       \* bound: signals recorded

LearningAssumption == /\ {Window, LossStreak, Few, MinSignals} \subseteq Nat \ {0}
                      /\ {SuppressFor, MaxSignals} \subseteq Nat
ASSUME LearningAssumption

Outcomes == {"WIN", "LOSS", "NEUTRAL"}
Decided == {"WIN", "LOSS"}
DefaultWeight == 500

VARIABLES
    signals,      \* agent:{a}:signals, newest first: regime and outcome
    dropped,      \* signals that fell out of it
    tally,        \* agent:{a}:accuracy
    weight,       \* agent:{a}:weight; -1 where absent
    suppressed,   \* agent:{a}:weight:suppressed: value and sweeps to live
    calibrated,   \* agent:{a}:calibration: total_signals; byRegime
    results,      \* stream:trade_outcomes, newest first
    call,         \* per caller: place, signal, outcome, computed weight
    weighed,      \* history: the weights the agent has had
    overlapped    \* history: two calls were in progress at once

learnVars == <<signals, dropped, tally, weight, suppressed, calibrated, results, call,
               weighed, overlapped>>

NoCall == [pc |-> "idle", signal |-> 0, outcome |-> "WIN", weight |-> 0]
NoRecord == [wins |-> 0, total |-> 0]

LearnInit ==
    /\ signals = <<>>
    /\ dropped = 0
    /\ tally = [WIN |-> 0, LOSS |-> 0, NEUTRAL |-> 0, total |-> 0]
    /\ weight = -1
    /\ suppressed = [value |-> -1, left |-> 0]
    /\ calibrated = [total |-> 0, byRegime |-> [r \in Regimes |-> NoRecord]]
    /\ results = <<>>
    /\ call = [c \in Callers |-> NoCall]
    /\ weighed = {DefaultWeight}
    /\ overlapped = FALSE

(* ------------------------------- accuracy ------------------------------- *)
Sub(s, n) == SubSeq(s, 1, IF Len(s) < n THEN Len(s) ELSE n)

\* the places of s, newest first, up to n; which of them are decided, which won
Newest(s, n) == 1..(IF Len(s) < n THEN Len(s) ELSE n)
DecidedIn(s, places) == {i \in places : s[i].outcome \in Decided}
WonIn(s, places) == {i \in places : s[i].outcome = "WIN"}
FirstOf(places, n) == {i \in places : Cardinality({j \in places : j <= i}) <= n}
Rate(s, places) == (1000 * Cardinality(WonIn(s, places))) \div Cardinality(places)

\* get_agent_accuracy: of the last n signals; a half without a decided one
Overall(s, n) ==
    LET resolved == DecidedIn(s, Newest(s, n))
    IN IF resolved = {} THEN DefaultWeight ELSE Rate(s, resolved)

\* get_agent_accuracy of a regime: its cached calibration, its last n decided
\* signals among 3n, or the overall accuracy where either has fewer than Few
Accuracy(s, n, r, cached) ==
    LET resolved == FirstOf({i \in DecidedIn(s, Newest(s, 3 * n)) : s[i].regime = r}, n)
    IN IF cached.total >= Few THEN (1000 * cached.wins) \div cached.total
       ELSE IF Cardinality(resolved) < Few THEN Overall(s, n) ELSE Rate(s, resolved)

\* get_agent_weight and get_effective_weight
BaseWeight == IF weight = -1 THEN DefaultWeight ELSE weight
EffectiveWeight == IF suppressed.left > 0 THEN suppressed.value ELSE BaseWeight

(* ------------------------------- recording ------------------------------ *)
\* record_signal keeps the newest 2 * ROLLING_WINDOW
RecordSignal(r) ==
    /\ Len(signals) + dropped < MaxSignals
    /\ signals' = Sub(<<[regime |-> r, outcome |-> "PENDING", id |-> Len(signals) + dropped + 1]>>
                          \o signals, 2 * Window)
    /\ dropped' = dropped + (Len(signals) + 1 - Len(signals'))
    /\ UNCHANGED <<tally, weight, suppressed, calibrated, results, call, weighed, overlapped>>

Goto(c, pc) == call' = [call EXCEPT ![c].pc = pc]

\* record_trade_outcome: the outcome goes to the stream first
Report(c, id, o) ==
    /\ call[c].pc = "idle"
    /\ \E i \in DOMAIN signals : signals[i].id = id /\ signals[i].outcome = "PENDING"
    /\ \A d \in Callers : call[d].pc # "idle" => call[d].signal # id
    /\ results' = <<o>> \o results
    /\ call' = [call EXCEPT ![c] = [NoCall EXCEPT !.pc = "mark", !.signal = id, !.outcome = o]]
    /\ overlapped' = (overlapped \/ \E d \in Callers : call[d].pc # "idle")
    /\ UNCHANGED <<signals, dropped, tally, weight, suppressed, calibrated, weighed>>

\* record_outcome marks the signal, ...
Mark(c) ==
    /\ call[c].pc = "mark"
    /\ signals' = [i \in DOMAIN signals |->
           IF signals[i].id = call[c].signal
           THEN [signals[i] EXCEPT !.outcome = call[c].outcome] ELSE signals[i]]
    /\ Goto(c, "count")
    /\ UNCHANGED <<dropped, tally, weight, suppressed, calibrated, results, weighed, overlapped>>

\* ... counts it, in two increments, ...
CountOutcome(c) ==
    /\ call[c].pc = "count"
    /\ tally' = [tally EXCEPT ![call[c].outcome] = @ + 1]
    /\ Goto(c, "total")
    /\ UNCHANGED <<signals, dropped, weight, suppressed, calibrated, results, weighed, overlapped>>
CountTotal(c) ==
    /\ call[c].pc = "total"
    /\ tally' = [tally EXCEPT !.total = @ + 1]
    /\ Goto(c, "weigh")
    /\ UNCHANGED <<signals, dropped, weight, suppressed, calibrated, results, weighed, overlapped>>

\* faulty variant: the resolved signal is left out of its own weight
RecalculateBefore(c) ==
    /\ call[c].pc = "weigh"
    /\ call' = [call EXCEPT ![c].pc = "set",
                           ![c].weight = Overall(SelectSeq(signals, LAMBDA x :
                                                     x.id # call[c].signal), Window)]
    /\ UNCHANGED <<signals, dropped, tally, weight, suppressed, calibrated, results, weighed,
                   overlapped>>

\* ... recomputes the weight, ...
Recalculate(c) ==
    /\ call[c].pc = "weigh"
    /\ call' = [call EXCEPT ![c].pc = "set", ![c].weight = Overall(signals, Window)]
    /\ UNCHANGED <<signals, dropped, tally, weight, suppressed, calibrated, results, weighed,
                   overlapped>>

\* ... and stores it
SetWeight(c) ==
    /\ call[c].pc = "set"
    /\ weight' = call[c].weight
    /\ weighed' = weighed \cup {call[c].weight}
    /\ call' = [call EXCEPT ![c] = NoCall]
    /\ UNCHANGED <<signals, dropped, tally, suppressed, calibrated, results, overlapped>>

(* ------------------------------ oversight ------------------------------- *)
\* _detect_mistake_patterns: the newest 20 outcomes begin with enough losses
Losing == /\ Len(results) >= LossStreak
          /\ \A i \in 1..LossStreak : results[i] = "LOSS"

\* faulty variant: a quarter is taken off what is left of the weight
SuppressAgain ==
    /\ Losing
    /\ suppressed' = [value |-> (3 * EffectiveWeight) \div 4, left |-> SuppressFor]
    /\ UNCHANGED <<signals, dropped, tally, weight, calibrated, results, call, weighed,
                   overlapped>>

\* suppress_agent_weight: three quarters of the stored weight, for a while
Suppress ==
    /\ Losing
    /\ suppressed' = [value |-> (3 * BaseWeight) \div 4, left |-> SuppressFor]
    /\ UNCHANGED <<signals, dropped, tally, weight, calibrated, results, call, weighed,
                   overlapped>>

SuppressionExpires ==
    /\ suppressed.left > 0
    /\ suppressed' = [suppressed EXCEPT !.left = @ - 1]
    /\ UNCHANGED <<signals, dropped, tally, weight, calibrated, results, call, weighed,
                   overlapped>>

\* should_run_calibration: ten more in the tally than at the last calibration
ShouldRun == tally.total - calibrated.total >= MinSignals

\* run_calibration_check: nothing is stored with too few decided signals
Calibrate ==
    LET decided == DecidedIn(signals, DOMAIN signals)
        In(r) == {i \in decided : signals[i].regime = r}
    IN /\ ShouldRun
       /\ Cardinality(decided) >= MinSignals
       /\ calibrated' = [total |-> Cardinality(decided),
              byRegime |-> [r \in Regimes |->
                  IF In(r) = {} THEN calibrated.byRegime[r]
                  ELSE [wins |-> Cardinality(WonIn(signals, In(r))),
                        total |-> Cardinality(In(r))]]]
       /\ UNCHANGED <<signals, dropped, tally, weight, suppressed, results, call, weighed,
                      overlapped>>
=============================================================================
