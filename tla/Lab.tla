-------------------------------- MODULE Lab ---------------------------------
(***************************************************************************)
(* Research and its tests: the research graph (Research), the back-tester  *)
(* and walk-forward validator (Backtest) and the ensemble back-test        *)
(* (Ensemble).  They share no state, so a behaviour has one of them as its *)
(* cast and the others stand still.                                        *)
(***************************************************************************)
EXTENDS Research, Backtest, Ensemble

CONSTANTS
    Casts,
    Jobs,      \* back-tests and walks that are asked for
    Tapes      \* the bars ensemble back-tests may load

\* Bars have a price, and a job that needs windows says how many.
ASSUME LabAssumption ==
    /\ \A j \in Jobs : /\ j.windows \in Nat /\ j.tape \in Seq({j.tape[i] : i \in DOMAIN j.tape})
                       /\ \A i \in DOMAIN j.tape : j.tape[i].close \in Nat \ {0}
    /\ \A t \in Tapes : /\ t \in Seq({t[i] : i \in DOMAIN t})
                        /\ \A i \in DOMAIN t : t[i].close \in Nat \ {0}

VARIABLE cast
labVars == <<researchVars, backtestVars, ensembleVars, cast>>

NoJob == [strategy |-> "none", bias |-> 0, coverage |-> "low", tape |-> <<>>, windows |-> 0]

LabInit ==
    /\ cast \in Casts
    /\ ResearchInit
    /\ BacktestInit(IF cast = "backtest" THEN Jobs ELSE {NoJob})
    /\ EnsembleInit(IF cast = "ensemble" THEN Tapes ELSE {<<>>})

ByResearch == cast = "research" /\ UNCHANGED <<backtestVars, ensembleVars, cast>>
ByBacktest == cast = "backtest" /\ UNCHANGED <<researchVars, ensembleVars, cast>>
ByEnsemble == cast = "ensemble" /\ UNCHANGED <<researchVars, backtestVars, cast>>

LabNext ==
    \/ \E m \in Markets : Begin(m) /\ ByResearch
    \/ DetectRegime /\ ByResearch
    \/ \E s \in MacroScores : MacroOverlay(s) /\ ByResearch
    \/ ValidateData /\ ByResearch
    \/ \E heard \in SUBSET ToSet(Gathered) : Gather(heard) /\ ByResearch
    \/ \E a \in waiting : \E r \in Reports[a] : Speak(a, r) /\ ByResearch
    \/ \E a \in waiting : \E r \in Reports[a], sent \in BOOLEAN :
           SpeakFails(a, r, sent) /\ ByResearch
    \/ Merge /\ ByResearch
    \/ Orthogonalize /\ ByResearch
    \/ \E a \in {"vera", "rex"} : \E r \in Reports[a] : InTurn(a, r) /\ ByResearch
    \/ \E a \in {"vera", "rex"} : \E r \in Reports[a], sent \in BOOLEAN :
           InTurnFails(a, r, sent) /\ ByResearch
    \/ \E p \in Predictions : Polymarket(p) /\ ByResearch
    \/ \E w \in Weights : Nova(w) /\ ByResearch
    \/ \E w \in Weights : Raises(w) /\ ByResearch
    \/ Refuse /\ ByBacktest
    \/ NextSegment /\ ByBacktest
    \/ Bar /\ ByBacktest
    \/ EndSegment /\ ByBacktest
    \/ Conclude /\ ByBacktest
    \/ LoadFails /\ ByEnsemble
    \/ \E d \in Decisions : Replay(d) /\ ByEnsemble
    \/ Complete /\ ByEnsemble

Spec == LabInit /\ [][LabNext]_labVars

(* ------------------------------- properties ----------------------------- *)
\* What Nova weighs is what was said: each signal is one its agent put on the stream
\* this cycle, once, moved by as much as Polymarket moved all of them; and a signal on
\* the stream goes unweighed only when a command raised in the agent that sent it.
\* Momentum, and a hesitant copy trader, speak in the graph alone.
WeighedOnce ==
    node \in {"nova", "done"} =>
        LET was(s) == {i \in DOMAIN stream :
                          /\ stream[i].agent = s.agent /\ stream[i].direction = s.direction
                          /\ s.confidence = Least(950, stream[i].confidence + boost)}
            weighed == {i \in DOMAIN stream : \E k \in DOMAIN signals : i \in was(signals[k])}
        IN  /\ \A k, l \in DOMAIN signals : k # l => signals[k].agent # signals[l].agent
            /\ \A k \in DOMAIN signals :
                   signals[k].agent \in {"momentum", "copy_trade_scout"} \/ was(signals[k]) # {}
            /\ Cardinality(DOMAIN stream \ weighed) <= mishaps

\* Each trade lies within the bars of the segment that made it, one after the other; no
\* bar is in two segments, and the part a window is fitted on ends before the part it
\* is tried on begins.
WindowsApart ==
    /\ \A k \in DOMAIN results :
           LET t == results[k].trades
           IN  /\ \A n \in DOMAIN t : /\ Segments[k].from <= t[n].from /\ t[n].from <= t[n].to
                                      /\ t[n].to <= Segments[k].to
               /\ \A n \in 2..Len(t) : t[n - 1].to <= t[n].from
    /\ \A k, l \in DOMAIN Segments : k < l => Segments[k].to < Segments[l].from
    /\ segment > 0 => engine.equity = InitialEquity + TotalPnl(engine.trades) - engine.fees

\* A walk is called robust only if, out of sample, some window earned money on a trade.
RobustEarnedUnseen ==
    verdict = "robust" =>
        \E k \in DOMAIN results : results[k].oos /\ Len(results[k].trades) > 0
                                  /\ results[k].metrics.winning > 0

\* Every cent of the ensemble's book is in the cash, the position or a fee.
BookReconciles ==
    book.cash + book.fees
        + (IF book.position = None THEN 0
           ELSE Value(book.position.quantity, book.position.entry))
    = InitialCash + SumOf([k \in DOMAIN book.sold |-> book.sold[k].pnl])

\* Worth a dollar or more, of something that costs a dollar or more: enough for a cent
\* lost to rounding not to decide between a gain and a loss.
Sizeable(t) == t.entry >= 100 /\ Value(t.quantity, t.entry) >= 100

\* The ensemble's book: a sizeable trade that left by its stop lost and one that left by
\* its target gained, long or short; and of any size, every cent is accounted for.
ExitsPayAsNamed ==
    /\ \A k \in DOMAIN book.sold : LET t == book.sold[k] IN
           Sizeable(t) => /\ t.reason = "stop" => t.pnl < 0
                          /\ t.reason = "target" => t.pnl > 0
    /\ BookReconciles
=============================================================================
