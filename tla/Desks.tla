------------------------------- MODULE Desks --------------------------------
(***************************************************************************)
(* The two desks and what they learn: the cycle graph (Cycle), Desk 2      *)
(* (TradeDesk) and the learning loop (Learning).  They meet in no key of   *)
(* their own -- nobody calls record_signal or record_trade_outcome -- so a *)
(* behaviour has one of them as its cast, and the rest stand still; cycles *)
(* that overlap are looked at with analysts that have nothing to say.      *)
(***************************************************************************)
EXTENDS Cycle, TradeDesk, Learning

CONSTANT Casts
VARIABLE cast
desksVars == <<cycleVars, deskVars, learnVars, cast>>

DesksInit ==
    /\ cast \in Casts
    /\ CycleInit /\ DeskInit /\ LearnInit
    /\ cast \in {"cycle", "cycles"} \/ (wired /\ shadow /\ muted)

Alone(c) == \A d \in Cycles \ {c} : at[d].step = "start"
ByCycle == cast \in {"cycle", "cycles"} /\ UNCHANGED <<deskVars, learnVars, cast>>
ByDesk == cast = "desk" /\ UNCHANGED <<cycleVars, learnVars, cast>>
ByLearning == cast = "learning" /\ UNCHANGED <<cycleVars, deskVars, cast>>
DesksNext ==
    \/ \E c \in Cycles : (cast = "cycle" => Alone(c)) /\ Start(c) /\ ByCycle
    \/ \E c \in Cycles : HeartbeatActive(c) /\ ByCycle
    \/ \E c \in Cycles : Analyse(c, IF cast = "cycle" THEN Opinions ELSE {}) /\ ByCycle
    \/ \E c \in Cycles : AnalyseRaises(c) /\ ByCycle
    \/ \E c \in Cycles : Diana(c) /\ ByCycle
    \/ \E c \in Cycles : Construct(c) /\ ByCycle
    \/ \E c \in Cycles : Atlas(c) /\ ByCycle
    \/ \E c \in Cycles : EmitEpisode(c) /\ ByCycle
    \/ \E c \in Cycles : HeartbeatIdle(c) /\ ByCycle
    \/ \E c \in Cycles : Leave(c) /\ ByCycle
    \/ \E v \in Convictions : Publish(v) /\ ByDesk
    \/ TimePasses /\ ByDesk
    \/ Halt /\ ByDesk
    \/ CheckSwitch /\ ByDesk
    \/ ReadBatch /\ ByDesk
    \/ Dismiss /\ ByDesk
    \/ Execute /\ ByDesk
    \/ Register /\ ByDesk
    \/ Acknowledge /\ ByDesk
    \/ PacketError /\ ByDesk
    \/ Restart /\ ByDesk
    \/ \E r \in Regimes : RecordSignal(r) /\ ByLearning
    \/ \E c \in Callers, id \in 1..MaxSignals, o \in Outcomes : Report(c, id, o) /\ ByLearning
    \/ \E c \in Callers : Mark(c) /\ ByLearning
    \/ \E c \in Callers : CountOutcome(c) /\ ByLearning
    \/ \E c \in Callers : CountTotal(c) /\ ByLearning
    \/ \E c \in Callers : Recalculate(c) /\ ByLearning
    \/ \E c \in Callers : SetWeight(c) /\ ByLearning
    \/ Suppress /\ ByLearning
    \/ SuppressionExpires /\ ByLearning
    \/ Calibrate /\ ByLearning

Spec == DesksInit /\ [][DesksNext]_desksVars

(* ------------------------------- properties ----------------------------- *)
\* Every place, count and set stays in its range, and so does the rate Nova
\* would weigh the agent by, whatever was calibrated meanwhile.
TypeOK ==
    /\ \A c \in Cycles : /\ at[c].node \in Agents \cup {"none", "end"}
                         /\ traded[c] \in {"none", "LONG", "SHORT"}
                         /\ called[c] \subseteq Agents
    /\ delivered \in 0..Len(inbox)
    /\ pel \subseteq 1..delivered /\ mine \subseteq 1..delivered /\ open \subseteq 1..delivered
    /\ weight \in {-1} \cup 0..1000
    /\ Len(signals) <= 2 * Window
    /\ \A r \in Regimes : Accuracy(signals, Window, r, calibrated.byRegime[r]) \in 0..1000

\* No order leaves a cycle unless half of its signals agree on the side it trades,
\* their confidence averages a half, and the constructor has seen it and, outside
\* shadow mode, sized it: with or without LangGraph's edges (sage.py:61-70,
\* atlas.py:113-141), and though an agent of the cycle, Atlas included, may raise.
TradesAreSized ==
    \A c \in Cycles : traded[c] # "none" =>
        /\ shadow \/ state[c].sized
        /\ Approves(state[c].signals)
        /\ Decision(state[c].signals) = traded[c]
        /\ {"diana", "constructor"} \subseteq called[c]

\* While no command raises and the flag stays on, every agent a cycle called has
\* left one episode by the time it is done with it, those that raised included.
OneEpisode ==
    faults = 0 /\ ~muted =>
        \A c \in Cycles, a \in Agents :
            episodes[c][a] = IF /\ a \in called[c]
                                /\ at[c].node = a => at[c].step \in {"rest", "leave", "ended"}
                             THEN 1 ELSE 0

\* While no command raises, an agent no cycle is at does not look busy, however
\* its analysis ended.
NoneLeftActive ==
    faults = 0 => \A a \in Agents :
        (\A c \in Cycles : at[c].node # a \/ at[c].step \in {"beat", "leave", "ended"})
            => status[a] = "idle"

\* No packet is acted on twice, whichever command raises and however often the
\* desk is restarted.
ProcessedOnce == \A p \in DOMAIN handled : handled[p] <= 1

\* The switch stops the desk within one batch: a batch read before it went up may
\* still be executed, and no other.
KillBoundsDesk == late <= BatchSize

\* The last n of the signals that have their outcome, and their win rate.
LastResolved(s, n) == FirstOf({i \in DOMAIN s : s[i].outcome # "PENDING"}, n)
WinRate(s, n) ==
    LET decided == DecidedIn(s, LastResolved(s, n))
    IN IF decided = {} THEN DefaultWeight ELSE Rate(s, decided)

\* When no signal among the newest Window waits for its outcome and no two reports
\* overlapped, the stored weight is the win rate over the last Window resolved signals
\* (agent_memory.py:146, 317), whatever was recorded during the reports.  A signal that
\* does wait takes a place in the window (agent_memory.py:191), and the words fail.
WeightSettles ==
    (/\ ~overlapped /\ \A c \in Callers : call[c].pc = "idle"
     /\ signals # <<>>
     /\ \A i \in Newest(signals, Window) : signals[i].outcome # "PENDING") =>
        weight = WinRate(signals, Window)

\* A suppression takes a quarter off a weight the agent has had, however often
\* the chief's sweeps repeat it: it does not compound.
SuppressedOnce ==
    suppressed.left > 0 => \E w \in weighed : suppressed.value = (3 * w) \div 4

\* trade_desk.py:7: "Calls Diana for final position sizing", "Calls Atlas for
\* execution", "Registers the trade": what is recorded as an open trade was executed.
OpenWasExecuted == open \cup mine \subseteq executed
=============================================================================
