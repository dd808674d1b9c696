-------------------------------- MODULE Cycle --------------------------------
(***************************************************************************)
(* One trading cycle: src/agents/sage.py routes a state from analyst to    *)
(* analyst, to Diana, the portfolio constructor and Atlas, and             *)
(* BaseAgent.analyze_with_heartbeat (src/agents/base.py) wraps each of     *)
(* them: heartbeat, analysis, one episode, heartbeat.  Several cycles run  *)
(* at once over the same agent objects (one loop per symbol), Redis may    *)
(* fail at any of the wrapper's commands and an analysis may raise.        *)
(***************************************************************************)
EXTENDS Judgement

CONSTANTS Cycles,          \* cycles that may be under way at once
          Opinions,        \* what an analyst may add: direction and confidence
          MaxFaults        \* bound: Redis commands that raise

CycleAssumption ==
    /\ Opinions \subseteq [direction : Directions, confidence : 0..Scale]
    /\ MaxFaults \in Nat
ASSUME CycleAssumption

Route == <<"marcus", "vera", "rex", "xrp_analyst", "polymarket_scout",
           "diana", "constructor", "atlas">>
Agents == ToSet(Route)
Analysts == Agents \ {"diana", "constructor", "atlas"}

VARIABLES
    wired,       \* langgraph is installed; else the agents run in a row
    shadow,      \* the constructor decides without touching the state
    muted,       \* feature:episode_pipeline_enabled is off all day
    at,          \* per cycle: node, step of the wrapper, failed, xrp
    state,       \* per cycle: signals, approved, sized, decision
    status,      \* agent:state:{agent}
    called,      \* history: the agents each cycle called
    episodes,    \* per cycle and agent: entries of stream:episodes
    traded,      \* per cycle: the side of its order
    faults       \* commands that raised so far

cycleVars == <<wired, shadow, muted, at, state, status, called, episodes, traded, faults>>
switches == <<wired, shadow, muted>>

Fresh == [signals |-> <<>>, approved |-> FALSE, sized |-> FALSE, decision |-> "none"]

CycleInit ==
    /\ wired \in BOOLEAN
    /\ shadow \in BOOLEAN
    /\ muted \in BOOLEAN
    /\ at = [c \in Cycles |-> [node |-> "none", step |-> "start", failed |-> FALSE,
                               xrp |-> FALSE]]
    /\ state = [c \in Cycles |-> Fresh]
    /\ status = [a \in Agents |-> "idle"]
    /\ called = [c \in Cycles |-> {}]
    /\ episodes = [c \in Cycles |-> [a \in Agents |-> 0]]
    /\ traded = [c \in Cycles |-> "none"]
    /\ faults = 0

\* the next node; LangGraph's conditional edges can end the cycle early
After(c, node) ==
    LET i == CHOOSE k \in DOMAIN Route : Route[k] = node
        s == state[c]
    IN CASE node = "atlas" -> "end"
         [] node = "rex" /\ ~at[c].xrp -> "polymarket_scout"
         [] wired /\ node = "diana" /\ ~s.approved -> "end"
         [] wired /\ node = "constructor" /\ ~(s.approved /\ s.sized) -> "end"
         [] OTHER -> Route[i + 1]

Fault(c) == faults < MaxFaults /\ faults' = faults + 1
Step(c, next) == at' = [at EXCEPT ![c].step = next]
Raise(c, next) == at' = [at EXCEPT ![c].step = next, ![c].failed = TRUE]

\* run_trading_cycle builds a fresh state
Start(c) ==
    \E xrp \in BOOLEAN :
        /\ at[c].step = "start"
        /\ at' = [at EXCEPT ![c] = [node |-> "marcus", step |-> "beat", failed |-> FALSE,
                                    xrp |-> xrp]]
        /\ UNCHANGED <<switches, state, status, called, episodes, traded, faults>>

\* the opening heartbeat
HeartbeatActive(c) ==
    /\ at[c].step = "beat"
    /\ called' = [called EXCEPT ![c] = @ \cup {at[c].node}]
    /\ \/ /\ status' = [status EXCEPT ![at[c].node] = "active"]
          /\ Step(c, "analyze")
          /\ UNCHANGED faults
       \/ /\ Fault(c)
          /\ Raise(c, "episode")
          /\ UNCHANGED status
    /\ UNCHANGED <<switches, state, episodes, traded>>

(* ------------------------------ the analyses ---------------------------- *)
Analyzing(c, agents) == at[c].step = "analyze" /\ at[c].node \in agents
Analyzed == UNCHANGED <<switches, status, called, episodes, faults>>

\* an analyst adds a signal out of those it could have, or nothing
Analyse(c, opinions) ==
    \E new \in {<<>>} \cup {<<[agent |-> at[c].node, direction |-> o.direction,
                              confidence |-> o.confidence]>> : o \in opinions} :
        /\ Analyzing(c, Analysts)
        /\ state' = [state EXCEPT ![c].signals = @ \o new]
        /\ Step(c, "episode")
        /\ Analyzed /\ UNCHANGED traded

\* the order Atlas submits or queues: it checks approval and size itself, and what
\* stops the order after that is OrderFlow
Ordered(c) ==
    LET s == state[c]
    IN IF s.approved /\ s.sized /\ s.decision \in {"LONG", "SHORT"} THEN s.decision ELSE "none"

\* an analysis raises: what it found is lost with it, but for an order of Atlas that
\* left before the command that raised
AnalyseRaises(c) ==
    /\ Analyzing(c, Agents)
    /\ \/ UNCHANGED traded
       \/ at[c].node = "atlas" /\ traded' = [traded EXCEPT ![c] = Ordered(c)]
    /\ Raise(c, "episode")
    /\ Analyzed /\ UNCHANGED state

Diana(c) ==
    LET s == state[c]
    IN /\ Analyzing(c, {"diana"})
       /\ state' = [state EXCEPT ![c].approved = Approves(s.signals),
                                 ![c].decision = IF Approves(s.signals) THEN Decision(s.signals)
                                                 ELSE "none"]
       /\ Step(c, "episode")
       /\ Analyzed /\ UNCHANGED traded

\* the constructor sizes what Diana approved, or vetoes it; in shadow mode it
\* leaves the state alone, and a neutral decision has no size
Construct(c) ==
    \E sized \in BOOLEAN :
        LET s == state[c]
        IN /\ Analyzing(c, {"constructor"})
           /\ sized => s.decision \in {"LONG", "SHORT"}
           /\ state' = IF ~s.approved \/ shadow THEN state
                       ELSE [state EXCEPT ![c].sized = sized, ![c].approved = sized,
                                          ![c].decision = IF sized THEN @ ELSE "none"]
           /\ Step(c, "episode")
           /\ Analyzed /\ UNCHANGED traded

\* faulty variant: Atlas trusts the graph's edges to have checked
AtlasTrusting(c) ==
    /\ Analyzing(c, {"atlas"})
    /\ traded' = [traded EXCEPT ![c] =
           IF Decision(state[c].signals) # "NEUTRAL" THEN Decision(state[c].signals) ELSE "none"]
    /\ Step(c, "episode")
    /\ Analyzed /\ UNCHANGED state

Atlas(c) ==
    /\ Analyzing(c, {"atlas"})
    /\ traded' = [traded EXCEPT ![c] = Ordered(c)]
    /\ Step(c, "episode")
    /\ Analyzed /\ UNCHANGED state

(* ------------------------- episode and heartbeat ------------------------ *)
\* faulty variant: the episode is left out of the finally block
EmitEpisodeOnSuccess(c) ==
    /\ at[c].step = "episode"
    /\ episodes' = IF muted \/ at[c].failed THEN episodes
                   ELSE [episodes EXCEPT ![c][at[c].node] = @ + 1]
    /\ Step(c, "rest")
    /\ UNCHANGED <<switches, state, status, called, traded, faults>>

\* the finally block: _emit_episode reads the flag and swallows what goes wrong
EmitEpisode(c) ==
    /\ at[c].step = "episode"
    /\ \/ /\ episodes' = IF muted THEN episodes
                         ELSE [episodes EXCEPT ![c][at[c].node] = @ + 1]
          /\ UNCHANGED faults
       \/ /\ Fault(c)
          /\ UNCHANGED episodes
    /\ Step(c, "rest")
    /\ UNCHANGED <<switches, state, status, called, traded>>

\* faulty variant: an analysis that raised skips the closing heartbeat
HeartbeatIdleOnSuccess(c) ==
    /\ at[c].step = "rest"
    /\ status' = IF at[c].failed THEN status ELSE [status EXCEPT ![at[c].node] = "idle"]
    /\ Step(c, "leave")
    /\ UNCHANGED <<switches, state, called, episodes, traded, faults>>

\* the closing heartbeat, which is not caught
HeartbeatIdle(c) ==
    /\ at[c].step = "rest"
    /\ \/ /\ status' = [status EXCEPT ![at[c].node] = "idle"]
          /\ Step(c, "leave")
          /\ UNCHANGED faults
       \/ /\ Fault(c)
          /\ Raise(c, "leave")
          /\ UNCHANGED status
    /\ UNCHANGED <<switches, state, called, episodes, traded>>

\* on to the next node; an exception ends the cycle, and the loop logs it
Leave(c) ==
    LET next == IF at[c].failed THEN "end" ELSE After(c, at[c].node)
    IN /\ at[c].step = "leave"
       /\ at' = [at EXCEPT ![c].node = next,
                           ![c].step = IF next = "end" THEN "ended" ELSE "beat"]
       /\ UNCHANGED <<switches, state, status, called, episodes, traded, faults>>
=============================================================================
