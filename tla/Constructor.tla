---------------------------- MODULE Constructor -----------------------------
(***************************************************************************)
(* The portfolio constructor between Diana and Atlas, and the snapshot it  *)
(* sizes on: src/execution/portfolio_snapshot.py reads the venue, serves a *)
(* cached snapshot of it for CacheTtl, or reads positions, value and P&L   *)
(* through the position provider, which asks for the venue again each      *)
(* time.  The arithmetic of the decision is Sizing!Decide.                 *)
(***************************************************************************)
EXTENDS RiskMonitor, Sizing

CONSTANTS CacheTtl,        \* _CACHE_TTL_S
          MaxClock,        \* bound: clock
          MaxCycles,       \* bound: cycles sized
          Correlated,      \* the pairs of the stored correlation matrix
          Signals,         \* what Diana may approve: symbol, direction, ...
          Modes            \* autonomy modes

ASSUME ConstructorAssumption == /\ CacheTtl \in Nat \ {0}
                                /\ MaxClock \in Nat
                                /\ MaxCycles \in Nat
                                /\ Correlated \subseteq SUBSET Symbols
                                /\ \A g \in Signals : {g.confidence, g.price,
                                                     g.vol, g.volume} \subseteq Int

VARIABLES
    clock,        \* time.monotonic()
    cache,        \* the module's _cache, one slot per venue
    sn,           \* the constructor at work: place, locals, last decision
    cycles        \* cycles sized so far

sizingVars == <<clock, cache, sn, cycles>>

NoSnapshot == [at |-> -1, seen |-> 0, from |-> {}, positions |-> {}, worth |-> 0,
               pnl |-> 0, since |-> 0, until |-> 0]
NotSizing == [pc |-> "idle", venue |-> "sim", got |-> 0, s |-> NoSnapshot,
              symbol |-> "none", mode |-> "none", decision |-> Rejected("none")]

SizingInit ==
    /\ clock = 0
    /\ cache = [v \in ValidVenues |-> NoSnapshot]
    /\ sn = NotSizing
    /\ cycles = 0

Tick == /\ "sizing" \in cast /\ clock < MaxClock
        /\ clock' = clock + 1
        /\ UNCHANGED <<cache, sn, cycles, riskVars, venueVars>>

\* analyze, for a cycle Diana approved; a cycle id decided before gets its
\* decision from _decision_cache and changes nothing
Analyze ==
    /\ "sizing" \in cast /\ sn.pc \in {"idle", "merge"} /\ cycles < MaxCycles
    /\ cycles' = cycles + 1
    /\ sn' = [NotSizing EXCEPT !.pc = "venue"]
    /\ UNCHANGED <<clock, cache, riskVars, venueVars>>

SnapshotVenue ==
    /\ sn.pc = "venue"
    /\ LET v == GetExecutionVenue
           hit == cache[v].at >= 0 /\ clock - cache[v].at < CacheTtl
       IN sn' = [sn EXCEPT !.venue = v, !.got = clock,
                           !.pc = IF hit THEN "decide" ELSE "positions",
                           !.s = IF hit THEN cache[v]
                                 ELSE [NoSnapshot EXCEPT !.at = clock, !.since = changes]]
    /\ UNCHANGED <<clock, cache, cycles, riskVars, venueVars>>

\* one of the three readings; a missing broker raises and the trade is refused
Reading(label, next, filled(_)) ==
    LET v == GetExecutionVenue
    IN /\ sn.pc = label
       /\ sn' = IF BrokerMissing(v)
                THEN [NotSizing EXCEPT !.decision = Rejected("broker_unavailable")]
                ELSE [sn EXCEPT !.pc = next,
                                !.s = [filled(v) EXCEPT !.from = @ \cup {v}]]
       /\ UNCHANGED <<clock, cache, cycles, riskVars, venueVars>>

SnapshotPositions ==
    LET filled(v) == [sn.s EXCEPT !.positions = GetPositions(v), !.seen = clock]
    IN Reading("positions", "worth", filled)
SnapshotWorth ==
    LET filled(v) == [sn.s EXCEPT !.worth = GetPortfolioValue(v)]
    IN Reading("worth", "pnl", filled)
SnapshotPnl ==
    LET filled(v) == [sn.s EXCEPT !.pnl = GetDailyPnl(v)]
    IN Reading("pnl", "store", filled)

\* (faulty) stamped when it is stored, or stored for whoever asks
StoreStampedLate ==
    /\ sn.pc = "store"
    /\ LET s == [sn.s EXCEPT !.until = changes, !.at = clock]
       IN /\ cache' = [cache EXCEPT ![sn.venue] = s]
          /\ sn' = [sn EXCEPT !.s = s, !.pc = "decide"]
    /\ UNCHANGED <<clock, cycles, riskVars, venueVars>>
StoreForAll ==
    /\ sn.pc = "store"
    /\ LET s == [sn.s EXCEPT !.until = changes]
       IN /\ cache' = [v \in ValidVenues |-> s]
          /\ sn' = [sn EXCEPT !.s = s, !.pc = "decide"]
    /\ UNCHANGED <<clock, cycles, riskVars, venueVars>>

\* the correlation matrix is read, the snapshot stored under the FIRST venue
SnapshotStore ==
    /\ sn.pc = "store"
    /\ LET s == [sn.s EXCEPT !.until = changes]
       IN /\ cache' = [cache EXCEPT ![sn.venue] = s]
          /\ sn' = [sn EXCEPT !.s = s, !.pc = "decide"]
    /\ UNCHANGED <<clock, cycles, riskVars, venueVars>>

\* _compute_exposures and _correlation_overlap over the snapshot's positions
View(s, symbol) ==
    [value |-> s.worth, pnl |-> s.pnl,
     gross |-> MapThenSumSet(LAMBDA t : Weight[t], s.positions),
     held |-> IF symbol \in s.positions THEN Weight[symbol] ELSE 0,
     overlap |-> Cardinality({t \in s.positions \ {symbol} :
                                  {t, symbol} \in Correlated})]

BuildDecision(signal, mode, blackout) ==
    /\ sn.pc = "decide"
    /\ sn' = [sn EXCEPT !.pc = "merge", !.symbol = signal.symbol, !.mode = mode,
           !.decision = Decide(View(sn.s, signal.symbol), mode, blackout,
                               signal.direction, signal.confidence, signal.price,
                               signal.vol, signal.volume)]
    /\ UNCHANGED <<clock, cache, cycles, riskVars, venueVars>>
=============================================================================
