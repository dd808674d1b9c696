----------------------------- MODULE RiskGuard ------------------------------
(***************************************************************************)
(* The parts that stand between a decision and money: venues, routing and  *)
(* the kill switch (Venues), the risk monitor (RiskMonitor) and the        *)
(* portfolio constructor (Constructor), composed, and what they promise    *)
(* together.                                                               *)
(***************************************************************************)
EXTENDS Constructor

guardVars == <<venueVars, riskVars, sizingVars>>

GuardInit == Init /\ RiskInit /\ SizingInit

ByVenues == UNCHANGED <<riskVars, sizingVars>>
ByMonitor == UNCHANGED sizingVars
GuardNext ==
    \/ UpdateSettings /\ ByVenues
    \/ ToggleLive /\ ByVenues
    \/ Alpaca /\ ByVenues
    \/ \E s \in Symbols : AlpacaFills(s) /\ ByVenues
    \/ \E s \in Symbols : AlpacaDrops(s) /\ ByVenues
    \/ Kill /\ ByVenues
    \/ FlattenSim /\ ByVenues
    \/ Reset /\ ByVenues
    \/ KillSweep /\ ByVenues
    \/ Dispatch /\ ByVenues
    \/ Flatten /\ ByVenues
    \/ \E s \in Symbols, side \in {"BUY", "SELL"} : Enter(s, side) /\ ByVenues
    \/ \E c \in Clients : ReadVenue(c) /\ ByVenues
    \/ \E c \in Clients : PlaceUnavailable(c) /\ ByVenues
    \/ \E c \in Clients : PlaceFilled(c) /\ ByVenues
    \/ \E c \in Clients : PlacePending(c) /\ ByVenues
    \/ \E c \in Clients : PlaceRejected(c) /\ ByVenues
    \/ \E s \in Symbols : StopHit(s) /\ ByVenues
    \/ \E s \in Symbols, ok \in BOOLEAN : Exit(s, ok) /\ ByVenues
    \/ \E s \in Symbols, ok \in BOOLEAN : ClosePosition(s, ok) /\ ByVenues
    \/ \E s \in Symbols : CloseTimesOut(s) /\ ByVenues
    \/ \E a \in ValidVenues, w \in Worths : MarketMove(a, w) /\ ByMonitor
    \/ \E s \in Symbols, p \in Sales : PaperSale(s, p) /\ ByMonitor
    \/ Midnight /\ ByMonitor
    \/ BeginSweep /\ ByMonitor
    \/ StampDay /\ ByMonitor
    \/ ResetBroker /\ ByMonitor
    \/ ReadLabel /\ ByMonitor
    \/ ReadPositions /\ ByMonitor
    \/ Blind /\ ByMonitor
    \/ ReadWorth /\ ByMonitor
    \/ ReadPnl /\ ByMonitor
    \/ Publish /\ ByMonitor
    \/ Enforce /\ ByMonitor
    \/ Crash /\ ByMonitor
    \/ Tick \/ SnapshotVenue \/ SnapshotPositions \/ SnapshotWorth \/ SnapshotPnl
    \/ SnapshotStore \/ Analyze
    \/ \E g \in Signals, m \in Modes, b \in BOOLEAN : BuildDecision(g, m, b)

Spec == GuardInit /\ [][GuardNext]_guardVars

\* the monitor's loop catches every exception and sleeps, a request runs to its
\* end; a position is priced and closed sooner or later while its venue answers, and
\* an accepted order fills or is dropped
Closes(s) == (Exit(s, TRUE) \/ ClosePosition(s, TRUE)) /\ ByVenues
Settles(s) == (AlpacaFills(s) \/ AlpacaDrops(s)) /\ ByVenues
Fairness ==
    /\ WF_guardVars(KillSweep /\ ByVenues)
    /\ WF_guardVars(Dispatch /\ ByVenues)
    /\ WF_guardVars(Flatten /\ ByVenues)
    /\ WF_guardVars(FlattenSim /\ ByVenues)
    /\ \A c \in Clients : WF_guardVars(ReadVenue(c) /\ ByVenues)
    /\ \A c \in Clients : WF_guardVars(Place(c) /\ ByVenues)
    /\ \A s \in Symbols : WF_guardVars(Settles(s))
    /\ \A s \in Symbols : SF_guardVars(Closes(s))
FairSpec == Spec /\ Fairness

TypeOK ==
    /\ config \in [venue : ValidVenues \cup {"unset"}, paper : {"unset", "true", "false"}]
    /\ chosen \subseteq ValidVenues
    /\ book \in [Accounts -> [Symbols -> {-1, 0, 1}]]
    /\ pending \subseteq [account : {"alpaca_paper", "live"}, symbol : Symbols,
                          side : {"BUY", "SELL"}]
    /\ <<kill, creds, exchange, settled>> \in BOOLEAN \X BOOLEAN \X BOOLEAN \X BOOLEAN
    /\ up \subseteq Endpoints
    /\ \A c \in Clients : task[c].venue \in ValidVenues /\ task[c].todo \subseteq Symbols
    /\ worth \in [Accounts -> Nat] /\ base \in [Accounts -> Nat] /\ paperPnl \in Int
    /\ resetDay \in 0..day
    /\ rm.positions \subseteq Symbols /\ rm.worth \in Nat /\ rm.pnl \in Int
    /\ metrics.venue \in ValidVenues
    /\ sn.venue \in ValidVenues /\ sn.s.positions \subseteq Symbols
    /\ sn.decision.notional \in Nat

(* ------------------------------- properties ----------------------------- *)
\* Real money moves only after a settings request named the venue "live": no
\* sequence of toggles of the legacy flag, switches and late orders leads there.
LiveNeedsConsent ==
    /\ Held("live") \cup Held("exchange") # {} => "live" \in chosen
    /\ (\E p \in pending : p.account = "live") => "live" \in chosen

\* While the venue is switched only when every account is flat and nothing is
\* under way, an exit goes to the account that holds the position: an order its
\* venue refuses is never filled anywhere else.
ExitsGoWhereHeld == settled => strays = {}

\* A sweep during which nothing changed leaves the kill switch up if the venue has no
\* broker or its day's P&L, as the venue counts it, is a loss at the limit.  What an
\* open position of the sim has lost is no part of that P&L (broker.py:267-279, 582).
GuardsTrip ==
    (rm.pc = "asleep" /\ rm.seen = changes
     /\ ("account" \in up \/ GetExecutionVenue = "sim")) =>
        (BrokerMissing(GetExecutionVenue) \/ Breach(DayPnl(GetExecutionVenue)) => kill)

\* However the monitor is restarted, the sim's P&L is set back at most once for
\* a day; past the rollover it was, unless a restart fell into the rollover.
ResetOncePerDay ==
    /\ \A d \in Days : resets[d] <= 1
    /\ crashes = 0 /\ rm.pc \notin {"begin", "asleep", "stamp", "reset"}
           => resets[rm.today] = 1

\* The constructor never sizes on positions read CacheTtl or longer before it asked,
\* however slowly the three readings went when the snapshot was cached; and one taken
\* while nothing changed is of the venue it asked for, whoever else fills the cache.
SnapshotTrue ==
    sn.pc = "decide" =>
        /\ sn.got - sn.s.seen < CacheTtl
        /\ sn.s.since = sn.s.until => sn.s.from = {sn.venue}

\* If nothing changed since the snapshot began and it names what the account holds,
\* what is approved fits the account: the symbol stays within the mode's cap, the
\* account can be read, and its P&L, as the venue counts it, is within the day's cap.
ApprovedFits ==
    LET limits == LimitsForMode(sn.mode)
        held == IF sn.symbol \in sn.s.positions THEN Weight[sn.symbol] ELSE 0
    IN (/\ sn.pc = "merge" /\ sn.decision.approved
        /\ sn.s.since = changes /\ sn.s.positions = Held(sn.venue)) =>
           /\ sn.venue = "sim" \/ "account" \in up
           /\ sn.decision.notional + held <= (worth[sn.venue] * limits.single) \div Unit
           /\ DayPnl(sn.venue) < 0 =>
                 -DayPnl(sn.venue) * Unit < limits.daily * worth[sn.venue]

\* Once the switch stays up, the venue answers about its positions and nobody enters
\* any more, that venue's book empties, whichever way its positions are closed, however
\* closes time out and whatever becomes of orders accepted before.  Who enters under the
\* switch, as the cycle runner does, refills the venue for as long as it likes.
KillEmptiesVenue ==
    <>[](/\ "monitor" \in cast /\ kill /\ "book" \in up
         /\ ~BrokerMissing(GetExecutionVenue) /\ task["desk"].pc = "idle") =>
        <>[](Held(GetExecutionVenue) = {})

\* risk_monitor.py:154: "if the venue's broker can't be read, that's a safety
\* event -- trip the kill switch and skip this sweep".
UnreadableTrips ==
    (rm.pc = "asleep" /\ rm.seen = changes /\ up = {} /\ GetExecutionVenue # "sim") => kill
=============================================================================
