---------------------------- MODULE RiskMonitor -----------------------------
(***************************************************************************)
(* src/execution/risk_monitor.py over the venues: the day rollover, a      *)
(* sweep whose three readings each ask for the venue anew, the day's       *)
(* baseline and metrics, the drawdown check that trips the kill switch and *)
(* the concentration alert.  Money is in thousandths of the initial cash.  *)
(*                                                                         *)
(* worth[a] is what account a is worth.  A day's P&L is counted in two     *)
(* ways: at Alpaca from base[a], the last_equity it moves at midnight; in  *)
(* the sim it is paperPnl, what sales realised since the counter was last  *)
(* set to 0.  What the sim's open positions lose, and what a flatten       *)
(* realises, is in no P&L.                                                 *)
(***************************************************************************)
EXTENDS Venues

CONSTANTS InitialCash,
          Worths,          \* what an account may come to be worth
          Sales,           \* what a sale in the sim may realise
          MaxDailyLoss,    \* settings.max_daily_loss, in thousandths
          Weight,          \* the notional of a position in each symbol
          LimitPct,        \* CONCENTRATION_MULTIPLIER * max_risk_per_trade, in %
          MaxDay,          \* bound: last day
          MaxCrashes       \* bound: restarts of the monitor

ASSUME RiskAssumption == /\ InitialCash \in Nat \ {0}
                         /\ Worths \subseteq Nat
                         /\ Sales \subseteq Int
                         /\ MaxDailyLoss \in Nat
                         /\ Weight \in [Symbols -> Nat]
                         /\ LimitPct \in Nat
                         /\ MaxDay \in Nat \ {0}
                         /\ MaxCrashes \in Nat

\* Where the monitor sweeps or the constructor sizes, PaperSale stands for every
\* sale in the sim: a cast with either has no client that trades through Venues.
ASSUME TradersApart == \A c \in Casts : \/ c \cap {"risk", "sizing"} = {}
                                       \/ c \cap {"desk", "monitor"} = {}

VARIABLES
    worth, base,
    paperPnl,     \* paper:daily_pnl
    day,          \* today (UTC)
    resetDay,     \* risk:daily_pnl_date
    resets,       \* history: how often each day's rollover reset the sim's P&L
    rm,           \* the monitor: place in the sweep and its locals
    started,      \* pnl:daily:{day}.start_portfolio; -1 where absent
    metrics,      \* risk:metrics
    alerts,       \* history: symbols of concentration alerts
    crashes       \* restarts so far

riskVars == <<worth, base, paperPnl, day, resetDay, resets, rm, started, metrics, alerts,
              crashes>>
money == <<worth, base, paperPnl, day>>

Days == 1..MaxDay
NoSweep == [pc |-> "begin", today |-> 1, label |-> "sim", positions |-> {},
            worth |-> 0, pnl |-> 0, seen |-> 0]

RiskInit ==
    /\ worth = [a \in Accounts |-> InitialCash]
    /\ base = worth
    /\ paperPnl = 0
    /\ day = 1
    /\ resetDay = 0
    /\ resets = [d \in Days |-> 0]
    /\ rm = NoSweep
    /\ started = [d \in Days |-> -1]
    /\ metrics = [venue |-> "sim", pnl |-> 0, worth |-> InitialCash, dayPnl |-> 0]
    /\ alerts = {}
    /\ crashes = 0

\* get_daily_pnl and get_portfolio_value; an account Alpaca does not give is {}
DayPnl(a) == IF a = "sim" THEN paperPnl ELSE worth[a] - base[a]
GetDailyPnl(v) == IF v = "sim" \/ "account" \in up THEN DayPnl(v) ELSE 0
GetPortfolioValue(v) == IF v = "sim" \/ "account" \in up THEN worth[v] ELSE 0

Breach(pnl) == pnl < 0 /\ -pnl * 1000 >= MaxDailyLoss * InitialCash

\* _check_concentration
Concentrated(positions, value) ==
    {s \in positions : value > 0 /\ Weight[s] * 100 > LimitPct * value}

At(label) == "risk" \in cast /\ rm.pc = label
Keep == UNCHANGED <<venueVars, money, crashes>>

(* ------------------------------ surroundings ---------------------------- *)
MarketMove(a, w) ==
    /\ cast \cap {"risk", "sizing"} # {} /\ worth[a] # w
    /\ Change
    /\ worth' = [worth EXCEPT ![a] = w]
    /\ UNCHANGED <<base, paperPnl, day, resetDay, resets, rm, started, metrics,
                   alerts, crashes, config, chosen, stable, up, book, pending, kill, task, orders,
                   settled, strays>>

\* a sale in the sim, whole: the position goes and the counter takes what it made
PaperSale(s, p) ==
    /\ cast \cap {"risk", "sizing"} # {} /\ s \in Held("sim")
    /\ Change
    /\ book' = [book EXCEPT !["sim"][s] = 0]
    /\ paperPnl' = paperPnl + p
    /\ UNCHANGED <<worth, base, day, resetDay, resets, rm, started, metrics, alerts,
                   crashes, config, chosen, stable, up, pending, kill, task, orders,
                   settled, strays>>

\* midnight: Alpaca's last_equity moves; the sim's counter waits for a reset
Midnight ==
    /\ "risk" \in cast /\ day < MaxDay
    /\ Change
    /\ day' = day + 1
    /\ base' = worth
    /\ UNCHANGED <<worth, paperPnl, resetDay, resets, rm, started, metrics, alerts, crashes,
                   config, chosen, stable, up, book, pending, kill, task, orders,
                   settled, strays>>

(* -------------------------------- rollover ------------------------------ *)
\* _reset_daily_pnl_if_new_day reads the marker
BeginSweep ==
    /\ "risk" \in cast /\ rm.pc \in {"begin", "asleep"}
    /\ rm' = [NoSweep EXCEPT !.today = day, !.seen = changes,
                             !.pc = IF resetDay = day THEN "venue" ELSE "stamp"]
    /\ UNCHANGED <<resetDay, resets, started, metrics, alerts>>
    /\ Keep

\* (faulty) the marker names the next day, or is never moved
StampTomorrow ==
    /\ At("stamp")
    /\ resetDay' = rm.today + 1
    /\ rm' = [rm EXCEPT !.pc = "reset"]
    /\ UNCHANGED <<resets, started, metrics, alerts>>
    /\ Keep
StampForgotten ==
    /\ At("stamp")
    /\ rm' = [rm EXCEPT !.pc = "reset"]
    /\ UNCHANGED <<resetDay, resets, started, metrics, alerts>>
    /\ Keep

StampDay ==
    /\ At("stamp")
    /\ resetDay' = rm.today
    /\ rm' = [rm EXCEPT !.pc = "reset"]
    /\ UNCHANGED <<resets, started, metrics, alerts>>
    /\ Keep

ResetBroker ==
    /\ At("reset")
    /\ paperPnl' = 0
    /\ resets' = [resets EXCEPT ![rm.today] = @ + 1]
    /\ rm' = [rm EXCEPT !.pc = "venue"]
    /\ UNCHANGED <<resetDay, started, metrics, alerts, worth, base, day, crashes,
                   venueVars>>

(* --------------------------------- sweep -------------------------------- *)
ReadLabel ==
    /\ At("venue")
    /\ rm' = [rm EXCEPT !.label = GetExecutionVenue, !.pc = "positions"]
    /\ UNCHANGED <<resetDay, resets, started, metrics, alerts>>
    /\ Keep

ReadPositions ==
    /\ At("positions")
    /\ ~BrokerMissing(GetExecutionVenue)
    /\ rm' = [rm EXCEPT !.positions = GetPositions(GetExecutionVenue), !.pc = "worth"]
    /\ UNCHANGED <<resetDay, resets, started, metrics, alerts>>
    /\ Keep

\* no broker for the venue: trip, and sleep
Blind ==
    /\ At("positions")
    /\ BrokerMissing(GetExecutionVenue)
    /\ kill' = TRUE
    /\ rm' = [rm EXCEPT !.pc = "asleep"]
    /\ UNCHANGED <<resetDay, resets, started, metrics, alerts, money, crashes,
                   config, chosen, stable, up, book, pending, task, orders,
                   changes, settled, strays>>

\* the same error from the next two readings is only logged
ReadWorth ==
    LET v == GetExecutionVenue
    IN /\ At("worth")
       /\ rm' = IF BrokerMissing(v) THEN [rm EXCEPT !.pc = "begin"]
                ELSE [rm EXCEPT !.worth = GetPortfolioValue(v), !.pc = "pnl"]
       /\ UNCHANGED <<resetDay, resets, started, metrics, alerts>>
       /\ Keep

ReadPnl ==
    LET v == GetExecutionVenue
    IN /\ At("pnl")
       /\ rm' = IF BrokerMissing(v) THEN [rm EXCEPT !.pc = "begin"]
                ELSE [rm EXCEPT !.pnl = GetDailyPnl(v), !.pc = "publish"]
       /\ UNCHANGED <<resetDay, resets, started, metrics, alerts>>
       /\ Keep

\* the first sweep of a day seeds its baseline; metrics follow from it
Publish ==
    LET first == IF started[day] = -1 THEN rm.worth ELSE started[day]
    IN /\ At("publish")
       /\ started' = [started EXCEPT ![day] = first]
       /\ metrics' = [venue |-> rm.label, pnl |-> rm.pnl, worth |-> rm.worth,
                      dayPnl |-> rm.worth - first]
       /\ rm' = [rm EXCEPT !.pc = "enforce"]
       /\ UNCHANGED <<resetDay, resets, alerts>>
       /\ Keep

\* (faulty) the loss counted from the day's first sweep
EnforceOnMetrics ==
    /\ At("enforce")
    /\ kill' = (kill \/ Breach(metrics.dayPnl))
    /\ alerts' = alerts \cup Concentrated(rm.positions, rm.worth)
    /\ rm' = [rm EXCEPT !.pc = "asleep"]
    /\ UNCHANGED <<resetDay, resets, started, metrics, money, crashes,
                   config, chosen, stable, up, book, pending, task, orders,
                   changes, settled, strays>>

\* the loss limit, then the concentration alert
Enforce ==
    /\ At("enforce")
    /\ kill' = (kill \/ Breach(rm.pnl))
    /\ alerts' = alerts \cup Concentrated(rm.positions, rm.worth)
    /\ rm' = [rm EXCEPT !.pc = "asleep"]
    /\ UNCHANGED <<resetDay, resets, started, metrics, money, crashes,
                   config, chosen, stable, up, book, pending, task, orders,
                   changes, settled, strays>>

\* a Redis error or a restart anywhere: the sweep begins again
Crash ==
    /\ "risk" \in cast /\ rm.pc \notin {"begin", "asleep"} /\ crashes < MaxCrashes
    /\ crashes' = crashes + 1
    /\ rm' = NoSweep
    /\ UNCHANGED <<resetDay, resets, started, metrics, alerts, money, venueVars>>
=============================================================================
