------------------------------- MODULE Venues -------------------------------
(***************************************************************************)
(* Where an order goes and who closes it: the execution venue in           *)
(* config:system and the settings requests that change it, the routing of  *)
(* PaperBroker.submit_order, the Alpaca wrapper that turns every failure   *)
(* into an empty answer, and the venue-aware flatten behind the kill       *)
(* switch.  Nothing ties one read of the venue to the next: submit_order,  *)
(* the position provider and the flattener each read it anew, and the      *)
(* operator may change it between any two of them.                         *)
(*                                                                         *)
(* An account holds the sign of each symbol's position; sizes, prices and  *)
(* the steps inside a simulated fill are in Fills and PaperBroker.         *)
(***************************************************************************)
EXTENDS Integers, FiniteSets

CONSTANTS Symbols,
          Kind,            \* each symbol: commodity, equity, pair or exotic
          Casts,           \* which roles act in a behaviour, one choice each
          Opening,         \* what a behaviour without entries may begin with
          MaxOrders,       \* bound: entries submitted
          MaxChanges       \* bound: changes of the surroundings

Kinds == {"commodity", "equity", "pair", "exotic"}
ValidVenues == {"sim", "alpaca_paper", "live"}
Accounts == ValidVenues \cup {"exchange"}      \* exchange: ccxt, live only
Roles == {"desk", "operator", "monitor", "settings", "risk", "sizing"}
Clients == {"desk", "operator", "monitor"}
Endpoints == {"book", "account"}      \* positions and orders; value and P&L

ASSUME VenuesAssumption == /\ IsFiniteSet(Symbols)
                           /\ Kind \in [Symbols -> Kinds]
                           /\ Casts \subseteq SUBSET Roles
                           /\ Opening \subseteq SUBSET Symbols
                           /\ MaxOrders \in Nat
                           /\ MaxChanges \in Nat

VARIABLES
    config,     \* execution_venue and paper_trading of config:system
    chosen,     \* history: the venues a settings request ever named
    creds,      \* the process has Alpaca credentials; read at its start
    exchange,   \* credentials of a ccxt exchange are stored
    up,         \* which of Alpaca's endpoints answer
    book,       \* per account and symbol: 1 long, -1 short, 0 flat
    pending,    \* orders a venue accepted and has not filled
    kill,       \* kill_switch:active
    task,       \* the order, sweep or flatten each client is at
    orders,     \* entries submitted so far
    changes,    \* changes of the surroundings so far
    settled,    \* history: the venue only ever changed while all was flat
    strays,     \* history: exits sent to an account that held nothing of it
    cast        \* who acts in this behaviour; never changes

venueVars == <<config, chosen, creds, exchange, up, book, pending, kill, task,
               orders, changes, settled, strays, cast>>
stable == <<creds, exchange, cast>>

Idle == [pc |-> "idle", symbol |-> "none", side |-> "BUY", venue |-> "sim",
         from |-> "none", todo |-> {}]
Held(a) == {s \in Symbols : book[a][s] # 0}

\* (faulty) the legacy flag leads straight to real money
VenueOfLegacyLive(c) == IF c.venue # "unset" THEN c.venue
                        ELSE IF c.paper = "false" THEN "live" ELSE "sim"

\* get_execution_venue: the stored venue, else the legacy flag, else sim
VenueOf(c) == IF c.venue # "unset" THEN c.venue
              ELSE IF c.paper = "false" THEN "alpaca_paper" ELSE "sim"
GetExecutionVenue == VenueOf(config)

\* get_alpaca_broker is None without credentials; a sim needs none
BrokerMissing(v) == v # "sim" /\ ~creds

\* position_source_for(v).get_positions: an error at Alpaca is an empty list
GetPositions(v) == IF v = "sim" \/ "book" \in up THEN Held(v) ELSE {}

\* submit_order's choice of account; every caller leaves exchange_id alone
Route(v, s) == IF Kind[s] = "commodity" \/ v = "sim" THEN "sim"
               ELSE IF Kind[s] \in {"equity", "pair"} THEN v
               ELSE IF v = "live" THEN "exchange" ELSE "sim"

\* what a fill does to a position: only a real account goes short
Filled(a, s, side) == CASE side = "BUY" -> IF book[a][s] = -1 THEN 0 ELSE 1
                        [] OTHER -> IF a = "sim" \/ book[a][s] = 1 THEN 0 ELSE -1

Init ==
    /\ config \in [venue : {"unset", "sim"}, paper : {"unset"}]
    /\ chosen = {}
    /\ creds \in BOOLEAN
    /\ cast \in Casts
    /\ exchange \in IF "desk" \in cast THEN BOOLEAN ELSE {FALSE}   \* only orders reach it
    /\ up = Endpoints
    /\ \E h \in IF "desk" \in cast THEN {{}} ELSE Opening :
          book = [a \in Accounts |-> [s \in Symbols |->
                     IF a \in {"sim", "alpaca_paper"} /\ s \in h THEN 1 ELSE 0]]
    /\ pending = {}
    /\ kill = FALSE
    /\ task = [c \in Clients |-> Idle]
    /\ orders = 0
    /\ changes = 0
    /\ settled = TRUE
    /\ strays = {}

(* ----------------------- settings and surroundings ---------------------- *)
Change == changes < MaxChanges /\ changes' = changes + 1

AllFlat == /\ \A a \in Accounts : Held(a) = {}
           /\ pending = {}
           /\ \A c \in Clients : task[c].pc = "idle"

SetConfig(c) ==
    /\ "settings" \in cast
    /\ config' = c
    /\ settled' = (settled /\ (VenueOf(c) # GetExecutionVenue => AllFlat))
    /\ UNCHANGED <<stable, up, book, pending, kill, task, orders, strays>>

\* update_settings: a venue drags the legacy flag with it unless both are sent
UpdateSettings ==
    \E v \in ValidVenues \cup {"unset"}, p \in {"true", "false", "unset"} :
        LET flag == IF v = "sim" THEN "true" ELSE "false"
        IN /\ <<v, p>> # <<"unset", "unset">>
           /\ Change
           /\ SetConfig([venue |-> IF v = "unset" THEN config.venue ELSE v,
                         paper |-> IF p # "unset" THEN p
                                   ELSE IF v = "unset" THEN config.paper ELSE flag])
           /\ chosen' = chosen \cup ({v} \ {"unset"})

\* toggle_live_trading flips the legacy flag and leaves the venue
ToggleLive ==
    /\ Change
    /\ SetConfig([config EXCEPT !.paper = IF @ = "false" THEN "true" ELSE "false"])
    /\ UNCHANGED chosen

\* Alpaca stops or starts to answer, at each endpoint for itself
Alpaca ==
    /\ creds
    /\ Change
    /\ \E e \in SUBSET Endpoints : e # up /\ up' = e
    /\ UNCHANGED <<config, chosen, stable, book, pending, kill, task, orders,
                   settled, strays>>

\* an accepted order fills later
AlpacaFills(s) ==
    /\ \E p \in {q \in pending : q.symbol = s} :
           /\ pending' = pending \ {p}
           /\ book' = [book EXCEPT ![p.account][p.symbol] =
                           Filled(p.account, p.symbol, p.side)]
    /\ UNCHANGED <<config, chosen, stable, up, kill, task, orders, changes,
                   settled, strays>>

\* ... or never does: an equity's order is good for the day, any can be cancelled
AlpacaDrops(s) ==
    /\ \E p \in {q \in pending : q.symbol = s} : pending' = pending \ {p}
    /\ UNCHANGED <<config, chosen, stable, up, book, kill, task, orders, changes,
                   settled, strays>>

(* --------------------------- submitting orders -------------------------- *)
\* Atlas or the orders router submits an entry
Enter(s, side) ==
    /\ "desk" \in cast /\ task["desk"].pc = "idle" /\ orders < MaxOrders
    /\ orders' = orders + 1
    /\ task' = [task EXCEPT !["desk"] = [Idle EXCEPT !.pc = "route",
                                             !.symbol = s, !.side = side]]
    /\ UNCHANGED <<config, chosen, stable, up, book, pending, kill, changes,
                   settled, strays>>

\* submit_order reads the venue ...
ReadVenue(c) ==
    /\ task[c].pc = "route"
    /\ task' = [task EXCEPT ![c].venue = GetExecutionVenue, ![c].pc = "place"]
    /\ UNCHANGED <<config, chosen, stable, up, book, pending, kill, orders,
                   changes, settled, strays>>

\* ... and acts on it.  A caller that sweeps goes on with its next position
Done(c) == task' = [task EXCEPT ![c] =
                        IF @.todo = {} THEN Idle ELSE [@ EXCEPT !.pc = "exit"]]
Stray(t, a) == IF t.from \notin {"none", a}
               THEN {[symbol |-> t.symbol, from |-> t.from, to |-> a]} ELSE {}

\* an account that should take the order cannot: kill switch, and raise
PlaceUnavailable(c) ==
    LET a == Route(task[c].venue, task[c].symbol)
    IN /\ task[c].pc = "place"
       /\ \/ a \in {"alpaca_paper", "live"} /\ ~creds
          \/ a = "exchange" /\ ~exchange
       /\ kill' = TRUE
       /\ Done(c)
       /\ UNCHANGED <<config, chosen, stable, up, book, pending, orders, changes,
                      settled, strays>>

PlaceFilled(c) ==
    LET t == task[c]
        a == Route(t.venue, t.symbol)
    IN /\ t.pc = "place"
       /\ CASE a = "sim" -> TRUE
            [] a = "exchange" -> exchange
            [] OTHER -> creds /\ "book" \in up
       /\ book' = [book EXCEPT ![a][t.symbol] = Filled(a, t.symbol, t.side)]
       /\ strays' = strays \cup Stray(t, a)
       /\ Done(c)
       /\ UNCHANGED <<config, chosen, stable, up, pending, kill, orders, changes,
                      settled>>

\* Alpaca accepts and fills later; also the order that stands although the
\* call raised after it and reported it REJECTED
PlacePending(c) ==
    LET t == task[c]
        a == Route(t.venue, t.symbol)
    IN /\ t.pc = "place"
       /\ a \in {"alpaca_paper", "live"} /\ creds /\ "book" \in up
       /\ pending' = pending \cup {[account |-> a, symbol |-> t.symbol,
                                    side |-> t.side]}
       /\ strays' = strays \cup Stray(t, a)
       /\ Done(c)
       /\ UNCHANGED <<config, chosen, stable, up, book, kill, orders, changes,
                      settled>>

\* (faulty) what a venue refuses is filled by the simulation
PlaceFallsBack(c) ==
    LET t == task[c]
    IN /\ t.pc = "place"
       /\ Route(t.venue, t.symbol) \in {"alpaca_paper", "live"} /\ creds
       /\ book' = [book EXCEPT !["sim"][t.symbol] = Filled("sim", t.symbol, t.side)]
       /\ Done(c)
       /\ UNCHANGED <<config, chosen, stable, up, pending, kill, orders, changes,
                      settled, strays>>

\* refused or unreachable: a REJECTED order, and no position anywhere
PlaceRejected(c) ==
    LET a == Route(task[c].venue, task[c].symbol)
    IN /\ task[c].pc = "place"
       /\ \/ a \in {"alpaca_paper", "live"} /\ creds
          \/ a = "exchange" /\ exchange
       /\ Done(c)
       /\ UNCHANGED <<config, chosen, stable, up, book, pending, kill, orders,
                      changes, settled, strays>>

(* ------------------------------ kill switch ----------------------------- *)
\* the kill endpoint: the switch, then the sim's book
Kill ==
    /\ "operator" \in cast /\ task["operator"].pc = "idle"
    /\ Change
    /\ kill' = TRUE
    /\ task' = [task EXCEPT !["operator"].pc = "flattenSim"]
    /\ UNCHANGED <<config, chosen, stable, up, book, pending, orders, settled,
                   strays>>

FlattenSim ==
    /\ task["operator"].pc = "flattenSim"
    /\ book' = [book EXCEPT !["sim"] = [s \in Symbols |-> 0]]
    /\ task' = [task EXCEPT !["operator"] = Idle]
    /\ UNCHANGED <<config, chosen, stable, up, pending, kill, orders, changes,
                   settled, strays>>

Reset ==
    /\ "operator" \in cast /\ kill
    /\ Change
    /\ kill' = FALSE
    /\ UNCHANGED <<config, chosen, stable, up, book, pending, task, orders,
                   settled, strays>>

\* with the switch down the monitor exits what the SIM holds, at its stop
StopHit(s) ==
    /\ "monitor" \in cast /\ task["monitor"].pc = "idle" /\ ~kill
    /\ s \in Held("sim")
    /\ task' = [task EXCEPT !["monitor"] = [Idle EXCEPT !.pc = "route",
                     !.symbol = s, !.side = "SELL", !.from = "sim"]]
    /\ UNCHANGED <<config, chosen, stable, up, book, pending, kill, orders,
                   changes, settled, strays>>

\* with it up: read the venue's positions ...
KillSweep ==
    LET v == GetExecutionVenue
    IN /\ "monitor" \in cast /\ task["monitor"].pc = "idle" /\ kill
       /\ ~BrokerMissing(v)
       /\ GetPositions(v) # {}
       /\ task' = [task EXCEPT !["monitor"] = [Idle EXCEPT !.pc = "dispatch",
                        !.from = v, !.todo = GetPositions(v)]]
       /\ UNCHANGED <<config, chosen, stable, up, book, pending, kill, orders,
                      changes, settled, strays>>

\* ... read the venue again: exits one by one, or the flattener
Dispatch ==
    /\ task["monitor"].pc = "dispatch"
    /\ task' = [task EXCEPT !["monitor"] =
           IF GetExecutionVenue = "sim" THEN [@ EXCEPT !.pc = "exit"]
           ELSE [Idle EXCEPT !.pc = "flatten"]]
    /\ UNCHANGED <<config, chosen, stable, up, book, pending, kill, orders,
                   changes, settled, strays>>

\* the exit of a position whose price is known; one without is passed over
Exit(s, priced) ==
    LET t == task["monitor"]
    IN /\ t.pc = "exit" /\ s \in t.todo
       /\ task' = [task EXCEPT !["monitor"] =
              IF priced THEN [t EXCEPT !.pc = "route", !.todo = @ \ {s},
                                       !.symbol = s, !.side = "SELL"]
              ELSE IF t.todo = {s} THEN Idle ELSE [t EXCEPT !.todo = @ \ {s}]]
       /\ UNCHANGED <<config, chosen, stable, up, book, pending, kill, orders,
                      changes, settled, strays>>

\* (faulty) a flattener that only knows the simulation
FlattenOnlySim ==
    /\ task["monitor"].pc = "flatten"
    /\ book' = [book EXCEPT !["sim"] = [s \in Symbols |-> 0]]
    /\ task' = [task EXCEPT !["monitor"] = Idle]
    /\ UNCHANGED <<config, chosen, stable, up, pending, kill, orders, changes,
                   settled, strays>>

\* VenueAwareFlattener.flatten_all reads the venue once more
Flatten ==
    LET v == GetExecutionVenue
    IN /\ task["monitor"].pc = "flatten"
       /\ book' = IF v = "sim"
                  THEN [book EXCEPT !["sim"] = [s \in Symbols |-> 0]] ELSE book
       /\ task' = [task EXCEPT !["monitor"] =
              IF v = "sim" \/ BrokerMissing(v) \/ GetPositions(v) = {} THEN Idle
              ELSE [Idle EXCEPT !.pc = "close", !.from = v, !.todo = GetPositions(v)]]
       /\ UNCHANGED <<config, chosen, stable, up, pending, kill, orders, changes,
                      settled, strays>>

\* Alpaca reserves a position for the order that closes it: the next is refused
Closing(a, s) == [account |-> a, symbol |-> s,
                  side |-> IF book[a][s] = 1 THEN "SELL" ELSE "BUY"]
Reserved(a, s) == Closing(a, s) \in pending

\* AlpacaBroker.flatten_all: a close succeeds, fails, or outlives its timeout
ClosePosition(s, closed) ==
    LET t == task["monitor"]
    IN /\ t.pc = "close" /\ s \in t.todo
       /\ closed => "book" \in up /\ ~Reserved(t.from, s)
       /\ book' = IF closed THEN [book EXCEPT ![t.from][s] = 0] ELSE book
       /\ task' = [task EXCEPT !["monitor"] =
              IF t.todo = {s} THEN Idle ELSE [t EXCEPT !.todo = @ \ {s}]]
       /\ UNCHANGED <<config, chosen, stable, up, pending, kill, orders, changes,
                      settled, strays>>

CloseTimesOut(s) ==
    LET t == task["monitor"]
    IN /\ t.pc = "close" /\ s \in t.todo /\ "book" \in up
       /\ book[t.from][s] # 0 /\ ~Reserved(t.from, s)
       /\ pending' = pending \cup {Closing(t.from, s)}
       /\ task' = [task EXCEPT !["monitor"] =
              IF t.todo = {s} THEN Idle ELSE [t EXCEPT !.todo = @ \ {s}]]
       /\ UNCHANGED <<config, chosen, stable, up, book, kill, orders, changes,
                      settled, strays>>

Place(c) == \/ PlaceUnavailable(c) \/ PlaceFilled(c)
            \/ PlacePending(c) \/ PlaceRejected(c)
=============================================================================
