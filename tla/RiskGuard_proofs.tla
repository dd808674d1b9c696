-------------------------- MODULE RiskGuard_proofs --------------------------
(***************************************************************************)
(* Theorems about RiskGuard: the consent to real money, the day's rollover *)
(* and the portfolio snapshot keep their promises for any set of symbols,  *)
(* casts and limits, and any number of orders, changes, days and crashes.  *)
(***************************************************************************)
EXTENDS RiskGuard, FiniteSetTheorems, TLAPS

(* -------------------------- types of what matters ----------------------- *)
Config == [venue : ValidVenues \cup {"unset"}, paper : {"unset", "true", "false"}]
TaskPlaces == {"idle", "route", "place", "exit", "dispatch", "flatten", "flattenSim", "close"}
Tasks == [pc : TaskPlaces, symbol : Symbols \cup {"none"}, side : {"BUY", "SELL"},
          venue : ValidVenues, from : ValidVenues \cup {"none"}, todo : SUBSET Symbols]
Holdings == [Accounts -> [Symbols -> {-1, 0, 1}]]

VenueType ==
    /\ config \in Config
    /\ book \in Holdings
    /\ task \in [Clients -> Tasks]
    /\ changes \in Nat

LEMMA VenueIsValid ==
  ASSUME config \in Config
  PROVE  /\ GetExecutionVenue \in ValidVenues
         /\ GetExecutionVenue = "live" => config.venue = "live"
  BY DEF Config, GetExecutionVenue, VenueOf, ValidVenues

LEMMA ClientNames == /\ Clients = {"desk", "operator", "monitor"}
                     /\ Accounts = ValidVenues \cup {"exchange"}
  BY DEF Clients, Accounts

(* ------------------------------ real money ------------------------------ *)
(* Before a settings request names the venue "live", nothing in the system
   points at real money: not the stored venue, nor an order, sweep or flatten
   that read it, nor an order a venue accepted, nor a position. *)
NoRealMoney ==
    /\ config.venue # "live"
    /\ \A c \in Clients : task[c].venue # "live" /\ task[c].from # "live"
    /\ \A p \in pending : p.account \notin {"live", "exchange"}
    /\ \A s \in Symbols : book["live"][s] = 0 /\ book["exchange"][s] = 0

ConsentInv == VenueType /\ ("live" \notin chosen => NoRealMoney)

LEMMA InitConsentInv == ASSUME GuardInit PROVE ConsentInv
  <1> USE VenuesAssumption
  <1>1. PICK h \in SUBSET Symbols :
           book = [a \in Accounts |-> [s \in Symbols |->
                      IF a \in {"sim", "alpaca_paper"} /\ s \in h THEN 1 ELSE 0]]
    BY DEF GuardInit, Init
  <1>2. book \in Holdings
    BY <1>1 DEF Holdings
  <1>3. \A s \in Symbols : book["live"][s] = 0 /\ book["exchange"][s] = 0
    BY <1>1 DEF Accounts, ValidVenues
  <1>4. config \in Config /\ config.venue # "live" /\ pending = {} /\ changes = 0
    BY DEF GuardInit, Init, Config, ValidVenues
  <1>5. /\ task = [c \in Clients |-> Idle]
        /\ Idle \in Tasks
        /\ Idle.venue = "sim" /\ Idle.from = "none"
    <2>1. task = [c \in Clients |-> Idle]
      BY DEF GuardInit, Init
    <2>2. Idle \in Tasks /\ Idle.venue = "sim" /\ Idle.from = "none"
      BY DEF Idle, Tasks, TaskPlaces, ValidVenues
    <2> QED BY <2>1, <2>2
  <1>6. VenueType
    BY <1>2, <1>4, <1>5 DEF VenueType
  <1> QED BY <1>3, <1>4, <1>5, <1>6 DEF ConsentInv, NoRealMoney

(* Settings requests and the surroundings. *)
LEMMA SettingsInv ==
  ASSUME ConsentInv, UpdateSettings \/ ToggleLive \/ Alpaca
  PROVE  ConsentInv'
  <1>1. changes' \in Nat
    <2>1. Change
      BY DEF UpdateSettings, ToggleLive, Alpaca
    <2> QED BY <2>1 DEF Change, ConsentInv, VenueType
  <1>2. UNCHANGED <<book, pending, task>>
    BY DEF UpdateSettings, ToggleLive, Alpaca, SetConfig
  <1>3. CASE UpdateSettings
    <2>1. PICK v \in ValidVenues \cup {"unset"}, p \in {"true", "false", "unset"} :
             /\ config' = [venue |-> IF v = "unset" THEN config.venue ELSE v,
                           paper |-> IF p # "unset" THEN p
                                     ELSE IF v = "unset" THEN config.paper
                                     ELSE IF v = "sim" THEN "true" ELSE "false"]
             /\ chosen' = chosen \cup ({v} \ {"unset"})
      BY <1>3 DEF UpdateSettings, SetConfig
    <2>2. config' \in Config
      BY <2>1 DEF ConsentInv, VenueType, Config
    <2>3. "live" \notin chosen' => config'.venue # "live" /\ "live" \notin chosen
      BY <2>1 DEF ConsentInv, NoRealMoney
    <2> QED BY <1>1, <1>2, <2>2, <2>3 DEF ConsentInv, VenueType, NoRealMoney
  <1>4. CASE ToggleLive
    <2>1. config' = [config EXCEPT !.paper = IF @ = "false" THEN "true" ELSE "false"]
          /\ chosen' = chosen
      BY <1>4 DEF ToggleLive, SetConfig
    <2>2. config' \in Config /\ config'.venue = config.venue
      BY <2>1 DEF ConsentInv, VenueType, Config
    <2> QED BY <1>1, <1>2, <2>1, <2>2 DEF ConsentInv, VenueType, NoRealMoney
  <1>5. CASE Alpaca
    BY <1>1, <1>2, <1>5 DEF Alpaca, ConsentInv, VenueType, NoRealMoney
  <1> QED BY <1>3, <1>4, <1>5

(* A step that moves one client's task on, to one that names no venue anew. *)
LEMMA TaskInv ==
  ASSUME ConsentInv, NEW c \in Clients, NEW t \in Tasks,
         task' = [task EXCEPT ![c] = t],
         t.venue \in {"sim", task[c].venue, GetExecutionVenue},
         t.from \in {"none", "sim", task[c].from, GetExecutionVenue},
         UNCHANGED <<config, chosen>>, changes' \in Nat,
         book' \in Holdings,
         "live" \notin chosen =>
             /\ \A p \in pending' : p.account \notin {"live", "exchange"}
             /\ \A s \in Symbols : book'["live"][s] = 0 /\ book'["exchange"][s] = 0
  PROVE  ConsentInv'
  <1>1. task' \in [Clients -> Tasks]
    BY DEF ConsentInv, VenueType
  <1>2. ASSUME "live" \notin chosen, NEW d \in Clients
        PROVE  task'[d].venue # "live" /\ task'[d].from # "live"
    <2>1. GetExecutionVenue # "live"
      BY <1>2, VenueIsValid DEF ConsentInv, VenueType, NoRealMoney
    <2> QED BY <1>2, <2>1 DEF ConsentInv, VenueType, NoRealMoney
  <1> QED BY <1>1, <1>2 DEF ConsentInv, VenueType, NoRealMoney

(* Orders: entering one, reading the venue, and what the venue does with it. *)
LEMMA RouteStaysPaper ==
  ASSUME NEW v \in ValidVenues, NEW s, v # "live"
  PROVE  Route(v, s) \in {"sim", v}
  BY DEF Route

LEMMA EnterInv ==
  ASSUME ConsentInv, NEW s \in Symbols, NEW side \in {"BUY", "SELL"}, Enter(s, side)
  PROVE  ConsentInv'
  <1> DEFINE t == [Idle EXCEPT !.pc = "route", !.symbol = s, !.side = side]
  <1>1. t \in Tasks /\ t.venue = "sim" /\ t.from = "none"
    BY DEF Idle, Tasks, TaskPlaces, ValidVenues
  <1>2. /\ task' = [task EXCEPT !["desk"] = t] /\ "desk" \in Clients
        /\ UNCHANGED <<config, chosen, book, pending, changes>>
    BY ClientNames DEF Enter
  <1> HIDE DEF t
  <1> QED BY <1>1, <1>2, TaskInv DEF ConsentInv, VenueType, NoRealMoney

LEMMA ReadVenueInv ==
  ASSUME ConsentInv, NEW c \in Clients, ReadVenue(c)
  PROVE  ConsentInv'
  <1> DEFINE t == [task[c] EXCEPT !.venue = GetExecutionVenue, !.pc = "place"]
  <1>1. task[c] \in Tasks /\ GetExecutionVenue \in ValidVenues
    BY VenueIsValid DEF ConsentInv, VenueType
  <1>2. t \in Tasks /\ t.venue = GetExecutionVenue /\ t.from = task[c].from
    BY <1>1 DEF Tasks, TaskPlaces
  <1>3. /\ task' = [task EXCEPT ![c] = t]
        /\ UNCHANGED <<config, chosen, book, pending, changes>>
    BY DEF ReadVenue, ConsentInv, VenueType
  <1> HIDE DEF t
  <1> QED BY <1>2, <1>3, TaskInv DEF ConsentInv, VenueType, NoRealMoney

LEMMA DoneTask ==
  ASSUME VenueType, NEW c \in Clients, Done(c)
  PROVE  \E t \in Tasks : /\ task' = [task EXCEPT ![c] = t]
                          /\ t.venue \in {"sim", task[c].venue}
                          /\ t.from \in {"none", task[c].from}
  <1>1. task[c] \in Tasks
    BY DEF VenueType
  <1>2. CASE task[c].todo = {}
    <2>1. Idle \in Tasks /\ Idle.venue = "sim" /\ Idle.from = "none"
      BY DEF Idle, Tasks, TaskPlaces, ValidVenues
    <2>2. task' = [task EXCEPT ![c] = Idle]
      BY <1>2 DEF Done, VenueType
    <2> QED BY <2>1, <2>2
  <1>3. CASE task[c].todo # {}
    <2> DEFINE t == [task[c] EXCEPT !.pc = "exit"]
    <2>1. t \in Tasks /\ t.venue = task[c].venue /\ t.from = task[c].from
      BY <1>1 DEF Tasks, TaskPlaces
    <2>2. task' = [task EXCEPT ![c] = t]
      BY <1>3 DEF Done, VenueType
    <2> HIDE DEF t
    <2> QED BY <2>1, <2>2
  <1> QED BY <1>2, <1>3

LEMMA FilledSign == ASSUME NEW a, NEW s, NEW side PROVE Filled(a, s, side) \in {-1, 0, 1}
  BY DEF Filled

LEMMA PlaceInv ==
  ASSUME ConsentInv, NEW c \in Clients, Place(c)
  PROVE  ConsentInv'
  <1> DEFINE v == task[c].venue
             sym == task[c].symbol
             a == Route(v, sym)
  <1>1. v \in ValidVenues /\ a \in Accounts
    BY DEF ConsentInv, VenueType, Tasks, Route, Accounts, ValidVenues
  <1>2. "live" \notin chosen => a \notin {"live", "exchange"}
    BY <1>1, RouteStaysPaper DEF ConsentInv, NoRealMoney, ValidVenues
  <1>3. Done(c) /\ UNCHANGED <<config, chosen, changes>>
    BY DEF Place, PlaceUnavailable, PlaceFilled, PlacePending, PlaceRejected
  <1>4. \/ UNCHANGED book
        \/ book' = [book EXCEPT ![a][sym] = Filled(a, sym, task[c].side)]
    BY DEF Place, PlaceUnavailable, PlaceFilled, PlacePending, PlaceRejected
  <1>5. \A p \in pending' \ pending : p.account = a
    BY DEF Place, PlaceUnavailable, PlaceFilled, PlacePending, PlaceRejected
  <1> HIDE DEF v, sym, a
  <1>6. book \in Holdings
    BY DEF ConsentInv, VenueType
  <1>7. book' \in Holdings /\ \A b \in Accounts : b # a => book'[b] = book[b]
    <2>1. Filled(a, sym, task[c].side) \in {-1, 0, 1}
      BY FilledSign
    <2> QED BY <1>1, <1>4, <1>6, <2>1 DEF Holdings
  <1>8. "live" \notin chosen =>
             /\ \A p \in pending' : p.account \notin {"live", "exchange"}
             /\ \A s \in Symbols : book'["live"][s] = 0 /\ book'["exchange"][s] = 0
    BY <1>2, <1>5, <1>7 DEF ConsentInv, NoRealMoney, Accounts, ValidVenues
  <1>9. PICK t \in Tasks : /\ task' = [task EXCEPT ![c] = t]
                           /\ t.venue \in {"sim", task[c].venue}
                           /\ t.from \in {"none", task[c].from}
    BY <1>3, DoneTask DEF ConsentInv
  <1> QED BY <1>3, <1>7, <1>8, <1>9, TaskInv DEF ConsentInv, VenueType

(* An accepted order is filled in the account that accepted it. *)
LEMMA AlpacaFillsInv ==
  ASSUME ConsentInv, NEW s \in Symbols, AlpacaFills(s)
  PROVE  ConsentInv'
  <1>1. PICK p \in pending :
           /\ pending' = pending \ {p}
           /\ book' = [book EXCEPT ![p.account][p.symbol] =
                           Filled(p.account, p.symbol, p.side)]
    BY DEF AlpacaFills
  <1>2. Filled(p.account, p.symbol, p.side) \in {-1, 0, 1} /\ book \in Holdings
    BY FilledSign DEF ConsentInv, VenueType
  <1>3. book' \in Holdings /\ \A b \in Accounts : b # p.account => book'[b] = book[b]
    BY <1>1, <1>2 DEF Holdings
  <1>4. UNCHANGED <<config, chosen, task, changes>>
    BY DEF AlpacaFills
  <1>5. VenueType'
    BY <1>3, <1>4 DEF ConsentInv, VenueType
  <1>6. ASSUME "live" \notin chosen' PROVE NoRealMoney'
    <2>1. NoRealMoney /\ p.account \notin {"live", "exchange"}
      BY <1>4, <1>6 DEF ConsentInv, NoRealMoney
    <2>2. \A s1 \in Symbols : book'["live"][s1] = 0
      BY <1>3, <2>1 DEF NoRealMoney, Accounts, ValidVenues
    <2>3. \A s1 \in Symbols : book'["exchange"][s1] = 0
      BY <1>1, <1>3, <2>1 DEF NoRealMoney, Accounts, ValidVenues
    <2> QED BY <1>1, <1>4, <2>1, <2>2, <2>3 DEF NoRealMoney
  <1> QED BY <1>5, <1>6 DEF ConsentInv

(* An order that is dropped, and a sale in the sim, touch no real account. *)
LEMMA LeavesInv ==
  ASSUME ConsentInv,
         \/ \E s \in Symbols : AlpacaDrops(s)
         \/ \E s \in Symbols, p \in Sales : PaperSale(s, p)
  PROVE  ConsentInv'
  <1>1. /\ UNCHANGED <<config, chosen, task>> /\ pending' \subseteq pending
        /\ changes' \in Nat
        /\ book' = book \/ \E s \in Symbols : book' = [book EXCEPT !["sim"][s] = 0]
    BY DEF AlpacaDrops, PaperSale, Change, ConsentInv, VenueType
  <1>2. book \in Holdings
    BY DEF ConsentInv, VenueType
  <1>3. book' \in Holdings /\ \A b \in Accounts \ {"sim"} : book'[b] = book[b]
    BY <1>1, <1>2 DEF Holdings
  <1>4. NoRealMoney => NoRealMoney'
    BY <1>1, <1>3 DEF NoRealMoney, Accounts, ValidVenues
  <1> QED BY <1>1, <1>3, <1>4 DEF ConsentInv, VenueType

(* The kill switch: the endpoint, a stop, the sweep, its dispatch and exits. *)
LEMMA SweepInv ==
  ASSUME ConsentInv,
         \/ Kill \/ FlattenSim \/ Reset \/ KillSweep \/ Dispatch \/ Flatten
         \/ \E s \in Symbols : StopHit(s)
         \/ \E s \in Symbols, ok \in BOOLEAN : Exit(s, ok)
  PROVE  ConsentInv'
  <1> DEFINE m == task["monitor"]
             V == GetExecutionVenue
  <1>1. m \in Tasks /\ task["operator"] \in Tasks /\ "monitor" \in Clients
        /\ "operator" \in Clients /\ V \in ValidVenues /\ book \in Holdings
        /\ changes \in Nat
    BY ClientNames, VenueIsValid DEF ConsentInv, VenueType
  <1>2. Idle \in Tasks /\ Idle.venue = "sim" /\ Idle.from = "none"
    BY DEF Idle, Tasks, TaskPlaces, ValidVenues
  <1>3. UNCHANGED <<config, chosen, pending>> /\ changes' \in Nat
    <2>1. Change \/ UNCHANGED changes
      BY DEF Kill, FlattenSim, Reset, KillSweep, Dispatch, Flatten, StopHit, Exit
    <2>2. UNCHANGED <<config, chosen, pending>>
      BY DEF Kill, FlattenSim, Reset, KillSweep, Dispatch, Flatten, StopHit, Exit
    <2>3. changes' \in Nat
      BY <1>1, <2>1 DEF Change
    <2> QED BY <2>2, <2>3
  <1>4. /\ book' \in Holdings
        /\ \A a \in Accounts : a # "sim" => book'[a] = book[a]
    <2>1. UNCHANGED book \/ book' = [book EXCEPT !["sim"] = [s \in Symbols |-> 0]]
      BY DEF Kill, FlattenSim, Reset, KillSweep, Dispatch, Flatten, StopHit, Exit
    <2> QED BY <1>1, <2>1 DEF Holdings
  <1>5. "live" \notin chosen =>
             /\ \A p \in pending' : p.account \notin {"live", "exchange"}
             /\ \A s \in Symbols : book'["live"][s] = 0 /\ book'["exchange"][s] = 0
    BY <1>3, <1>4 DEF ConsentInv, NoRealMoney, Accounts, ValidVenues
  <1>6. ASSUME NEW c \in Clients, NEW t \in Tasks, task' = [task EXCEPT ![c] = t],
               t.venue \in {"sim", task[c].venue}, t.from \in {"none", "sim", task[c].from, V}
        PROVE  ConsentInv'
    BY <1>3, <1>4, <1>5, <1>6, TaskInv
  <1>7. CASE Kill
    <2> DEFINE t == [task["operator"] EXCEPT !.pc = "flattenSim"]
    <2>1. t \in Tasks /\ t.venue = task["operator"].venue /\ t.from = task["operator"].from
      BY <1>1 DEF Tasks, TaskPlaces
    <2>2. task' = [task EXCEPT !["operator"] = t]
      BY <1>7 DEF Kill, ConsentInv, VenueType
    <2> HIDE DEF t
    <2> QED BY <1>1, <1>6, <2>1, <2>2
  <1>8. CASE FlattenSim
    BY <1>1, <1>2, <1>6, <1>8 DEF FlattenSim
  <1>9. CASE Reset
    BY <1>3, <1>4, <1>5, <1>9 DEF Reset, ConsentInv, VenueType, NoRealMoney
  <1>10. CASE KillSweep
    <2> DEFINE t == [Idle EXCEPT !.pc = "dispatch", !.from = V, !.todo = GetPositions(V)]
    <2>1. GetPositions(V) \in SUBSET Symbols
      BY DEF GetPositions, Held
    <2>2. t \in Tasks /\ t.venue = "sim" /\ t.from = V
      BY <1>1, <2>1 DEF Idle, Tasks, TaskPlaces, ValidVenues
    <2>3. task' = [task EXCEPT !["monitor"] = t]
      BY <1>10 DEF KillSweep
    <2> HIDE DEF t
    <2> QED BY <1>1, <1>6, <2>2, <2>3
  <1>11. CASE Dispatch
    <2>1. CASE V = "sim"
      <3> DEFINE t == [m EXCEPT !.pc = "exit"]
      <3>1. t \in Tasks /\ t.venue = m.venue /\ t.from = m.from
        BY <1>1 DEF Tasks, TaskPlaces
      <3>2. task' = [task EXCEPT !["monitor"] = t]
        BY <1>11, <2>1 DEF Dispatch, ConsentInv, VenueType
      <3> HIDE DEF t
      <3> QED BY <1>1, <1>6, <3>1, <3>2
    <2>2. CASE V # "sim"
      <3> DEFINE t == [Idle EXCEPT !.pc = "flatten"]
      <3>1. t \in Tasks /\ t.venue = "sim" /\ t.from = "none"
        BY DEF Idle, Tasks, TaskPlaces, ValidVenues
      <3>2. task' = [task EXCEPT !["monitor"] = t]
        BY <1>11, <2>2 DEF Dispatch
      <3> HIDE DEF t
      <3> QED BY <1>1, <1>6, <3>1, <3>2
    <2> QED BY <2>1, <2>2
  <1>12. CASE Flatten
    <2> DEFINE t == [Idle EXCEPT !.pc = "close", !.from = V, !.todo = GetPositions(V)]
    <2>1. GetPositions(V) \in SUBSET Symbols
      BY DEF GetPositions, Held
    <2>2. t \in Tasks /\ t.venue = "sim" /\ t.from = V
      BY <1>1, <2>1 DEF Idle, Tasks, TaskPlaces, ValidVenues
    <2>3. task' = [task EXCEPT !["monitor"] = Idle] \/ task' = [task EXCEPT !["monitor"] = t]
      BY <1>12 DEF Flatten
    <2> HIDE DEF t
    <2> QED BY <1>1, <1>2, <1>6, <2>2, <2>3
  <1>13. ASSUME NEW s \in Symbols, StopHit(s) PROVE ConsentInv'
    <2> DEFINE t == [Idle EXCEPT !.pc = "route", !.symbol = s, !.side = "SELL", !.from = "sim"]
    <2>1. t \in Tasks /\ t.venue = "sim" /\ t.from = "sim"
      BY DEF Idle, Tasks, TaskPlaces, ValidVenues
    <2>2. task' = [task EXCEPT !["monitor"] = t]
      BY <1>13 DEF StopHit
    <2> HIDE DEF t
    <2> QED BY <1>1, <1>6, <2>1, <2>2
  <1>14. ASSUME NEW s \in Symbols, NEW ok \in BOOLEAN, Exit(s, ok) PROVE ConsentInv'
    <2> DEFINE t1 == [m EXCEPT !.pc = "route", !.todo = @ \ {s}, !.symbol = s, !.side = "SELL"]
               t2 == [m EXCEPT !.todo = @ \ {s}]
    <2>1. t1 \in Tasks /\ t1.venue = m.venue /\ t1.from = m.from
      BY <1>1 DEF Tasks, TaskPlaces
    <2>2. t2 \in Tasks /\ t2.venue = m.venue /\ t2.from = m.from
      BY <1>1 DEF Tasks, TaskPlaces
    <2>3. \/ task' = [task EXCEPT !["monitor"] = t1]
          \/ task' = [task EXCEPT !["monitor"] = t2]
          \/ task' = [task EXCEPT !["monitor"] = Idle]
      BY <1>14 DEF Exit
    <2> HIDE DEF t1, t2
    <2> QED BY <1>1, <1>2, <1>6, <2>1, <2>2, <2>3
  <1> QED BY <1>7, <1>8, <1>9, <1>10, <1>11, <1>12, <1>13, <1>14

(* Closing at the venue: what stands there already is all that is closed. *)
LEMMA CloseInv ==
  ASSUME ConsentInv, NEW s \in Symbols,
         CloseTimesOut(s) \/ \E ok \in BOOLEAN : ClosePosition(s, ok)
  PROVE  ConsentInv'
  <1> DEFINE m == task["monitor"]
             t == [m EXCEPT !.todo = @ \ {s}]
  <1>1. m \in Tasks /\ "monitor" \in Clients /\ book \in Holdings /\ changes \in Nat
    BY ClientNames DEF ConsentInv, VenueType
  <1>2. Idle \in Tasks /\ Idle.venue = "sim" /\ Idle.from = "none"
    BY DEF Idle, Tasks, TaskPlaces, ValidVenues
  <1>3. t \in Tasks /\ t.venue = m.venue /\ t.from = m.from
    BY <1>1 DEF Tasks, TaskPlaces
  <1>4. UNCHANGED <<config, chosen, changes>>
    BY DEF CloseTimesOut, ClosePosition
  <1>5. \/ task' = [task EXCEPT !["monitor"] = Idle]
        \/ task' = [task EXCEPT !["monitor"] = t]
    BY DEF CloseTimesOut, ClosePosition
  <1> HIDE DEF t
  <1>6. \/ UNCHANGED book
        \/ book' = [book EXCEPT ![m.from][s] = 0]
    BY DEF CloseTimesOut, ClosePosition
  <1>7. /\ book' \in Holdings
        /\ \A a \in Accounts, r \in Symbols : book'[a][r] \in {0, book[a][r]}
    BY <1>1, <1>6 DEF Holdings
  <1>8. \A p \in pending' \ pending : p.account = m.from
    BY DEF CloseTimesOut, ClosePosition, Closing
  <1>9. "live" \notin chosen =>
             /\ \A p \in pending' : p.account \notin {"live", "exchange"}
             /\ \A r \in Symbols : book'["live"][r] = 0 /\ book'["exchange"][r] = 0
    <2>1. m.from # "exchange"
      BY <1>1 DEF Tasks, ValidVenues
    <2> QED BY <1>1, <1>7, <1>8, <2>1 DEF ConsentInv, NoRealMoney, Accounts, ValidVenues
  <1> QED BY <1>1, <1>2, <1>3, <1>4, <1>5, <1>7, <1>9, TaskInv

(* The risk monitor and the constructor point no order anywhere. *)
LEMMA ElsewhereInv ==
  ASSUME ConsentInv,
         \/ \E a \in ValidVenues, w \in Worths : MarketMove(a, w)
         \/ Midnight \/ Blind \/ Enforce \/ UNCHANGED venueVars
  PROVE  ConsentInv'
  <1>1. UNCHANGED <<config, chosen, book, pending, task>> /\ changes' \in Nat
    BY DEF MarketMove, Midnight, Blind, Enforce, venueVars, Change, ConsentInv, VenueType
  <1> QED BY <1>1 DEF ConsentInv, VenueType, NoRealMoney

LEMMA NextConsentInv == ASSUME ConsentInv, [GuardNext]_guardVars PROVE ConsentInv'
  <1>1. CASE UNCHANGED guardVars
    BY <1>1, ElsewhereInv DEF guardVars
  <1>2. CASE \/ \E a \in ValidVenues, w \in Worths : MarketMove(a, w) /\ ByMonitor
             \/ Midnight \/ Blind \/ Enforce
    BY <1>2, ElsewhereInv
  <1>3. CASE \/ BeginSweep \/ StampDay \/ ResetBroker \/ ReadLabel \/ ReadPositions
             \/ ReadWorth \/ ReadPnl \/ Publish \/ Crash
    <2>1. UNCHANGED venueVars
      BY <1>3 DEF BeginSweep, StampDay, ResetBroker, ReadLabel, ReadPositions, ReadWorth,
                  ReadPnl, Publish, Crash, Keep
    <2> QED BY <2>1, ElsewhereInv
  <1>4. CASE \/ Tick \/ SnapshotVenue \/ SnapshotPositions \/ SnapshotWorth \/ SnapshotPnl
             \/ SnapshotStore \/ Analyze
             \/ \E g \in Signals, m \in Modes, b \in BOOLEAN : BuildDecision(g, m, b)
    <2>1. UNCHANGED venueVars
      BY <1>4 DEF Tick, SnapshotVenue, SnapshotPositions, SnapshotWorth, SnapshotPnl, Reading,
                  SnapshotStore, Analyze, BuildDecision
    <2> QED BY <2>1, ElsewhereInv
  <1>5. CASE \E c \in Clients : PlaceUnavailable(c) \/ PlaceFilled(c) \/ PlacePending(c)
                              \/ PlaceRejected(c)
    BY <1>5, PlaceInv DEF Place
  <1>6. CASE \E s \in Symbols : CloseTimesOut(s) \/ \E ok \in BOOLEAN : ClosePosition(s, ok)
    BY <1>6, CloseInv
  <1>7. CASE \/ Kill \/ FlattenSim \/ Reset \/ KillSweep \/ Dispatch \/ Flatten
             \/ \E s \in Symbols : StopHit(s)
             \/ \E s \in Symbols, ok \in BOOLEAN : Exit(s, ok)
    BY <1>7, SweepInv
  <1>8. CASE \/ UpdateSettings \/ ToggleLive \/ Alpaca
             \/ \E s \in Symbols : AlpacaFills(s)
             \/ \E s \in Symbols, side \in {"BUY", "SELL"} : Enter(s, side)
             \/ \E c \in Clients : ReadVenue(c)
    BY <1>8, SettingsInv, AlpacaFillsInv, EnterInv, ReadVenueInv
  <1>9. CASE \/ \E s \in Symbols : AlpacaDrops(s)
             \/ \E s \in Symbols, p \in Sales : PaperSale(s, p)
    BY <1>9, LeavesInv
  <1> QED BY <1>1, <1>2, <1>3, <1>4, <1>5, <1>6, <1>7, <1>8, <1>9 DEF GuardNext

(* Whatever settings requests, toggles, orders, sweeps and late fills follow each
   other, real money is touched only after a request named the venue "live": the
   legacy paper_trading flag never leads there (system_config.py's
   get_execution_venue), for any symbols and any number of orders. *)
THEOREM ConsentBeforeRealMoney == Spec => []LiveNeedsConsent
  <1>1. ConsentInv => LiveNeedsConsent
    BY DEF ConsentInv, NoRealMoney, LiveNeedsConsent, Held
  <1> QED BY <1>1, InitConsentInv, NextConsentInv, PTL DEF Spec
(* ------------------------------ the rollover ---------------------------- *)
Places == {"begin", "asleep", "stamp", "reset", "venue", "positions", "worth", "pnl",
           "publish", "enforce"}
Settled == Places \ {"begin", "asleep", "stamp", "reset"}

(* A day is reset only after its marker was set, by the sweep that set it; what
   lies behind the marker is not touched again. *)
DayInv ==
    /\ day \in Days
    /\ resetDay \in 0..day
    /\ resets \in [Days -> {0, 1}]
    /\ crashes \in Nat
    /\ rm.pc \in Places /\ rm.today \in 1..day
    /\ {"pc", "today"} \subseteq DOMAIN rm
    /\ \A d \in Days : d > resetDay => resets[d] = 0
    /\ rm.pc = "stamp" => resetDay < rm.today
    /\ rm.pc = "reset" => rm.today = resetDay /\ resets[rm.today] = 0
    /\ rm.pc \in Settled => rm.today = resetDay
    /\ crashes = 0 /\ rm.pc # "reset" /\ resetDay > 0 => resets[resetDay] = 1

LEMMA InitDayInv == ASSUME RiskInit PROVE DayInv
  <1>1. /\ day = 1 /\ resetDay = 0 /\ crashes = 0 /\ rm.pc = "begin" /\ rm.today = 1
        /\ {"pc", "today"} \subseteq DOMAIN rm
        /\ resets = [d \in Days |-> 0]
    BY DEF RiskInit, NoSweep
  <1> QED BY <1>1, RiskAssumption DEF DayInv, Days, Places, Settled

(* A sweep that goes on, or gives up, without touching the markers. *)
LEMMA GoOnInv ==
  ASSUME DayInv, rm' = rm \/ \E pc \in Settled \cup {"begin", "asleep"} :
                     /\ rm'.pc = pc /\ rm'.today = rm.today
                     /\ {"pc", "today"} \subseteq DOMAIN rm',
         rm' # rm => rm.pc \in Settled,
         UNCHANGED <<resetDay, resets, crashes>>, day' \in Days, day <= day'
  PROVE  DayInv'
  <1>1. /\ rm'.pc \in Places /\ rm'.today = rm.today /\ rm.today \in 1..day'
        /\ {"pc", "today"} \subseteq DOMAIN rm'
        /\ rm'.pc = rm.pc \/ (rm.pc \in Settled /\ rm'.pc \notin {"stamp", "reset"})
    BY RiskAssumption DEF DayInv, Settled, Places, Days
  <1>2. resetDay \in 0..day'
    BY RiskAssumption DEF DayInv, Days
  <1> QED BY <1>1, <1>2 DEF DayInv, Settled
LEMMA RolloverInv ==
  ASSUME DayInv, BeginSweep \/ StampDay \/ ResetBroker \/ Crash
  PROVE  DayInv'
  <1> USE RiskAssumption DEF DayInv
  <1>1. CASE BeginSweep
    <2>1. /\ rm'.pc = (IF resetDay = day THEN "venue" ELSE "stamp") /\ rm'.today = day
          /\ {"pc", "today"} \subseteq DOMAIN rm'
          /\ rm.pc \in {"begin", "asleep"}
          /\ UNCHANGED <<day, resetDay, resets, crashes>>
      BY <1>1 DEF BeginSweep, NoSweep, Keep, money
    <2>2. resetDay \in Int /\ day \in 1..MaxDay
      BY DEF Days
    <2> QED BY <2>1, <2>2 DEF Places, Settled, Days
  <1>2. CASE StampDay
    <2>1. /\ rm.pc = "stamp" /\ rm'.pc = "reset" /\ rm'.today = rm.today
          /\ {"pc", "today"} \subseteq DOMAIN rm'
          /\ resetDay' = rm.today
          /\ UNCHANGED <<day, resets, crashes>>
      BY <1>2 DEF StampDay, At, Keep, money
    <2>2. rm.today \in Days /\ rm.today > resetDay /\ resets[rm.today] = 0
      BY <2>1 DEF Days
    <2> QED BY <2>1, <2>2 DEF Places, Settled, Days
  <1>3. CASE ResetBroker
    <2>1. /\ rm.pc = "reset" /\ rm'.pc = "venue" /\ rm'.today = rm.today
          /\ {"pc", "today"} \subseteq DOMAIN rm'
          /\ resets' = [resets EXCEPT ![rm.today] = @ + 1]
          /\ UNCHANGED <<day, resetDay, crashes>>
      BY <1>3 DEF ResetBroker, At
    <2>2. rm.today \in Days /\ rm.today = resetDay /\ resets[rm.today] = 0
      BY <2>1 DEF Days
    <2>3. resets' = [resets EXCEPT ![rm.today] = 1]
      BY <2>1, <2>2
    <2>4. resets' \in [Days -> {0, 1}] /\ resets'[resetDay] = 1
          /\ \A d \in Days : d # resetDay => resets'[d] = resets[d]
      BY <2>2, <2>3
    <2>5. \A d \in Days : d > resetDay' => resets'[d] = 0
      BY <2>1, <2>4 DEF Days
    <2> QED BY <2>1, <2>2, <2>4, <2>5 DEF Places, Settled
  <1>4. CASE Crash
    <2>1. /\ rm'.pc = "begin" /\ rm'.today = 1 /\ {"pc", "today"} \subseteq DOMAIN rm'
          /\ crashes' = crashes + 1
          /\ UNCHANGED <<day, resetDay, resets>>
      BY <1>4 DEF Crash, NoSweep, money
    <2>2. crashes' # 0 /\ crashes' \in Nat /\ day \in 1..MaxDay
      BY <2>1 DEF Days
    <2> QED BY <2>1, <2>2 DEF Places, Settled
  <1> QED BY <1>1, <1>2, <1>3, <1>4

LEMMA SweepsOnInv ==
  ASSUME DayInv,
         \/ ReadLabel \/ ReadPositions \/ Blind \/ ReadWorth \/ ReadPnl \/ Publish \/ Enforce
         \/ Midnight \/ \E a \in ValidVenues, w \in Worths : MarketMove(a, w)
         \/ \E s \in Symbols, p \in Sales : PaperSale(s, p)
         \/ UNCHANGED riskVars
  PROVE  DayInv'
  <1>1. CASE \/ UNCHANGED riskVars
             \/ \E a \in ValidVenues, w \in Worths : MarketMove(a, w)
             \/ \E s \in Symbols, p \in Sales : PaperSale(s, p)
    <2>1. UNCHANGED <<day, resetDay, resets, rm, crashes>>
      BY <1>1 DEF riskVars, MarketMove, PaperSale
    <2> QED BY <2>1 DEF DayInv
  <1>2. CASE Midnight
    <2>1. /\ day' = day + 1 /\ day < MaxDay
          /\ UNCHANGED <<resetDay, resets, rm, crashes>>
      BY <1>2 DEF Midnight
    <2>2. day' \in Days /\ day <= day'
      BY <2>1, RiskAssumption DEF DayInv, Days
    <2> QED BY <2>1, <2>2, GoOnInv
  <1>3. CASE ReadLabel \/ ReadPositions \/ Blind \/ ReadWorth \/ ReadPnl \/ Publish \/ Enforce
    <2>1. /\ rm.pc \in Settled
          /\ \E pc \in Settled \cup {"begin", "asleep"} :
                /\ rm'.pc = pc /\ rm'.today = rm.today
                /\ {"pc", "today"} \subseteq DOMAIN rm'
      BY <1>3 DEF ReadLabel, ReadPositions, Blind, ReadWorth, ReadPnl, Publish, Enforce, At,
                  DayInv, Settled, Places
    <2>2. UNCHANGED <<day, resetDay, resets, crashes>>
      BY <1>3 DEF ReadLabel, ReadPositions, Blind, ReadWorth, ReadPnl, Publish, Enforce, Keep,
                  money
    <2>3. day' \in Days /\ day <= day'
      BY <2>2, RiskAssumption DEF DayInv, Days
    <2> QED BY <2>1, <2>2, <2>3, GoOnInv
  <1> QED BY <1>1, <1>2, <1>3

LEMMA NextDayInv == ASSUME DayInv, [GuardNext]_guardVars PROVE DayInv'
  <1>1. CASE UNCHANGED guardVars
    BY <1>1, SweepsOnInv DEF guardVars
  <1>2. CASE BeginSweep \/ StampDay \/ ResetBroker \/ Crash
    BY <1>2, RolloverInv
  <1>3. CASE \/ ReadLabel \/ ReadPositions \/ Blind \/ ReadWorth \/ ReadPnl \/ Publish
             \/ Enforce \/ Midnight \/ \E a \in ValidVenues, w \in Worths : MarketMove(a, w)
             \/ \E s \in Symbols, p \in Sales : PaperSale(s, p)
    BY <1>3, SweepsOnInv
  <1>4. CASE \/ Tick \/ SnapshotVenue \/ SnapshotPositions \/ SnapshotWorth \/ SnapshotPnl
             \/ SnapshotStore \/ Analyze
             \/ \E g \in Signals, m \in Modes, b \in BOOLEAN : BuildDecision(g, m, b)
    <2>1. UNCHANGED riskVars
      BY <1>4 DEF Tick, SnapshotVenue, SnapshotPositions, SnapshotWorth, SnapshotPnl, Reading,
                  SnapshotStore, Analyze, BuildDecision
    <2> QED BY <2>1, SweepsOnInv
  <1>5. CASE ByVenues
    BY <1>5, SweepsOnInv DEF ByVenues
  <1> QED BY <1>1, <1>2, <1>3, <1>4, <1>5 DEF GuardNext

(* A day's P&L of the sim is set back at most once however the monitor is
   restarted, and by the sweep that moved the day's marker (risk_monitor.py's
   _reset_daily_pnl_if_new_day), for any number of days, sweeps and restarts. *)
THEOREM RolloverOncePerDay == Spec => []ResetOncePerDay
  <1>1. DayInv => ResetOncePerDay
    <2> SUFFICES ASSUME DayInv PROVE ResetOncePerDay
      OBVIOUS
    <2>1. \A d \in Days : resets[d] <= 1
      BY DEF DayInv
    <2>2. ASSUME crashes = 0, rm.pc \notin {"begin", "asleep", "stamp", "reset"}
          PROVE  resets[rm.today] = 1
      BY <2>2 DEF DayInv, Settled
    <2> QED BY <2>1, <2>2 DEF ResetOncePerDay
  <1>2. GuardInit => DayInv
    BY InitDayInv DEF GuardInit
  <1> QED BY <1>1, <1>2, NextDayInv, PTL DEF Spec
(* ------------------------------ the snapshot ---------------------------- *)
Working == {"positions", "worth", "pnl", "store"}
Fields == {"at", "seen", "from", "since", "until"}

(* A snapshot the cache holds for v. *)
Sound(s, v) ==
    /\ Fields \subseteq DOMAIN s
    /\ s.at \in Int
    /\ s.at >= 0 => s.seen \in Nat /\ s.at <= s.seen
    /\ s.at >= 0 /\ s.since = s.until => s.from = {v}

(* A snapshot being taken is of the venue that was asked for as long as nothing
   changed, and its positions are read no earlier than it says. *)
Taken(s) ==
    /\ Fields \subseteq DOMAIN s
    /\ s.at = sn.got /\ sn.got \in Nat /\ sn.got <= clock
    /\ s.since \in Nat /\ s.since <= changes
    /\ s.since = changes => GetExecutionVenue = sn.venue /\ s.from \subseteq {sn.venue}
    /\ sn.pc # "positions" => s.seen \in Nat /\ sn.got <= s.seen /\ s.from # {}

SnapshotInv ==
    /\ VenueType
    /\ clock \in Nat
    /\ DOMAIN cache = ValidVenues
    /\ \A v \in ValidVenues : Sound(cache[v], v)
    /\ {"pc", "venue", "got", "s", "decision"} \subseteq DOMAIN sn
    /\ sn.pc \in Working => sn.venue \in ValidVenues /\ Taken(sn.s)
    /\ SnapshotTrue

LEMMA InitSnapshotInv == ASSUME GuardInit PROVE SnapshotInv
  <1>1. VenueType
    BY InitConsentInv DEF ConsentInv
  <1>2. /\ clock = 0 /\ cache = [v \in ValidVenues |-> NoSnapshot]
        /\ sn.pc = "idle" /\ {"pc", "venue", "got", "s", "decision"} \subseteq DOMAIN sn
    BY DEF GuardInit, SizingInit, NotSizing
  <1>3. \A v \in ValidVenues : Sound(cache[v], v)
    BY <1>2 DEF Sound, Fields, NoSnapshot
  <1> QED BY <1>1, <1>2, <1>3 DEF SnapshotInv, Working, SnapshotTrue

(* The venue changes only with a change of the surroundings. *)
LEMMA VenueStands ==
  ASSUME ConsentInv, [GuardNext]_guardVars
  PROVE  /\ changes' \in Nat /\ changes <= changes'
         /\ changes' = changes => UNCHANGED config
  <1>1. changes \in Nat
    BY DEF ConsentInv, VenueType
  <1>2. CASE UNCHANGED changes /\ UNCHANGED config
    BY <1>1, <1>2
  <1>3. CASE Change
    BY <1>1, <1>3 DEF Change
  <1>4. CASE UNCHANGED venueVars
    BY <1>2, <1>4 DEF venueVars
  <1>5. CASE UpdateSettings \/ ToggleLive \/ Alpaca \/ Kill \/ Reset \/ Midnight
             \/ \E a \in ValidVenues, w \in Worths : MarketMove(a, w)
    BY <1>3, <1>5 DEF UpdateSettings, ToggleLive, Alpaca, Kill, Reset, Midnight, MarketMove
  <1>6. CASE \/ FlattenSim \/ KillSweep \/ Dispatch \/ Flatten \/ Blind \/ Enforce
             \/ \E s \in Symbols : AlpacaFills(s) \/ StopHit(s) \/ CloseTimesOut(s)
             \/ \E s \in Symbols, side \in {"BUY", "SELL"} : Enter(s, side)
             \/ \E c \in Clients : ReadVenue(c) \/ PlaceUnavailable(c) \/ PlaceFilled(c)
                                   \/ PlacePending(c) \/ PlaceRejected(c)
             \/ \E s \in Symbols, ok \in BOOLEAN : Exit(s, ok) \/ ClosePosition(s, ok)
    BY <1>2, <1>6 DEF FlattenSim, KillSweep, Dispatch, Flatten, Blind, Enforce, AlpacaFills,
            StopHit, CloseTimesOut, Enter, ReadVenue, PlaceUnavailable, PlaceFilled,
            PlacePending, PlaceRejected, Exit, ClosePosition
  <1>7. CASE \/ BeginSweep \/ StampDay \/ ResetBroker \/ ReadLabel \/ ReadPositions
             \/ ReadWorth \/ ReadPnl \/ Publish \/ Crash
    BY <1>4, <1>7 DEF BeginSweep, StampDay, ResetBroker, ReadLabel, ReadPositions, ReadWorth,
                  ReadPnl, Publish, Crash, Keep
  <1>8. CASE \/ Tick \/ SnapshotVenue \/ SnapshotPositions \/ SnapshotWorth \/ SnapshotPnl
             \/ SnapshotStore \/ Analyze
             \/ \E g \in Signals, m \in Modes, b \in BOOLEAN : BuildDecision(g, m, b)
    BY <1>4, <1>8 DEF Tick, SnapshotVenue, SnapshotPositions, SnapshotWorth, SnapshotPnl,
                  Reading, SnapshotStore, Analyze, BuildDecision
  <1>9. CASE UNCHANGED guardVars
    BY <1>4, <1>9 DEF guardVars
  <1>10. CASE \E s \in Symbols : AlpacaDrops(s)
    BY <1>2, <1>10 DEF AlpacaDrops
  <1>11. CASE \E s \in Symbols, p \in Sales : PaperSale(s, p)
    BY <1>3, <1>11 DEF PaperSale
  <1> QED BY <1>5, <1>6, <1>7, <1>8, <1>9, <1>10, <1>11 DEF GuardNext

(* A step that leaves the constructor at its place; only the clock may move. *)
LEMMA StandsInv ==
  ASSUME SnapshotInv, ConsentInv, ConsentInv', [GuardNext]_guardVars,
         UNCHANGED <<cache, sn>>, clock' \in Nat, clock <= clock'
  PROVE  SnapshotInv'
  <1>1. /\ changes' \in Nat /\ changes <= changes' /\ changes \in Nat
        /\ changes' = changes => UNCHANGED config
    BY VenueStands DEF ConsentInv, VenueType
  <1>2. changes' = changes => GetExecutionVenue' = GetExecutionVenue
    BY <1>1 DEF GetExecutionVenue
  <1>3. ASSUME Taken(sn.s) PROVE Taken(sn.s)'
    <2>1. sn.s.since \in Nat /\ sn.s.since <= changes /\ sn.got \in Nat /\ clock \in Nat
      BY <1>3 DEF Taken, SnapshotInv
    <2> QED BY <1>1, <1>2, <1>3, <2>1 DEF Taken, SnapshotInv
  <1>4. SnapshotTrue'
    BY DEF SnapshotInv, SnapshotTrue
  <1> QED BY <1>3, <1>4 DEF SnapshotInv, ConsentInv, Sound

LEMMA SnapshotVenueInv == ASSUME SnapshotInv, SnapshotVenue PROVE SnapshotInv'
  <1> USE ConstructorAssumption
  <1> DEFINE v == GetExecutionVenue
             hit == cache[v].at >= 0 /\ clock - cache[v].at < CacheTtl
             s == IF hit THEN cache[v] ELSE [NoSnapshot EXCEPT !.at = clock, !.since = changes]
  <1>1. /\ sn' = [sn EXCEPT !.venue = v, !.got = clock, !.s = s,
                            !.pc = IF hit THEN "decide" ELSE "positions"]
        /\ UNCHANGED <<clock, cache, venueVars>>
    BY DEF SnapshotVenue
  <1>2. v \in ValidVenues /\ clock \in Nat /\ changes \in Nat /\ Sound(cache[v], v)
    BY VenueIsValid DEF SnapshotInv, VenueType
  <1>3. UNCHANGED <<config, book, task, changes, GetExecutionVenue>> /\ VenueType'
    BY <1>1 DEF venueVars, GetExecutionVenue, SnapshotInv, VenueType
  <1>4. CASE hit
    <2>1. sn'.pc = "decide" /\ sn'.venue = v /\ sn'.got = clock /\ sn'.s = cache[v]
      BY <1>1, <1>4 DEF SnapshotInv
    <2>2. clock - cache[v].seen < CacheTtl
      BY <1>2, <1>4 DEF Sound
    <2>3. SnapshotTrue'
      BY <1>2, <1>4, <2>1, <2>2 DEF SnapshotTrue, Sound
    <2> QED BY <1>1, <1>3, <2>1, <2>3 DEF SnapshotInv, Working, Sound
  <1>5. CASE ~hit
    <2>1. /\ sn'.pc = "positions" /\ sn'.venue = v /\ sn'.got = clock
          /\ sn'.s = [NoSnapshot EXCEPT !.at = clock, !.since = changes]
      BY <1>1, <1>5 DEF SnapshotInv
    <2>2. /\ sn'.s.at = clock /\ sn'.s.since = changes /\ sn'.s.from = {}
          /\ Fields \subseteq DOMAIN sn'.s
      BY <2>1 DEF NoSnapshot, Fields
    <2>3. Taken(sn.s)'
      BY <1>1, <1>2, <1>3, <2>1, <2>2 DEF Taken
    <2> QED BY <1>1, <1>2, <1>3, <2>1, <2>3 DEF SnapshotInv, Working, SnapshotTrue, Sound
  <1> QED BY <1>4, <1>5

(* A reading adds the venue it read; the first one says when. *)
LEMMA ReadingInv ==
  ASSUME SnapshotInv, SnapshotPositions \/ SnapshotWorth \/ SnapshotPnl
  PROVE  SnapshotInv'
  <1> DEFINE v == GetExecutionVenue
  <1>1. /\ sn.pc \in Working /\ UNCHANGED <<clock, cache, venueVars>>
        /\ UNCHANGED <<config, book, task, changes, GetExecutionVenue>>
    BY DEF SnapshotPositions, SnapshotWorth, SnapshotPnl, Reading, Working, venueVars,
           GetExecutionVenue
  <1>2. VenueType' /\ Taken(sn.s)
    BY <1>1 DEF SnapshotInv, VenueType
  <1>3. CASE sn'.pc = "idle" /\ {"pc", "venue", "got", "s", "decision"} \subseteq DOMAIN sn'
    BY <1>1, <1>2, <1>3 DEF SnapshotInv, Working, SnapshotTrue, Sound
  <1>4. CASE /\ {"pc", "venue", "got", "s", "decision"} \subseteq DOMAIN sn'
             /\ sn'.venue = sn.venue /\ sn'.got = sn.got
             /\ sn'.pc \in {"worth", "pnl", "store"}
             /\ Fields \subseteq DOMAIN sn'.s
             /\ sn'.s.at = sn.s.at /\ sn'.s.since = sn.s.since
             /\ sn'.s.from = sn.s.from \cup {v}
             /\ \/ sn.pc = "positions" /\ sn'.s.seen = clock
                \/ sn.pc # "positions" /\ sn'.s.seen = sn.s.seen
    <2>1. Taken(sn.s)'
      BY <1>1, <1>2, <1>4 DEF Taken, SnapshotInv
    <2> QED BY <1>1, <1>2, <1>4, <2>1 DEF SnapshotInv, Working, SnapshotTrue, Sound
  <1>5. ASSUME NEW s, NEW next \in {"worth", "pnl", "store"},
               sn' = [sn EXCEPT !.pc = next, !.s = [s EXCEPT !.from = @ \cup {v}]],
               Fields \subseteq DOMAIN s, s.at = sn.s.at, s.since = sn.s.since,
               s.from = sn.s.from,
               \/ sn.pc = "positions" /\ s.seen = clock
               \/ sn.pc # "positions" /\ s.seen = sn.s.seen
        PROVE  SnapshotInv'
    <2>1. /\ {"pc", "venue", "got", "s", "decision"} \subseteq DOMAIN sn'
          /\ sn'.venue = sn.venue /\ sn'.got = sn.got /\ sn'.pc = next
          /\ sn'.s = [s EXCEPT !.from = @ \cup {v}]
      BY <1>5 DEF SnapshotInv
    <2>2. /\ Fields \subseteq DOMAIN sn'.s
          /\ sn'.s.at = s.at /\ sn'.s.since = s.since /\ sn'.s.seen = s.seen
          /\ sn'.s.from = s.from \cup {v}
      BY <1>5, <2>1 DEF Fields
    <2> QED BY <1>4, <1>5, <2>1, <2>2
  <1>6. CASE BrokerMissing(v)
    <2>1. sn' = [NotSizing EXCEPT !.decision = Rejected("broker_unavailable")]
      BY <1>6 DEF SnapshotPositions, SnapshotWorth, SnapshotPnl, Reading
    <2> QED BY <1>3, <2>1 DEF NotSizing
  <1>7. CASE ~BrokerMissing(v) /\ SnapshotPositions
    <2> DEFINE s == [sn.s EXCEPT !.positions = GetPositions(v), !.seen = clock]
    <2>1. sn' = [sn EXCEPT !.pc = "worth", !.s = [s EXCEPT !.from = @ \cup {v}]]
      BY <1>7 DEF SnapshotPositions, Reading
    <2>2. /\ Fields \subseteq DOMAIN s /\ s.at = sn.s.at /\ s.since = sn.s.since
          /\ s.from = sn.s.from /\ s.seen = clock /\ sn.pc = "positions"
      BY <1>2, <1>7 DEF Taken, Fields, SnapshotPositions, Reading
    <2> HIDE DEF s
    <2> QED BY <1>5, <2>1, <2>2
  <1>8. CASE ~BrokerMissing(v) /\ SnapshotWorth
    <2> DEFINE s == [sn.s EXCEPT !.worth = GetPortfolioValue(v)]
    <2>1. sn' = [sn EXCEPT !.pc = "pnl", !.s = [s EXCEPT !.from = @ \cup {v}]]
      BY <1>8 DEF SnapshotWorth, Reading
    <2>2. /\ Fields \subseteq DOMAIN s /\ s.at = sn.s.at /\ s.since = sn.s.since
          /\ s.from = sn.s.from /\ s.seen = sn.s.seen /\ sn.pc # "positions"
      BY <1>2, <1>8 DEF Taken, Fields, SnapshotWorth, Reading
    <2> HIDE DEF s
    <2> QED BY <1>5, <2>1, <2>2
  <1>9. CASE ~BrokerMissing(v) /\ SnapshotPnl
    <2> DEFINE s == [sn.s EXCEPT !.pnl = GetDailyPnl(v)]
    <2>1. sn' = [sn EXCEPT !.pc = "store", !.s = [s EXCEPT !.from = @ \cup {v}]]
      BY <1>9 DEF SnapshotPnl, Reading
    <2>2. /\ Fields \subseteq DOMAIN s /\ s.at = sn.s.at /\ s.since = sn.s.since
          /\ s.from = sn.s.from /\ s.seen = sn.s.seen /\ sn.pc # "positions"
      BY <1>2, <1>9 DEF Taken, Fields, SnapshotPnl, Reading
    <2> HIDE DEF s
    <2> QED BY <1>5, <2>1, <2>2
  <1> QED BY <1>6, <1>7, <1>8, <1>9

(* What is stored is of the venue it is stored under, if nothing changed. *)
LEMMA StoreInv == ASSUME SnapshotInv, SnapshotStore PROVE SnapshotInv'
  <1> USE ConstructorAssumption
  <1> DEFINE s == [sn.s EXCEPT !.until = changes]
  <1>1. /\ sn.pc = "store" /\ cache' = [cache EXCEPT ![sn.venue] = s]
        /\ sn' = [sn EXCEPT !.s = s, !.pc = "decide"]
        /\ UNCHANGED <<clock, config, book, task, changes>>
    BY DEF SnapshotStore, venueVars
  <1>2. Taken(sn.s) /\ sn.venue \in ValidVenues
    BY <1>1 DEF SnapshotInv, Working
  <1>3. /\ Fields \subseteq DOMAIN s /\ s.at = sn.got /\ s.seen = sn.s.seen
        /\ s.from = sn.s.from /\ s.since = sn.s.since /\ s.until = changes
    BY <1>2 DEF Taken, Fields
  <1> HIDE DEF s
  <1>4. s.since = s.until => s.from = {sn.venue}
    BY <1>1, <1>2, <1>3 DEF Taken
  <1>5. sn.got \in Nat /\ s.seen \in Nat /\ sn.got <= s.seen
    BY <1>1, <1>2, <1>3 DEF Taken
  <1>6. Sound(s, sn.venue)
    BY <1>3, <1>4, <1>5 DEF Sound
  <1>7. \A v \in ValidVenues : Sound(cache'[v], v)
    BY <1>1, <1>6 DEF SnapshotInv
  <1>8. /\ sn'.pc = "decide" /\ sn'.venue = sn.venue /\ sn'.got = sn.got /\ sn'.s = s
        /\ {"pc", "venue", "got", "s", "decision"} \subseteq DOMAIN sn'
    BY <1>1 DEF SnapshotInv
  <1>9. SnapshotTrue'
    BY <1>4, <1>5, <1>8 DEF SnapshotTrue
  <1>10. VenueType' /\ clock' \in Nat /\ DOMAIN cache' = ValidVenues
    BY <1>1 DEF SnapshotInv, VenueType
  <1> QED BY <1>7, <1>8, <1>9, <1>10 DEF SnapshotInv, Working, Sound

LEMMA NextSnapshotInv ==
  ASSUME SnapshotInv, ConsentInv, ConsentInv', [GuardNext]_guardVars
  PROVE  SnapshotInv'
  <1>1. CASE UNCHANGED sizingVars
    BY <1>1, StandsInv DEF sizingVars, SnapshotInv
  <1>2. CASE Tick
    BY <1>2, StandsInv DEF Tick, SnapshotInv
  <1>3. CASE Analyze \/ \E g \in Signals, m \in Modes, b \in BOOLEAN : BuildDecision(g, m, b)
    <2>1. /\ sn'.pc \in {"venue", "merge"}
          /\ {"pc", "venue", "got", "s", "decision"} \subseteq DOMAIN sn'
      BY <1>3 DEF Analyze, BuildDecision, NotSizing, SnapshotInv
    <2>2. UNCHANGED <<clock, cache>>
      BY <1>3 DEF Analyze, BuildDecision
    <2> QED BY <2>1, <2>2 DEF SnapshotInv, ConsentInv, Working, SnapshotTrue, Sound
  <1>4. CASE SnapshotVenue \/ SnapshotPositions \/ SnapshotWorth \/ SnapshotPnl \/ SnapshotStore
    BY <1>4, SnapshotVenueInv, ReadingInv, StoreInv
  <1> QED BY <1>1, <1>2, <1>3, <1>4 DEF GuardNext, ByVenues, ByMonitor, guardVars

(* The constructor never sizes on positions older than the cache's lifetime, and a
   snapshot taken while nothing changed is of the venue it is used for
   (portfolio_snapshot.py), for any lifetime and any number of cycles. *)
THEOREM SnapshotsAreTrue == Spec => []SnapshotTrue
  <1>1. GuardInit => ConsentInv /\ SnapshotInv
    BY InitConsentInv, InitSnapshotInv
  <1>2. ConsentInv /\ SnapshotInv /\ [GuardNext]_guardVars => (ConsentInv /\ SnapshotInv)'
    BY NextConsentInv, NextSnapshotInv
  <1>3. SnapshotInv => SnapshotTrue
    BY DEF SnapshotInv
  <1> QED BY <1>1, <1>2, <1>3, PTL DEF Spec

(* ------------------------------- the exits ------------------------------ *)
(* What an account holds is traded at that account by the venue of now. *)
Homed(a) == \A s \in Symbols : book[a][s] # 0 => Route(GetExecutionVenue, s) = a

(* A task acts on the venue of now: what it exits is held where it goes. *)
Bound(t) ==
    LET v == GetExecutionVenue
    IN /\ t.pc = "place" => t.venue = v
       /\ t.pc \in {"route", "place"} => t.from \in {"none", Route(v, t.symbol)}
       /\ t.pc \in {"route", "place"} /\ t.todo # {} => v = "sim" /\ t.from = "sim"
       /\ t.pc = "exit" => v = "sim" /\ t.from = "sim"
       /\ t.pc = "dispatch" => t.from = v
       /\ t.pc = "close" => t.from = v /\ v # "sim"

RouteInv ==
    settled =>
        /\ strays = {}
        /\ Homed("sim") /\ Homed(GetExecutionVenue)
        /\ \A p \in pending : Route(GetExecutionVenue, p.symbol) = p.account
        /\ \A c \in Clients : Bound(task[c])

(* A step that leaves the settings alone keeps the bond between what is held,
   what is ordered and where it goes, if all it adds is bound to the venue. *)
LEMMA RouteStep ==
  ASSUME RouteInv, UNCHANGED <<config, settled>>, settled => strays' = {},
         settled => \A c \in Clients : task'[c] = task[c] \/ Bound(task'[c]),
         settled => \A p \in pending' :
                        p \in pending \/ Route(GetExecutionVenue, p.symbol) = p.account,
         settled => \A a \in {"sim", GetExecutionVenue}, s \in Symbols :
                        book'[a][s] # 0 => \/ book[a][s] # 0
                                           \/ Route(GetExecutionVenue, s) = a
  PROVE  RouteInv'
  <1>1. GetExecutionVenue' = GetExecutionVenue
    BY DEF GetExecutionVenue
  <1> SUFFICES ASSUME settled PROVE RouteInv'
    BY DEF RouteInv
  <1>2. \A c \in Clients : Bound(task'[c])
    BY DEF RouteInv
  <1>3. \A c \in Clients : Bound(task[c])'
    BY <1>1, <1>2 DEF Bound
  <1>4. Homed("sim")' /\ Homed(GetExecutionVenue)'
    BY <1>1 DEF RouteInv, Homed
  <1> QED BY <1>1, <1>3, <1>4 DEF RouteInv

(* The venue changes only while nothing is held, ordered or under way, or the
   promise is void. *)
LEMMA SettingsRoute ==
  ASSUME VenueType, VenueType', RouteInv, UpdateSettings \/ ToggleLive
  PROVE  RouteInv'
  <1>1. PICK c : SetConfig(c)
    BY DEF UpdateSettings, ToggleLive
  <1>2. /\ config' = c
        /\ settled' = (settled /\ (VenueOf(c) # GetExecutionVenue => AllFlat))
        /\ UNCHANGED <<book, pending, task, strays>>
    BY <1>1 DEF SetConfig
  <1>3. GetExecutionVenue' = VenueOf(c)
    BY <1>2 DEF GetExecutionVenue, VenueOf
  <1>4. CASE VenueOf(c) = GetExecutionVenue
    BY <1>2, <1>3, <1>4 DEF RouteInv, Homed, Bound
  <1>5. CASE VenueOf(c) # GetExecutionVenue
    <2> SUFFICES ASSUME settled' PROVE RouteInv'
      BY DEF RouteInv
    <2>1. AllFlat /\ settled
      BY <1>2, <1>5
    <2>2. \A a \in Accounts, s \in Symbols : book'[a][s] = 0
      BY <1>2, <2>1 DEF AllFlat, Held
    <2>3. VenueOf(c) \in Accounts
      BY <1>2, <1>3 DEF Accounts, ValidVenues, VenueType, Config, VenueOf
    <2>4. Homed("sim")' /\ Homed(GetExecutionVenue)'
      BY <1>3, <2>2, <2>3 DEF Homed, Accounts, ValidVenues
    <2>5. \A d \in Clients : Bound(task[d])'
      BY <1>2, <2>1 DEF AllFlat, Bound
    <2>6. pending' = {} /\ strays' = {}
      BY <1>2, <2>1 DEF AllFlat, RouteInv
    <2> QED BY <2>4, <2>5, <2>6 DEF RouteInv
  <1> QED BY <1>4, <1>5

(* Orders: what the venue does with one stays where the venue sends it. *)
LEMMA OrderRoute ==
  ASSUME VenueType, RouteInv, NEW c \in Clients,
         \/ ReadVenue(c) \/ Place(c)
         \/ \E s \in Symbols, side \in {"BUY", "SELL"} : Enter(s, side)
  PROVE  RouteInv'
  <1> DEFINE V == GetExecutionVenue
             t == task[c]
  <1>1. t \in Tasks /\ task \in [Clients -> Tasks] /\ V \in ValidVenues /\ book \in Holdings
    BY VenueIsValid DEF VenueType
  <1>2. settled => Bound(t) /\ strays = {}
    BY DEF RouteInv
  <1>3. CASE ReadVenue(c)
    <2> DEFINE n == [t EXCEPT !.venue = V, !.pc = "place"]
    <2>1. /\ task' = [task EXCEPT ![c] = n] /\ t.pc = "route"
          /\ UNCHANGED <<config, settled, strays, pending, book>>
      BY <1>1, <1>3 DEF ReadVenue
    <2>2. n.pc = "place" /\ n.venue = V /\ n.from = t.from /\ n.symbol = t.symbol
          /\ n.todo = t.todo
      BY <1>1 DEF Tasks
    <2> HIDE DEF n
    <2>3. settled => Bound(n)
      BY <1>2, <2>1, <2>2 DEF Bound
    <2>4. \A d \in Clients : task'[d] = task[d] \/ task'[d] = n
      BY <1>1, <2>1
    <2> QED BY <1>2, <2>1, <2>3, <2>4, RouteStep
  <1>4. CASE Place(c)
    <2> DEFINE a == Route(t.venue, t.symbol)
    <2>1. /\ t.pc = "place" /\ Done(c) /\ UNCHANGED <<config, settled>>
          /\ strays' \in {strays, strays \cup Stray(t, a)}
          /\ \/ UNCHANGED book
             \/ book' = [book EXCEPT ![a][t.symbol] = Filled(a, t.symbol, t.side)]
          /\ \A p \in pending' : p \in pending \/ (p.account = a /\ p.symbol = t.symbol)
      BY <1>4 DEF Place, PlaceUnavailable, PlaceFilled, PlacePending, PlaceRejected
    <2>2. settled => t.venue = V /\ t.from \in {"none", a}
      BY <1>2, <2>1 DEF Bound
    <2>3. settled => strays' = {}
      BY <1>2, <2>1, <2>2 DEF Stray
    <2>4. settled => \A d \in Clients : task'[d] = task[d] \/ Bound(task'[d])
      <3>1. CASE t.todo = {}
        <4>1. \A d \in Clients : task'[d] = task[d] \/ task'[d] = Idle
          BY <1>1, <2>1, <3>1 DEF Done
        <4> QED BY <4>1 DEF Bound, Idle
      <3>2. CASE t.todo # {}
        <4> DEFINE n == [t EXCEPT !.pc = "exit"]
        <4>1. task' = [task EXCEPT ![c] = n]
          BY <1>1, <2>1, <3>2 DEF Done
        <4>2. n.pc = "exit" /\ n.from = t.from
          BY <1>1 DEF Tasks
        <4>3. settled => V = "sim" /\ t.from = "sim"
          BY <1>2, <2>1, <3>2 DEF Bound
        <4> HIDE DEF n
        <4>4. settled => Bound(n)
          BY <4>2, <4>3 DEF Bound
        <4>5. \A d \in Clients : task'[d] = task[d] \/ task'[d] = n
          BY <1>1, <4>1
        <4> QED BY <4>4, <4>5
      <3> QED BY <3>1, <3>2
    <2>5. \A b \in Accounts, s \in Symbols :
             book'[b][s] # 0 => book[b][s] # 0 \/ (b = a /\ s = t.symbol)
      BY <1>1, <2>1 DEF Holdings
    <2>6. {"sim", V} \subseteq Accounts
      BY <1>1 DEF Accounts, ValidVenues
    <2> HIDE DEF a
    <2>7. settled => a = Route(V, t.symbol)
      BY <2>2 DEF a
    <2> QED BY <2>1, <2>3, <2>4, <2>5, <2>6, <2>7, RouteStep
  <1>5. ASSUME NEW s \in Symbols, NEW side \in {"BUY", "SELL"}, Enter(s, side)
        PROVE  RouteInv'
    <2> DEFINE n == [Idle EXCEPT !.pc = "route", !.symbol = s, !.side = side]
    <2>1. /\ task' = [task EXCEPT !["desk"] = n]
          /\ UNCHANGED <<config, settled, strays, pending, book>>
      BY <1>5 DEF Enter
    <2>2. Bound(n)
      BY DEF Bound, Idle
    <2> HIDE DEF n
    <2>3. \A d \in Clients : task'[d] = task[d] \/ task'[d] = n
      BY <1>1, <2>1
    <2> QED BY <1>2, <2>1, <2>2, <2>3, RouteStep
  <1> QED BY <1>3, <1>4, <1>5

LEMMA FillRoute ==
  ASSUME VenueType, RouteInv, NEW s \in Symbols, AlpacaFills(s)
  PROVE  RouteInv'
  <1>1. PICK p \in pending :
           /\ pending' = pending \ {p}
           /\ book' = [book EXCEPT ![p.account][p.symbol] =
                           Filled(p.account, p.symbol, p.side)]
           /\ UNCHANGED <<config, settled, strays, task>>
    BY DEF AlpacaFills
  <1>2. settled => Route(GetExecutionVenue, p.symbol) = p.account /\ strays = {}
    BY DEF RouteInv
  <1>3. {"sim", GetExecutionVenue} \subseteq Accounts
    BY VenueIsValid DEF VenueType, Accounts, ValidVenues
  <1>4. \A b \in Accounts, r \in Symbols :
             book'[b][r] # 0 => book[b][r] # 0 \/ (b = p.account /\ r = p.symbol)
    BY <1>1 DEF VenueType, Holdings
  <1> QED BY <1>1, <1>2, <1>3, <1>4, RouteStep

(* What is dropped or sold is held and ordered no more. *)
LEMMA LeavesRoute ==
  ASSUME VenueType, RouteInv,
         \/ \E s \in Symbols : AlpacaDrops(s)
         \/ \E s \in Symbols, p \in Sales : PaperSale(s, p)
  PROVE  RouteInv'
  <1>1. /\ UNCHANGED <<config, settled, strays, task>> /\ pending' \subseteq pending
        /\ book' = book \/ \E s \in Symbols : book' = [book EXCEPT !["sim"][s] = 0]
    BY DEF AlpacaDrops, PaperSale
  <1>2. {"sim", GetExecutionVenue} \subseteq Accounts
    BY VenueIsValid DEF VenueType, Accounts, ValidVenues
  <1>3. \A b \in Accounts, r \in Symbols : book'[b][r] # 0 => book[b][r] # 0
    BY <1>1 DEF VenueType, Holdings
  <1>4. settled => strays = {}
    BY DEF RouteInv
  <1> QED BY <1>1, <1>2, <1>3, <1>4, RouteStep

(* The kill switch and the exits: each acts on the venue it read, which stands. *)
LEMMA SweepRoute ==
  ASSUME VenueType, RouteInv,
         \/ Kill \/ FlattenSim \/ KillSweep \/ Dispatch \/ Flatten
         \/ \E s \in Symbols : StopHit(s)
         \/ \E s \in Symbols, ok \in BOOLEAN : Exit(s, ok)
         \/ \E s \in Symbols : CloseTimesOut(s) \/ \E ok \in BOOLEAN : ClosePosition(s, ok)
  PROVE  RouteInv'
  <1> DEFINE V == GetExecutionVenue
             m == task["monitor"]
  <1>1. /\ m \in Tasks /\ task \in [Clients -> Tasks] /\ V \in ValidVenues
        /\ book \in Holdings /\ "monitor" \in Clients /\ "operator" \in Clients
    BY VenueIsValid, ClientNames DEF VenueType
  <1>2. settled => Bound(m) /\ strays = {} /\ Homed("sim") /\ Homed(V)
    BY <1>1 DEF RouteInv
  <1>3. {"sim", V} \subseteq Accounts
    BY <1>1 DEF Accounts, ValidVenues
  <1>4. Bound(Idle)
    BY DEF Bound, Idle
  <1>5. ASSUME NEW c \in Clients, NEW n, task' = [task EXCEPT ![c] = n],
               settled => Bound(n), UNCHANGED <<config, settled, strays>>,
               \A a \in Accounts, s \in Symbols : book'[a][s] # 0 => book[a][s] # 0,
               settled => \A p \in pending' : p \in pending \/ Route(V, p.symbol) = p.account
        PROVE  RouteInv'
    <2>1. \A d \in Clients : task'[d] = task[d] \/ task'[d] = n
      BY <1>1, <1>5
    <2> HIDE DEF V
    <2>2. \A a \in {"sim", V}, s \in Symbols : book'[a][s] # 0 => book[a][s] # 0
      BY <1>3, <1>5
    <2> QED BY <1>2, <1>5, <2>1, <2>2, RouteStep DEF V
  <1>6. CASE Kill
    <2> DEFINE n == [task["operator"] EXCEPT !.pc = "flattenSim"]
    <2>1. /\ task' = [task EXCEPT !["operator"] = n]
          /\ UNCHANGED <<config, settled, strays, pending, book>>
      BY <1>1, <1>6 DEF Kill
    <2>2. n.pc = "flattenSim"
      BY <1>1 DEF Tasks
    <2> HIDE DEF n
    <2>3. Bound(n)
      BY <2>2 DEF Bound
    <2> QED BY <1>1, <1>5, <2>1, <2>3
  <1>7. CASE FlattenSim
    <2>1. /\ task' = [task EXCEPT !["operator"] = Idle]
          /\ UNCHANGED <<config, settled, strays, pending>>
          /\ book' = [book EXCEPT !["sim"] = [s \in Symbols |-> 0]]
      BY <1>7 DEF FlattenSim
    <2>2. \A a \in Accounts, s \in Symbols : book'[a][s] # 0 => book[a][s] # 0
      BY <1>1, <2>1 DEF Holdings
    <2> QED BY <1>1, <1>4, <1>5, <2>1, <2>2
  <1>8. CASE KillSweep
    <2> DEFINE n == [Idle EXCEPT !.pc = "dispatch", !.from = V, !.todo = GetPositions(V)]
    <2>1. /\ task' = [task EXCEPT !["monitor"] = n]
          /\ UNCHANGED <<config, settled, strays, pending, book>>
      BY <1>8 DEF KillSweep
    <2>2. Bound(n)
      BY DEF Bound, Idle
    <2> HIDE DEF n
    <2> QED BY <1>1, <1>5, <2>1, <2>2
  <1>9. CASE Dispatch
    <2>1. m.pc = "dispatch" /\ UNCHANGED <<config, settled, strays, pending, book>>
      BY <1>9 DEF Dispatch
    <2>2. CASE V = "sim"
      <3> DEFINE n == [m EXCEPT !.pc = "exit"]
      <3>1. task' = [task EXCEPT !["monitor"] = n]
        BY <1>1, <1>9, <2>2 DEF Dispatch
      <3>2. n.pc = "exit" /\ n.from = m.from
        BY <1>1 DEF Tasks
      <3> HIDE DEF n
      <3>3. settled => Bound(n)
        BY <1>2, <2>1, <2>2, <3>2 DEF Bound
      <3> QED BY <1>1, <1>5, <2>1, <3>1, <3>3
    <2>3. CASE V # "sim"
      <3> DEFINE n == [Idle EXCEPT !.pc = "flatten"]
      <3>1. task' = [task EXCEPT !["monitor"] = n]
        BY <1>9, <2>3 DEF Dispatch
      <3>2. Bound(n)
        BY DEF Bound, Idle
      <3> HIDE DEF n
      <3> QED BY <1>1, <1>5, <2>1, <3>1, <3>2
    <2> QED BY <2>2, <2>3
  <1>10. CASE Flatten
    <2> DEFINE n == [Idle EXCEPT !.pc = "close", !.from = V, !.todo = GetPositions(V)]
    <2>1. /\ UNCHANGED <<config, settled, strays, pending>>
          /\ book' = IF V = "sim" THEN [book EXCEPT !["sim"] = [s \in Symbols |-> 0]] ELSE book
          /\ task' = [task EXCEPT !["monitor"] = Idle]
             \/ (V # "sim" /\ task' = [task EXCEPT !["monitor"] = n])
      BY <1>10 DEF Flatten
    <2>2. \A a \in Accounts, s \in Symbols : book'[a][s] # 0 => book[a][s] # 0
      BY <1>1, <2>1 DEF Holdings
    <2>3. V # "sim" => Bound(n)
      BY DEF Bound, Idle
    <2> HIDE DEF n
    <2> QED BY <1>1, <1>4, <1>5, <2>1, <2>2, <2>3
  <1>11. ASSUME NEW s \in Symbols, StopHit(s) PROVE RouteInv'
    <2> DEFINE n == [Idle EXCEPT !.pc = "route", !.symbol = s, !.side = "SELL", !.from = "sim"]
    <2>1. /\ task' = [task EXCEPT !["monitor"] = n] /\ book["sim"][s] # 0
          /\ UNCHANGED <<config, settled, strays, pending, book>>
      BY <1>11 DEF StopHit, Held
    <2>2. settled => Route(V, s) = "sim"
      BY <1>2, <2>1 DEF Homed
    <2>3. /\ n.pc = "route" /\ n.symbol = s /\ n.from = "sim" /\ n.todo = {}
      BY DEF Idle
    <2> HIDE DEF n
    <2>4. settled => Bound(n)
      BY <2>2, <2>3 DEF Bound
    <2> QED BY <1>1, <1>5, <2>1, <2>4
  <1>12. ASSUME NEW s \in Symbols, NEW ok \in BOOLEAN, Exit(s, ok) PROVE RouteInv'
    <2> DEFINE n1 == [m EXCEPT !.pc = "route", !.todo = @ \ {s}, !.symbol = s, !.side = "SELL"]
               n2 == [m EXCEPT !.todo = @ \ {s}]
    <2>1. /\ \/ task' = [task EXCEPT !["monitor"] = n1]
             \/ task' = [task EXCEPT !["monitor"] = n2]
             \/ task' = [task EXCEPT !["monitor"] = Idle]
          /\ m.pc = "exit" /\ UNCHANGED <<config, settled, strays, pending, book>>
      BY <1>12 DEF Exit
    <2>2. /\ n1.pc = "route" /\ n1.symbol = s /\ n1.from = m.from
          /\ n2.pc = m.pc /\ n2.from = m.from
      BY <1>1 DEF Tasks
    <2> HIDE DEF n1, n2
    <2>3. settled => V = "sim" /\ m.from = "sim"
      BY <1>2, <2>1 DEF Bound
    <2>4. settled => Bound(n1) /\ Bound(n2)
      BY <2>1, <2>2, <2>3 DEF Bound, Route
    <2> QED BY <1>1, <1>4, <1>5, <2>1, <2>4
  <1>13. ASSUME NEW s \in Symbols,
                CloseTimesOut(s) \/ \E ok \in BOOLEAN : ClosePosition(s, ok)
         PROVE  RouteInv'
    <2> DEFINE n == [m EXCEPT !.todo = @ \ {s}]
    <2>1. /\ \/ task' = [task EXCEPT !["monitor"] = n]
             \/ task' = [task EXCEPT !["monitor"] = Idle]
          /\ m.pc = "close" /\ UNCHANGED <<config, settled, strays>>
          /\ UNCHANGED book \/ book' = [book EXCEPT ![m.from][s] = 0]
          /\ \/ UNCHANGED pending
             \/ pending' = pending \cup {Closing(m.from, s)} /\ book[m.from][s] # 0
      BY <1>13 DEF CloseTimesOut, ClosePosition
    <2>2. n.pc = m.pc /\ n.from = m.from
      BY <1>1 DEF Tasks
    <2> HIDE DEF n
    <2>3. settled => m.from = V /\ V # "sim" /\ Bound(n)
      BY <1>2, <2>1, <2>2 DEF Bound
    <2>4. \A a \in Accounts, r \in Symbols : book'[a][r] # 0 => book[a][r] # 0
      BY <1>1, <2>1 DEF Holdings
    <2>5. settled => \A p \in pending' : p \in pending \/ Route(V, p.symbol) = p.account
      BY <1>2, <2>1, <2>3 DEF Homed, Closing
    <2> QED BY <1>1, <1>4, <1>5, <2>1, <2>3, <2>4, <2>5
  <1> QED BY <1>6, <1>7, <1>8, <1>9, <1>10, <1>11, <1>12, <1>13

LEMMA InitRouteInv == ASSUME GuardInit PROVE RouteInv
  <1>1. /\ GetExecutionVenue = "sim" /\ strays = {} /\ pending = {}
        /\ task = [c \in Clients |-> Idle]
    BY DEF GuardInit, Init, GetExecutionVenue, VenueOf
  <1>2. \A s : Route("sim", s) = "sim"
    BY DEF Route
  <1> QED BY <1>1, <1>2 DEF RouteInv, Homed, Bound, Idle

LEMMA NextRouteInv ==
  ASSUME VenueType, VenueType', RouteInv, [GuardNext]_guardVars
  PROVE  RouteInv'
  <1>0. ASSUME UNCHANGED <<config, settled, strays, pending, book, task>>
        PROVE  RouteInv'
    BY <1>0, RouteStep DEF RouteInv
  <1>1. CASE UNCHANGED venueVars
    BY <1>0, <1>1 DEF venueVars
  <1>2. CASE \/ \E a \in ValidVenues, w \in Worths : MarketMove(a, w)
             \/ Midnight \/ Blind \/ Enforce \/ Alpaca \/ Reset
    <2>1. UNCHANGED <<config, settled, strays, pending, book, task>>
      BY <1>2 DEF MarketMove, Midnight, Blind, Enforce, Alpaca, Reset
    <2> QED BY <1>0, <2>1
  <1>3. CASE \/ BeginSweep \/ StampDay \/ ResetBroker \/ ReadLabel \/ ReadPositions
             \/ ReadWorth \/ ReadPnl \/ Publish \/ Crash
    <2>1. UNCHANGED venueVars
      BY <1>3 DEF BeginSweep, StampDay, ResetBroker, ReadLabel, ReadPositions, ReadWorth,
                  ReadPnl, Publish, Crash, Keep
    <2> QED BY <1>1, <2>1
  <1>4. CASE \/ Tick \/ SnapshotVenue \/ SnapshotPositions \/ SnapshotWorth \/ SnapshotPnl
             \/ SnapshotStore \/ Analyze
             \/ \E g \in Signals, m \in Modes, b \in BOOLEAN : BuildDecision(g, m, b)
    <2>1. UNCHANGED venueVars
      BY <1>4 DEF Tick, SnapshotVenue, SnapshotPositions, SnapshotWorth, SnapshotPnl, Reading,
                  SnapshotStore, Analyze, BuildDecision
    <2> QED BY <1>1, <2>1
  <1>5. CASE \/ \E c \in Clients : PlaceUnavailable(c) \/ PlaceFilled(c) \/ PlacePending(c)
                                   \/ PlaceRejected(c) \/ ReadVenue(c)
             \/ \E s \in Symbols, side \in {"BUY", "SELL"} : Enter(s, side)
    BY <1>5, OrderRoute, ClientNames DEF Place
  <1>6. CASE UpdateSettings \/ ToggleLive \/ \E s \in Symbols : AlpacaFills(s)
    BY <1>6, SettingsRoute, FillRoute
  <1>7. CASE \/ Kill \/ FlattenSim \/ KillSweep \/ Dispatch \/ Flatten
             \/ \E s \in Symbols : StopHit(s)
             \/ \E s \in Symbols, ok \in BOOLEAN : Exit(s, ok)
             \/ \E s \in Symbols : CloseTimesOut(s) \/ \E ok \in BOOLEAN : ClosePosition(s, ok)
    BY <1>7, SweepRoute
  <1>8. CASE UNCHANGED guardVars
    BY <1>1, <1>8 DEF guardVars
  <1>9. CASE \/ \E s \in Symbols : AlpacaDrops(s)
             \/ \E s \in Symbols, p \in Sales : PaperSale(s, p)
    BY <1>9, LeavesRoute
  <1> QED BY <1>1, <1>2, <1>3, <1>4, <1>5, <1>6, <1>7, <1>8, <1>9 DEF GuardNext

(* While the venue is switched only when nothing is held, ordered or under way,
   every exit goes to the account that holds the position (broker.py's
   submit_order, position_monitor.py's kill sweep and the venue-aware flattener),
   for any symbols of any kind and however orders, sweeps, refusals and late fills
   interleave. *)
THEOREM ExitsFindTheirPosition == Spec => []ExitsGoWhereHeld
  <1>1. RouteInv => ExitsGoWhereHeld
    BY DEF RouteInv, ExitsGoWhereHeld
  <1>2. GuardInit => ConsentInv /\ RouteInv
    BY InitConsentInv, InitRouteInv
  <1>3. ConsentInv /\ RouteInv /\ [GuardNext]_guardVars => (ConsentInv /\ RouteInv)'
    BY NextConsentInv, NextRouteInv DEF ConsentInv
  <1> QED BY <1>1, <1>2, <1>3, PTL DEF Spec

(* ------------------------------- all types ------------------------------ *)
Monitors == [pc : Places, today : Nat, label : ValidVenues, positions : SUBSET Symbols,
             worth : Nat, pnl : Int, seen : Nat]
Snapshots == [at : Int, seen : Nat, from : SUBSET ValidVenues, positions : SUBSET Symbols,
              worth : Nat, pnl : Int, since : Nat, until : Nat]
Reasons == {"none", "approved", "broker_unavailable", "blackout_window", "daily_loss_cap",
            "gross_exposure_cap", "sizer_returned_zero", "symbol_already_at_cap"}
Decisions == [approved : BOOLEAN, notional : Nat, reason : Reasons]
Sizings == [pc : {"idle", "venue", "positions", "worth", "pnl", "store", "decide", "merge"},
            venue : ValidVenues, got : Nat, s : Snapshots,
            symbol : {g.symbol : g \in Signals} \cup {"none"},
            mode : Modes \cup {"none"}, decision : Decisions]
Alpacas == {"alpaca_paper", "live"}
Orders == [account : Alpacas, symbol : Symbols, side : {"BUY", "SELL"}]

SwitchType == /\ kill \in BOOLEAN /\ up \subseteq Endpoints /\ settled \in BOOLEAN
              /\ creds \in BOOLEAN /\ exchange \in BOOLEAN
OrderType == /\ chosen \subseteq ValidVenues
             /\ pending \subseteq Orders
             /\ \A c \in Clients :
                   /\ task[c].pc \in {"route", "place"} => task[c].symbol \in Symbols
                   /\ task[c].pc = "close" => task[c].from \in Alpacas
MoneyType == worth \in [Accounts -> Nat] /\ base \in [Accounts -> Nat] /\ paperPnl \in Int
MonitorType == rm \in Monitors /\ metrics.venue \in ValidVenues
SizingType == /\ clock \in Nat /\ cache \in [ValidVenues -> Snapshots] /\ sn \in Sizings
TypeInv == SwitchType /\ OrderType /\ MoneyType /\ MonitorType /\ SizingType

(* The arithmetic of a decision. *)
LEMMA Products == \A m, n \in Nat : m * n \in Nat
  OBVIOUS
LEMMA Quotients ==
  ASSUME NEW m \in Nat, NEW d \in Nat \ {0}
  PROVE  m \div d \in Nat /\ m \div d <= m
  OBVIOUS
LEMMA Bounds ==
  ASSUME NEW x \in Int, NEW y \in Int
  PROVE  /\ AtMost(x, y) \in {x, y} /\ AtMost(x, y) <= x /\ AtMost(x, y) <= y
         /\ AtLeast(x, y) \in {x, y} /\ AtLeast(x, y) >= x /\ AtLeast(x, y) >= y
  BY DEF AtMost, AtLeast

LEMMA SizeType ==
  ASSUME NEW direction, NEW confidence \in Int, NEW price \in Int, NEW value \in Nat,
         NEW vol \in Int, NEW volume \in Int
  PROVE  /\ Size(direction, confidence, price, value, vol, volume) \in Nat
         /\ value = 0 => Size(direction, confidence, price, value, vol, volume) = 0
  <1> DEFINE risk == TargetRisk(confidence)
             bracket == Bracket(value, risk, vol)
  <1>1. risk \in Nat
    <2> DEFINE weight == AtMost(AtLeast(confidence, 0), Unit)
    <2>1. weight \in Nat
      <3>1. AtLeast(confidence, 0) \in Nat
        BY Bounds
      <3> QED BY <3>1, Bounds DEF Unit
    <2> HIDE DEF weight
    <2>2. MaxRisk \in Nat
      BY SizingAssumption DEF Unit
    <2>3. MaxRisk * weight \in Nat
      BY <2>1, <2>2, Products
    <2> QED BY <2>3, Quotients DEF TargetRisk, weight, Unit
  <1> HIDE DEF risk
  <1>2. bracket \in Nat
    <2> DEFINE low == value \div 1000
               mid == (value * risk) \div AtLeast(vol, 10)
               high == (3 * value * risk) \div Unit
    <2>1. low \in Nat
      BY Quotients
    <2>2. mid \in Nat
      <3>1. AtLeast(vol, 10) \in Nat \ {0}
        BY Bounds
      <3>2. value * risk \in Nat
        BY <1>1, Products
      <3> QED BY <3>1, <3>2, Quotients
    <2>3. high \in Nat
      <3>1. 3 * value \in Nat
        OBVIOUS
      <3>2. 3 * value * risk \in Nat
        BY <1>1, <3>1, Products
      <3> QED BY <3>2, Quotients DEF Unit
    <2>4. bracket = AtLeast(low, AtMost(mid, high))
      BY DEF Bracket
    <2> HIDE DEF low, mid, high, bracket
    <2>5. AtMost(mid, high) \in Nat
      BY <2>2, <2>3, Bounds
    <2> QED BY <2>1, <2>4, <2>5, Bounds
  <1>3. LiquidityCap(bracket, volume) \in Nat
    <2> HIDE DEF bracket
    <2>1. CASE volume > 0
      <3>1. volume \div 100 \in Nat
        BY <2>1, Quotients
      <3> QED BY <1>2, <2>1, <3>1, Bounds DEF LiquidityCap
    <2>2. CASE ~(volume > 0)
      BY <1>2, <2>2 DEF LiquidityCap
    <2> QED BY <2>1, <2>2
  <1> QED BY <1>3 DEF Size, risk

(* A decision approves no more than what the symbol's cap leaves, on an account that
   is worth something and has not lost its day (portfolio_constructor.py's
   _build_decision). *)
LEMMA DecideFits ==
  ASSUME NEW s, s.value \in Nat, s.pnl \in Int, s.held \in Nat, s.overlap \in Nat,
         NEW mode, NEW blackout \in BOOLEAN, NEW direction, NEW confidence \in Int,
         NEW price \in Int, NEW vol \in Int, NEW volume \in Int
  PROVE  LET d == Decide(s, mode, blackout, direction, confidence, price, vol, volume)
             limits == LimitsForMode(mode)
         IN /\ d \in Decisions
            /\ d.approved =>
                  /\ s.value > 0
                  /\ d.notional + s.held <= (s.value * limits.single) \div Unit
                  /\ s.pnl < 0 => -s.pnl * Unit < limits.daily * s.value
  <1> DEFINE d == Decide(s, mode, blackout, direction, confidence, price, vol, volume)
             limits == LimitsForMode(mode)
             sized == Size(direction, confidence, price, s.value, vol, volume)
             cap == SymbolCap(s, limits)
             allowed == Downsize(s, limits, sized)
             n == AtMost(1 + s.overlap, 4)
  <1>1. limits.daily \in Nat /\ limits.single \in Nat
    BY SizingAssumption DEF LimitsForMode
  <1>2. sized \in Nat /\ (s.value = 0 => sized = 0)
    BY SizeType
  <1>3. cap \in Nat /\ cap = (s.value * limits.single) \div Unit
    <2>1. s.value * limits.single \in Nat
      BY <1>1, Products
    <2> QED BY <2>1, Quotients DEF SymbolCap, Unit
  <1>4. allowed = IF sized + s.held > cap THEN AtLeast(0, cap - s.held) ELSE sized
    BY DEF Downsize
  <1>5. n \in Nat \ {0}
    <2>1. 1 + s.overlap \in Nat \ {0}
      OBVIOUS
    <2> QED BY <2>1, Bounds
  <1>6. \A why \in Reasons : Rejected(why) \in Decisions /\ ~Rejected(why).approved
    BY DEF Rejected, Decisions
  <1> DEFINE yes == [approved |-> TRUE, notional |-> ForOverlap(allowed, s.overlap),
                     reason |-> "approved"]
             lost == s.value > 0 /\ s.pnl < 0 /\ -s.pnl * Unit >= limits.daily * s.value
  <1>7. \/ d \in {Rejected("blackout_window"), Rejected("daily_loss_cap"),
                  Rejected("gross_exposure_cap"), Rejected("sizer_returned_zero"),
                  Rejected("symbol_already_at_cap")}
        \/ d = yes /\ ~lost /\ ~(sized <= 0) /\ ~(allowed <= 0)
    <2> HIDE DEF limits, sized, allowed
    <2> QED BY DEF Decide, sized, limits, allowed
  <1>8. ForOverlap(allowed, s.overlap) = allowed \div n
    BY DEF ForOverlap
  <1> HIDE DEF sized, cap, allowed, n, limits
  <1>9. CASE d = yes /\ ~lost /\ ~(sized <= 0) /\ ~(allowed <= 0)
    <2>1. allowed \in Nat /\ allowed + s.held <= cap
      BY <1>2, <1>3, <1>4, <1>9, Bounds
    <2>2. allowed \div n \in Nat /\ allowed \div n <= allowed
      BY <1>5, <2>1, Quotients
    <2>3. yes \in Decisions /\ yes.notional + s.held <= cap
      <3>1. yes.notional = allowed \div n /\ yes \in Decisions
        BY <1>8, <2>2 DEF Decisions, Reasons
      <3> HIDE DEF yes
      <3>2. allowed \div n + s.held <= allowed + s.held
        BY <2>1, <2>2
      <3> QED BY <1>3, <2>1, <2>2, <3>1, <3>2
    <2>4. s.value > 0
      BY <1>2, <1>9
    <2>5. -s.pnl * Unit \in Int /\ limits.daily * s.value \in Int
      BY <1>1 DEF Unit
    <2>6. s.pnl < 0 => -s.pnl * Unit < limits.daily * s.value
      BY <1>9, <2>4, <2>5
    <2> HIDE DEF yes, d
    <2> QED BY <1>3, <1>9, <2>3, <2>4, <2>6 DEF d, limits
  <1>10. CASE d \in {Rejected("blackout_window"), Rejected("daily_loss_cap"),
                  Rejected("gross_exposure_cap"), Rejected("sizer_returned_zero"),
                  Rejected("symbol_already_at_cap")}
    <2>1. d \in Decisions /\ ~d.approved
        BY <1>6, <1>10 DEF Reasons
    <2> HIDE DEF d
    <2> QED BY <2>1 DEF d
  <1> QED BY <1>7, <1>9, <1>10


LEMMA InitTypeInv == ASSUME GuardInit PROVE TypeInv
  <1> USE RiskAssumption, ConstructorAssumption, VenuesAssumption
  <1>1. SwitchType
    <2>1. kill = FALSE /\ up = Endpoints /\ settled = TRUE /\ creds \in BOOLEAN
      BY DEF GuardInit, Init
    <2>2. exchange \in BOOLEAN
      BY DEF GuardInit, Init
    <2> QED BY <2>1, <2>2 DEF SwitchType
  <1>2. OrderType
    BY DEF GuardInit, Init, Idle, OrderType
  <1>3. MoneyType
    BY DEF GuardInit, RiskInit, MoneyType
  <1>4. MonitorType
    <2>1. NoSweep \in Monitors
      BY DEF NoSweep, Monitors, Places, ValidVenues
    <2> QED BY <2>1 DEF GuardInit, RiskInit, MonitorType, ValidVenues
  <1>5. SizingType
    <2>1. NoSnapshot \in Snapshots
      BY DEF NoSnapshot, Snapshots
    <2>2. Rejected("none") \in Decisions
      BY DEF Rejected, Decisions, Reasons
    <2>3. NotSizing \in Sizings
      BY <2>1, <2>2 DEF NotSizing, Sizings, ValidVenues
    <2> QED BY <2>1, <2>3 DEF GuardInit, SizingInit, SizingType
  <1> QED BY <1>1, <1>2, <1>3, <1>4, <1>5 DEF TypeInv

LEMMA NextSwitchType ==
  ASSUME SwitchType, [GuardNext]_guardVars
  PROVE  SwitchType'
  <1>1. CASE UNCHANGED <<kill, up, settled, creds, exchange>>
    BY <1>1 DEF SwitchType
  <1>2. CASE UNCHANGED venueVars
    BY <1>1, <1>2 DEF venueVars, stable
  <1>3. ASSUME NEW c, SetConfig(c) PROVE SwitchType'
    BY <1>3 DEF SetConfig, stable, SwitchType
  <1>4. CASE Alpaca \/ Kill \/ Reset \/ Blind \/ Enforce
    BY <1>4 DEF Alpaca, Kill, Reset, Blind, Enforce, stable, SwitchType
  <1>5. ASSUME NEW c \in Clients, Place(c) PROVE SwitchType'
    BY <1>5 DEF Place, PlaceUnavailable, PlaceFilled, PlacePending, PlaceRejected, stable,
                SwitchType
  <1>6. CASE \/ FlattenSim \/ KillSweep \/ Dispatch \/ Flatten \/ Midnight
             \/ \E a \in ValidVenues, w \in Worths : MarketMove(a, w)
             \/ \E s \in Symbols, p \in Sales : PaperSale(s, p)
             \/ \E s \in Symbols : AlpacaFills(s) \/ AlpacaDrops(s)
             \/ \E s \in Symbols : StopHit(s) \/ CloseTimesOut(s)
             \/ \E s \in Symbols, side \in {"BUY", "SELL"} : Enter(s, side)
             \/ \E c \in Clients : ReadVenue(c)
             \/ \E s \in Symbols, ok \in BOOLEAN : Exit(s, ok) \/ ClosePosition(s, ok)
    <2>1. UNCHANGED <<kill, up, settled, creds, exchange>>
      BY <1>6 DEF FlattenSim, KillSweep, Dispatch, Flatten, Midnight, MarketMove, PaperSale,
                AlpacaFills, AlpacaDrops, StopHit, CloseTimesOut, Enter, ReadVenue, Exit,
                ClosePosition, stable
    <2> QED BY <1>1, <2>1
  <1>7. CASE \/ BeginSweep \/ StampDay \/ ResetBroker \/ ReadLabel \/ ReadPositions
             \/ ReadWorth \/ ReadPnl \/ Publish \/ Crash
    <2>1. UNCHANGED venueVars
      BY <1>7 DEF BeginSweep, StampDay, ResetBroker, ReadLabel, ReadPositions, ReadWorth,
                  ReadPnl, Publish, Crash, Keep
    <2> QED BY <1>2, <2>1
  <1>8. CASE \/ Tick \/ SnapshotVenue \/ SnapshotPositions \/ SnapshotWorth \/ SnapshotPnl
             \/ SnapshotStore \/ Analyze
             \/ \E g \in Signals, m \in Modes, b \in BOOLEAN : BuildDecision(g, m, b)
    <2>1. UNCHANGED venueVars
      BY <1>8 DEF Tick, SnapshotVenue, SnapshotPositions, SnapshotWorth, SnapshotPnl, Reading,
                  SnapshotStore, Analyze, BuildDecision
    <2> QED BY <1>2, <2>1
  <1>9. CASE UNCHANGED guardVars
    BY <1>2, <1>9 DEF guardVars
  <1>10. CASE UpdateSettings \/ ToggleLive
    BY <1>3, <1>10 DEF UpdateSettings, ToggleLive
  <1>11. CASE \E c \in Clients : PlaceUnavailable(c) \/ PlaceFilled(c) \/ PlacePending(c)
                                 \/ PlaceRejected(c)
    BY <1>5, <1>11 DEF Place
  <1> QED BY <1>4, <1>6, <1>7, <1>8, <1>9, <1>10, <1>11 DEF GuardNext

(* What is ordered and closed names a symbol and an account at Alpaca. *)
LEMMA OrderStep ==
  ASSUME OrderType, chosen' \subseteq ValidVenues,
         \A p \in pending' : p \in pending \/ p \in Orders,
         \A c \in Clients :
             \/ task'[c] = task[c]
             \/ /\ task'[c].pc \in {"route", "place"} => task'[c].symbol \in Symbols
                /\ task'[c].pc = "close" => task'[c].from \in Alpacas
  PROVE  OrderType'
  BY DEF OrderType

LEMMA PlaceOrder ==
  ASSUME VenueType, OrderType, NEW c \in Clients,
         \/ Place(c) \/ ReadVenue(c)
         \/ \E s \in Symbols, side \in {"BUY", "SELL"} : Enter(s, side)
  PROVE  OrderType'
  <1> DEFINE t == task[c]
  <1>1. t \in Tasks /\ task \in [Clients -> Tasks]
    BY DEF VenueType
  <1>2. chosen \subseteq ValidVenues /\ (t.pc \in {"route", "place"} => t.symbol \in Symbols)
    BY DEF OrderType
  <1>3. CASE Place(c)
    <2>1. /\ t.pc = "place" /\ Done(c) /\ chosen' = chosen
          /\ \/ UNCHANGED pending
             \/ \E a \in Alpacas : pending' = pending \cup
                   {[account |-> a, symbol |-> t.symbol, side |-> t.side]}
      BY <1>3 DEF Place, PlaceUnavailable, PlaceFilled, PlacePending, PlaceRejected, Alpacas
    <2>2. \A p \in pending' : p \in pending \/ p \in Orders
      BY <1>1, <1>2, <2>1 DEF Orders, Tasks
    <2>3. \A d \in Clients : task'[d] = task[d] \/ task'[d].pc \in {"idle", "exit"}
      BY <1>1, <2>1 DEF Done, Idle, Tasks
    <2> QED BY <1>2, <2>1, <2>2, <2>3, OrderStep
  <1>4. CASE ReadVenue(c)
    <2>1. /\ t.pc = "route" /\ UNCHANGED <<chosen, pending>>
          /\ task' = [task EXCEPT ![c] = [t EXCEPT !.venue = GetExecutionVenue, !.pc = "place"]]
      BY <1>1, <1>4 DEF ReadVenue
    <2>2. \A d \in Clients : \/ task'[d] = task[d]
                             \/ task'[d].pc = "place" /\ task'[d].symbol = t.symbol
      BY <1>1, <2>1 DEF Tasks
    <2> QED BY <1>2, <2>1, <2>2, OrderStep
  <1>5. ASSUME NEW s \in Symbols, NEW side \in {"BUY", "SELL"}, Enter(s, side)
        PROVE  OrderType'
    <2>1. /\ UNCHANGED <<chosen, pending>>
          /\ task' = [task EXCEPT !["desk"] =
                        [Idle EXCEPT !.pc = "route", !.symbol = s, !.side = side]]
      BY <1>5 DEF Enter
    <2>2. \A d \in Clients : \/ task'[d] = task[d]
                             \/ task'[d].pc = "route" /\ task'[d].symbol = s
      BY <1>1, <2>1 DEF Idle
    <2> QED BY <1>2, <2>1, <2>2, OrderStep
  <1> QED BY <1>3, <1>4, <1>5

LEMMA SweepOrder ==
  ASSUME VenueType, OrderType,
         \/ Kill \/ FlattenSim \/ KillSweep \/ Dispatch \/ Flatten
         \/ \E s \in Symbols : StopHit(s)
         \/ \E s \in Symbols, ok \in BOOLEAN : Exit(s, ok)
         \/ \E s \in Symbols : CloseTimesOut(s) \/ \E ok \in BOOLEAN : ClosePosition(s, ok)
  PROVE  OrderType'
  <1> DEFINE V == GetExecutionVenue
             m == task["monitor"]
  <1>1. /\ m \in Tasks /\ task \in [Clients -> Tasks] /\ V \in ValidVenues
        /\ "monitor" \in Clients /\ "operator" \in Clients /\ task["operator"] \in Tasks
    BY VenueIsValid, ClientNames DEF VenueType
  <1>2. chosen \subseteq ValidVenues /\ (m.pc = "close" => m.from \in Alpacas)
    BY <1>1 DEF OrderType
  <1>3. ASSUME NEW c \in Clients, NEW n, task' = [task EXCEPT ![c] = n], UNCHANGED chosen,
               n.pc \in {"route", "place"} => n.symbol \in Symbols,
               n.pc = "close" => n.from \in Alpacas,
               \A p \in pending' : p \in pending \/ p \in Orders
        PROVE  OrderType'
    <2>1. \A d \in Clients : task'[d] = task[d] \/ task'[d] = n
      BY <1>1, <1>3
    <2> QED BY <1>2, <1>3, <2>1, OrderStep
  <1>4. CASE Kill \/ FlattenSim
    <2> DEFINE n == [task["operator"] EXCEPT !.pc = "flattenSim"]
    <2>1. /\ UNCHANGED <<chosen, pending>>
          /\ \/ task' = [task EXCEPT !["operator"] = n]
             \/ task' = [task EXCEPT !["operator"] = Idle]
      BY <1>1, <1>4 DEF Kill, FlattenSim
    <2>2. n.pc = "flattenSim" /\ Idle.pc = "idle"
      BY <1>1 DEF Tasks, Idle
    <2> HIDE DEF n
    <2> QED BY <1>1, <1>3, <2>1, <2>2
  <1>5. CASE KillSweep
    <2> DEFINE n == [Idle EXCEPT !.pc = "dispatch", !.from = V, !.todo = GetPositions(V)]
    <2>1. task' = [task EXCEPT !["monitor"] = n] /\ UNCHANGED <<chosen, pending>>
      BY <1>5 DEF KillSweep
    <2>2. n.pc = "dispatch"
      BY DEF Idle
    <2> HIDE DEF n
    <2> QED BY <1>1, <1>3, <2>1, <2>2
  <1>6. CASE Dispatch
    <2> DEFINE n1 == [m EXCEPT !.pc = "exit"]
               n2 == [Idle EXCEPT !.pc = "flatten"]
    <2>1. /\ \/ task' = [task EXCEPT !["monitor"] = n1]
             \/ task' = [task EXCEPT !["monitor"] = n2]
          /\ UNCHANGED <<chosen, pending>>
      BY <1>1, <1>6 DEF Dispatch
    <2>2. n1.pc = "exit" /\ n2.pc = "flatten"
      BY <1>1 DEF Idle, Tasks
    <2> HIDE DEF n1, n2
    <2> QED BY <1>1, <1>3, <2>1, <2>2
  <1>7. CASE Flatten
    <2> DEFINE n == [Idle EXCEPT !.pc = "close", !.from = V, !.todo = GetPositions(V)]
    <2>1. /\ \/ task' = [task EXCEPT !["monitor"] = n] /\ V # "sim"
             \/ task' = [task EXCEPT !["monitor"] = Idle]
          /\ UNCHANGED <<chosen, pending>>
      BY <1>7 DEF Flatten
    <2>2. Idle.pc = "idle" /\ n.pc = "close" /\ n.from = V
      BY DEF Idle
    <2>3. V # "sim" => V \in Alpacas
      BY <1>1 DEF ValidVenues, Alpacas
    <2> HIDE DEF n
    <2> QED BY <1>1, <1>3, <2>1, <2>2, <2>3
  <1>8. ASSUME NEW s \in Symbols, StopHit(s) PROVE OrderType'
    <2> DEFINE n == [Idle EXCEPT !.pc = "route", !.symbol = s, !.side = "SELL", !.from = "sim"]
    <2>1. task' = [task EXCEPT !["monitor"] = n] /\ UNCHANGED <<chosen, pending>>
      BY <1>8 DEF StopHit
    <2>2. n.pc = "route" /\ n.symbol = s
      BY DEF Idle
    <2> HIDE DEF n
    <2> QED BY <1>1, <1>3, <2>1, <2>2
  <1>9. ASSUME NEW s \in Symbols, NEW ok \in BOOLEAN, Exit(s, ok) PROVE OrderType'
    <2> DEFINE n1 == [m EXCEPT !.pc = "route", !.todo = @ \ {s}, !.symbol = s, !.side = "SELL"]
               n2 == [m EXCEPT !.todo = @ \ {s}]
    <2>1. /\ \/ task' = [task EXCEPT !["monitor"] = n1]
             \/ task' = [task EXCEPT !["monitor"] = n2]
             \/ task' = [task EXCEPT !["monitor"] = Idle]
          /\ m.pc = "exit" /\ UNCHANGED <<chosen, pending>>
      BY <1>9 DEF Exit
    <2>2. n1.pc = "route" /\ n1.symbol = s /\ n2.pc = m.pc /\ Idle.pc = "idle"
      BY <1>1 DEF Tasks, Idle
    <2> HIDE DEF n1, n2
    <2> QED BY <1>1, <1>3, <2>1, <2>2
  <1>10. ASSUME NEW s \in Symbols,
                CloseTimesOut(s) \/ \E ok \in BOOLEAN : ClosePosition(s, ok)
         PROVE  OrderType'
    <2> DEFINE n == [m EXCEPT !.todo = @ \ {s}]
    <2>1. /\ \/ task' = [task EXCEPT !["monitor"] = n]
             \/ task' = [task EXCEPT !["monitor"] = Idle]
          /\ m.pc = "close" /\ UNCHANGED chosen
          /\ UNCHANGED pending \/ pending' = pending \cup {Closing(m.from, s)}
      BY <1>10 DEF CloseTimesOut, ClosePosition
    <2>2. n.pc = m.pc /\ n.from = m.from /\ Idle.pc = "idle"
      BY <1>1 DEF Tasks, Idle
    <2>3. Closing(m.from, s) \in Orders
      BY <1>2, <2>1 DEF Closing, Orders
    <2> HIDE DEF n
    <2> QED BY <1>1, <1>2, <1>3, <2>1, <2>2, <2>3
  <1> QED BY <1>4, <1>5, <1>6, <1>7, <1>8, <1>9, <1>10

LEMMA NextOrderType ==
  ASSUME VenueType, OrderType, [GuardNext]_guardVars
  PROVE  OrderType'
  <1>1. ASSUME UNCHANGED <<chosen, pending, task>> PROVE OrderType'
    BY <1>1 DEF OrderType
  <1>2. CASE UNCHANGED venueVars
    BY <1>1, <1>2 DEF venueVars
  <1>3. CASE \/ \E a \in ValidVenues, w \in Worths : MarketMove(a, w)
             \/ Midnight \/ Blind \/ Enforce \/ Alpaca \/ Reset \/ ToggleLive
    <2>1. UNCHANGED <<chosen, pending, task>>
      BY <1>3 DEF MarketMove, Midnight, Blind, Enforce, Alpaca, Reset, ToggleLive, SetConfig
    <2> QED BY <1>1, <2>1
  <1>4. CASE \/ BeginSweep \/ StampDay \/ ResetBroker \/ ReadLabel \/ ReadPositions
             \/ ReadWorth \/ ReadPnl \/ Publish \/ Crash
    <2>1. UNCHANGED venueVars
      BY <1>4 DEF BeginSweep, StampDay, ResetBroker, ReadLabel, ReadPositions, ReadWorth,
                  ReadPnl, Publish, Crash, Keep
    <2> QED BY <1>2, <2>1
  <1>5. CASE \/ Tick \/ SnapshotVenue \/ SnapshotPositions \/ SnapshotWorth \/ SnapshotPnl
             \/ SnapshotStore \/ Analyze
             \/ \E g \in Signals, m \in Modes, b \in BOOLEAN : BuildDecision(g, m, b)
    <2>1. UNCHANGED venueVars
      BY <1>5 DEF Tick, SnapshotVenue, SnapshotPositions, SnapshotWorth, SnapshotPnl, Reading,
                  SnapshotStore, Analyze, BuildDecision
    <2> QED BY <1>2, <2>1
  <1>6. CASE UpdateSettings
    <2>1. PICK v \in ValidVenues \cup {"unset"} : chosen' = chosen \cup ({v} \ {"unset"})
      BY <1>6 DEF UpdateSettings
    <2>2. UNCHANGED <<pending, task>>
      BY <1>6 DEF UpdateSettings, SetConfig
    <2>3. chosen' \subseteq ValidVenues
      BY <2>1 DEF OrderType
    <2> QED BY <2>2, <2>3, OrderStep
  <1>7. CASE \/ \E s \in Symbols : AlpacaFills(s) \/ AlpacaDrops(s)
             \/ \E s \in Symbols, p \in Sales : PaperSale(s, p)
    <2>1. pending' \subseteq pending /\ UNCHANGED <<chosen, task>>
      BY <1>7 DEF AlpacaFills, AlpacaDrops, PaperSale
    <2> QED BY <2>1 DEF OrderType
  <1>8. CASE \/ \E c \in Clients : PlaceUnavailable(c) \/ PlaceFilled(c) \/ PlacePending(c)
                                   \/ PlaceRejected(c) \/ ReadVenue(c)
             \/ \E s \in Symbols, side \in {"BUY", "SELL"} : Enter(s, side)
    BY <1>8, PlaceOrder, ClientNames DEF Place
  <1>9. CASE \/ Kill \/ FlattenSim \/ KillSweep \/ Dispatch \/ Flatten
             \/ \E s \in Symbols : StopHit(s)
             \/ \E s \in Symbols, ok \in BOOLEAN : Exit(s, ok)
             \/ \E s \in Symbols : CloseTimesOut(s) \/ \E ok \in BOOLEAN : ClosePosition(s, ok)
    BY <1>9, SweepOrder
  <1>10. CASE UNCHANGED guardVars
    BY <1>2, <1>10 DEF guardVars
  <1> QED BY <1>3, <1>4, <1>5, <1>6, <1>7, <1>8, <1>9, <1>10 DEF GuardNext


LEMMA ReadingTypes ==
  ASSUME VenueType, SwitchType, MoneyType, NEW v \in ValidVenues
  PROVE  /\ GetPositions(v) \in SUBSET Symbols
         /\ GetPortfolioValue(v) \in Nat
         /\ GetDailyPnl(v) \in Int
  <1>1. v \in Accounts
    BY DEF Accounts
  <1> QED BY <1>1 DEF MoneyType, GetPositions, Held, GetPortfolioValue, GetDailyPnl, DayPnl

LEMMA NextMonitorType ==
  ASSUME VenueType, SwitchType, MoneyType, MonitorType, DayInv, [GuardNext]_guardVars
  PROVE  MoneyType' /\ MonitorType'
  <1> DEFINE V == GetExecutionVenue
  <1>0. V \in ValidVenues /\ rm \in Monitors
    BY VenueIsValid DEF VenueType, MonitorType
  <1>1. ASSUME UNCHANGED <<worth, base, paperPnl, rm, metrics>> PROVE MoneyType' /\ MonitorType'
    BY <1>1 DEF MoneyType, MonitorType
  <1>2. CASE UNCHANGED riskVars
    BY <1>1, <1>2 DEF riskVars
  <1>3. ASSUME UNCHANGED <<worth, base, paperPnl>>, rm' \in Monitors, metrics'.venue \in ValidVenues
        PROVE  MoneyType' /\ MonitorType'
    BY <1>3 DEF MoneyType, MonitorType
  <1>4. CASE \/ Midnight \/ \E a \in ValidVenues, w \in Worths : MarketMove(a, w)
             \/ \E s \in Symbols, p \in Sales : PaperSale(s, p)
    <2>1. UNCHANGED <<rm, metrics>>
      BY <1>4 DEF Midnight, MarketMove, PaperSale
    <2>2. CASE Midnight
      BY <2>1, <2>2 DEF Midnight, MoneyType, MonitorType
    <2>3. ASSUME NEW a \in ValidVenues, NEW w \in Worths, MarketMove(a, w)
          PROVE  MoneyType' /\ MonitorType'
      BY <2>1, <2>3, RiskAssumption DEF MarketMove, MoneyType, MonitorType
    <2>4. ASSUME NEW s \in Symbols, NEW p \in Sales, PaperSale(s, p)
          PROVE  MoneyType' /\ MonitorType'
      <3>1. p \in Int /\ paperPnl' = paperPnl + p /\ UNCHANGED <<worth, base>>
        BY <2>4, RiskAssumption DEF PaperSale
      <3> QED BY <2>1, <3>1 DEF MoneyType, MonitorType
    <2> QED BY <1>4, <2>2, <2>3, <2>4
  <1>5. CASE BeginSweep
    <2>1. /\ rm' = [NoSweep EXCEPT !.today = day, !.seen = changes,
                             !.pc = IF resetDay = day THEN "venue" ELSE "stamp"]
          /\ UNCHANGED <<worth, base, paperPnl, metrics>>
      BY <1>5 DEF BeginSweep, Keep, money
    <2>2. day \in Nat /\ changes \in Nat
      BY RiskAssumption DEF DayInv, Days, VenueType
    <2>3. NoSweep \in Monitors
      BY DEF NoSweep, Monitors, Places, ValidVenues
    <2>4. PICK p \in Places :
             rm' = [NoSweep EXCEPT !.today = day, !.seen = changes, !.pc = p]
      BY <2>1 DEF Places
    <2>5. rm' \in Monitors
      BY <2>2, <2>3, <2>4 DEF Monitors
    <2> QED BY <1>3, <2>1, <2>5 DEF MonitorType
  <1>6. CASE StampDay
    <2>1. /\ rm' = [rm EXCEPT !.pc = "reset"]
          /\ UNCHANGED <<worth, base, paperPnl, metrics>>
      BY <1>6 DEF StampDay, Keep, money
    <2>2. rm' \in Monitors
      BY <1>0, <2>1 DEF Monitors, Places
    <2> QED BY <1>3, <2>1, <2>2 DEF MonitorType
  <1>7. CASE ResetBroker
    <2>1. /\ rm' = [rm EXCEPT !.pc = "venue"] /\ UNCHANGED <<worth, base, metrics>>
          /\ paperPnl' = 0
      BY <1>7 DEF ResetBroker
    <2>2. rm' \in Monitors
      BY <1>0, <2>1 DEF Monitors, Places
    <2>3. MoneyType'
      BY <2>1 DEF MoneyType
    <2> QED BY <2>1, <2>2, <2>3 DEF MonitorType
  <1>8. CASE ReadLabel
    <2>1. /\ rm' = [rm EXCEPT !.label = V, !.pc = "positions"]
          /\ UNCHANGED <<worth, base, paperPnl, metrics>>
      BY <1>8 DEF ReadLabel, Keep, money
    <2>2. rm' \in Monitors
      BY <1>0, <2>1 DEF Monitors, Places
    <2> QED BY <1>3, <2>1, <2>2 DEF MonitorType
  <1>9. CASE ReadPositions \/ Blind
    <2>1. /\ \/ rm' = [rm EXCEPT !.positions = GetPositions(V), !.pc = "worth"]
             \/ rm' = [rm EXCEPT !.pc = "asleep"]
          /\ UNCHANGED <<worth, base, paperPnl, metrics>>
      BY <1>9 DEF ReadPositions, Blind, Keep, money
    <2>2. GetPositions(V) \in SUBSET Symbols
      BY <1>0, ReadingTypes
    <2> HIDE DEF V
    <2>3. rm' \in Monitors
      BY <1>0, <2>1, <2>2 DEF Monitors, Places
    <2> QED BY <1>3, <2>1, <2>3 DEF MonitorType
  <1>10. CASE ReadWorth \/ ReadPnl
    <2>1. /\ \/ rm' = [rm EXCEPT !.pc = "begin"]
             \/ rm' = [rm EXCEPT !.worth = GetPortfolioValue(V), !.pc = "pnl"]
             \/ rm' = [rm EXCEPT !.pnl = GetDailyPnl(V), !.pc = "publish"]
          /\ UNCHANGED <<worth, base, paperPnl, metrics>>
      BY <1>10 DEF ReadWorth, ReadPnl, Keep, money
    <2>2. GetPortfolioValue(V) \in Nat /\ GetDailyPnl(V) \in Int
      BY <1>0, ReadingTypes
    <2> HIDE DEF V
    <2>3. rm' \in Monitors
      BY <1>0, <2>1, <2>2 DEF Monitors, Places
    <2> QED BY <1>3, <2>1, <2>3 DEF MonitorType
  <1>11. CASE Publish
    <2>1. /\ rm' = [rm EXCEPT !.pc = "enforce"] /\ metrics'.venue = rm.label
          /\ UNCHANGED <<worth, base, paperPnl>>
      BY <1>11 DEF Publish, Keep, money
    <2>2. rm' \in Monitors /\ rm.label \in ValidVenues
      BY <1>0, <2>1 DEF Monitors, Places
    <2> QED BY <1>3, <2>1, <2>2
  <1>12. CASE Enforce \/ Crash
    <2>1. /\ rm' \in {[rm EXCEPT !.pc = "asleep"], NoSweep}
          /\ UNCHANGED <<worth, base, paperPnl, metrics>>
      BY <1>12 DEF Enforce, Crash, money
    <2>2. rm' \in Monitors
      BY <1>0, <2>1 DEF Monitors, Places, NoSweep, ValidVenues
    <2> QED BY <1>3, <2>1, <2>2 DEF MonitorType
  <1>13. CASE \/ Tick \/ SnapshotVenue \/ SnapshotPositions \/ SnapshotWorth \/ SnapshotPnl
             \/ SnapshotStore \/ Analyze
             \/ \E g \in Signals, m \in Modes, b \in BOOLEAN : BuildDecision(g, m, b)
    <2>1. UNCHANGED riskVars
      BY <1>13 DEF Tick, SnapshotVenue, SnapshotPositions, SnapshotWorth, SnapshotPnl, Reading,
                  SnapshotStore, Analyze, BuildDecision
    <2> QED BY <1>2, <2>1
  <1>14. CASE ByVenues \/ UNCHANGED guardVars
    BY <1>2, <1>14 DEF ByVenues, guardVars
  <1> QED BY <1>4, <1>5, <1>6, <1>7, <1>8, <1>9, <1>10, <1>11, <1>12, <1>13, <1>14 DEF GuardNext

LEMMA ViewType ==
  ASSUME NEW s \in Snapshots, NEW symbol
  PROVE  LET view == View(s, symbol)
         IN /\ view.value = s.worth /\ view.pnl = s.pnl
            /\ view.held = IF symbol \in s.positions THEN Weight[symbol] ELSE 0
            /\ view.held \in Nat /\ view.overlap \in Nat
  <1> DEFINE over == {t \in s.positions \ {symbol} : {t, symbol} \in Correlated}
  <1>1. over \subseteq Symbols /\ s.positions \subseteq Symbols
    BY DEF Snapshots
  <1>2. Cardinality(over) \in Nat
    BY <1>1, VenuesAssumption, FS_Subset, FS_CardinalityType
  <1>3. View(s, symbol).overlap = Cardinality(over)
    BY DEF View
  <1>4. /\ View(s, symbol).value = s.worth /\ View(s, symbol).pnl = s.pnl
        /\ View(s, symbol).held = IF symbol \in s.positions THEN Weight[symbol] ELSE 0
    BY DEF View
  <1>5. symbol \in s.positions => Weight[symbol] \in Nat
    BY <1>1, RiskAssumption
  <1> HIDE DEF over
  <1> QED BY <1>2, <1>3, <1>4, <1>5

LEMMA BuildDecisionType ==
  ASSUME SizingType, NEW g \in Signals, NEW m \in Modes, NEW b \in BOOLEAN,
         BuildDecision(g, m, b)
  PROVE  /\ sn.pc = "decide" /\ UNCHANGED <<clock, cache>>
         /\ sn' \in Sizings /\ sn'.pc = "merge" /\ sn'.s = sn.s /\ sn'.venue = sn.venue
         /\ LET held == IF sn'.symbol \in sn'.s.positions THEN Weight[sn'.symbol] ELSE 0
                limits == LimitsForMode(sn'.mode)
            IN sn'.decision.approved =>
                  /\ sn'.s.worth > 0
                  /\ sn'.decision.notional + held <= (sn'.s.worth * limits.single) \div Unit
                  /\ sn'.s.pnl < 0 => -sn'.s.pnl * Unit < limits.daily * sn'.s.worth
  <1> DEFINE view == View(sn.s, g.symbol)
             d == Decide(view, m, b, g.direction, g.confidence, g.price, g.vol, g.volume)
  <1>1. /\ sn.pc = "decide" /\ UNCHANGED <<clock, cache>>
        /\ sn' = [sn EXCEPT !.pc = "merge", !.symbol = g.symbol, !.mode = m, !.decision = d]
    BY DEF BuildDecision
  <1>2. sn \in Sizings /\ sn.s \in Snapshots /\ sn.s.worth \in Nat /\ sn.s.pnl \in Int
    BY DEF SizingType, Sizings, Snapshots
  <1>3. /\ view.value = sn.s.worth /\ view.pnl = sn.s.pnl /\ view.overlap \in Nat
        /\ view.held = IF g.symbol \in sn.s.positions THEN Weight[g.symbol] ELSE 0
        /\ view.held \in Nat
    BY <1>2, ViewType
  <1>4. g.confidence \in Int /\ g.price \in Int /\ g.vol \in Int /\ g.volume \in Int
    BY ConstructorAssumption
  <1> HIDE DEF view
  <1>5. /\ d \in Decisions
        /\ d.approved =>
              /\ view.value > 0
              /\ d.notional + view.held <= (view.value * LimitsForMode(m).single) \div Unit
              /\ view.pnl < 0 => -view.pnl * Unit < LimitsForMode(m).daily * view.value
    BY <1>2, <1>3, <1>4, DecideFits
  <1> HIDE DEF d
  <1>6. /\ sn' \in Sizings /\ sn'.pc = "merge" /\ sn'.s = sn.s /\ sn'.venue = sn.venue
        /\ sn'.decision = d /\ sn'.symbol = g.symbol /\ sn'.mode = m
    BY <1>1, <1>2, <1>5 DEF Sizings
  <1> QED BY <1>1, <1>3, <1>5, <1>6

LEMMA NextSizingType ==
  ASSUME VenueType, SwitchType, MoneyType, SizingType, [GuardNext]_guardVars
  PROVE  SizingType'
  <1> DEFINE V == GetExecutionVenue
  <1>0. V \in ValidVenues /\ sn \in Sizings /\ changes \in Nat /\ clock \in Nat
        /\ sn.s \in Snapshots /\ sn.venue \in ValidVenues /\ cache \in [ValidVenues -> Snapshots]
    BY VenueIsValid DEF VenueType, SizingType, Sizings
  <1>1. CASE UNCHANGED sizingVars \/ UNCHANGED guardVars
    BY <1>1 DEF sizingVars, guardVars, SizingType
  <1>2. CASE Tick
    BY <1>0, <1>2 DEF Tick, SizingType
  <1>3. CASE Analyze
    <2>1. Rejected("none") \in Decisions /\ NoSnapshot \in Snapshots
      BY DEF Rejected, Decisions, Reasons, NoSnapshot, Snapshots
    <2>2. sn' \in Sizings
      BY <1>3, <2>1 DEF Analyze, NotSizing, Sizings, ValidVenues
    <2> QED BY <1>0, <1>3, <2>2 DEF Analyze, SizingType
  <1>4. CASE SnapshotVenue
    <2> DEFINE fresh == [NoSnapshot EXCEPT !.at = clock, !.since = changes]
    <2>1. fresh \in Snapshots /\ cache[V] \in Snapshots
      <3>1. NoSnapshot \in Snapshots
        BY DEF NoSnapshot, Snapshots
      <3>2. clock \in Int /\ changes \in Nat
        BY <1>0
      <3>3. fresh \in Snapshots
        BY ONLY <3>1, <3>2 DEF Snapshots, fresh
      <3> QED BY <1>0, <3>3
    <2>2. PICK s \in {fresh, cache[V]}, p \in {"decide", "positions"} :
             /\ sn' = [sn EXCEPT !.venue = V, !.got = clock, !.pc = p, !.s = s]
             /\ UNCHANGED <<clock, cache>>
      BY <1>4 DEF SnapshotVenue
    <2> HIDE DEF fresh, V
    <2>3. sn' \in Sizings
      BY <1>0, <2>1, <2>2 DEF Sizings
    <2> QED BY <1>0, <2>2, <2>3 DEF SizingType
  <1>5. CASE SnapshotPositions \/ SnapshotWorth \/ SnapshotPnl
    <2> DEFINE none == [NotSizing EXCEPT !.decision = Rejected("broker_unavailable")]
               s1 == [sn.s EXCEPT !.positions = GetPositions(V), !.seen = clock]
               s2 == [sn.s EXCEPT !.worth = GetPortfolioValue(V)]
               s3 == [sn.s EXCEPT !.pnl = GetDailyPnl(V)]
    <2>1. s1 \in Snapshots /\ s2 \in Snapshots /\ s3 \in Snapshots
      <3>1. GetPositions(V) \in SUBSET Symbols /\ GetPortfolioValue(V) \in Nat
            /\ GetDailyPnl(V) \in Int
        BY <1>0, ReadingTypes
      <3> QED BY <1>0, <3>1 DEF Snapshots
    <2>2. none \in Sizings
      <3>1. /\ Rejected("none") \in Decisions /\ Rejected("broker_unavailable") \in Decisions
            /\ NoSnapshot \in Snapshots
        BY DEF Rejected, Decisions, Reasons, NoSnapshot, Snapshots
      <3>2. NotSizing \in Sizings
        BY <3>1 DEF NotSizing, Sizings, ValidVenues
      <3> QED BY <3>1, <3>2 DEF Sizings
    <2>3. /\ UNCHANGED <<clock, cache>>
          /\ \/ sn' = none
             \/ \E s \in {s1, s2, s3}, p \in {"worth", "pnl", "store"} :
                   sn' = [sn EXCEPT !.pc = p, !.s = [s EXCEPT !.from = @ \cup {V}]]
      BY <1>5 DEF SnapshotPositions, SnapshotWorth, SnapshotPnl, Reading
    <2> HIDE DEF none, s1, s2, s3, V
    <2>4. CASE sn' = none
      BY <1>0, <2>2, <2>3, <2>4 DEF SizingType
    <2>5. ASSUME NEW s \in Snapshots, NEW p \in {"worth", "pnl", "store"},
                 sn' = [sn EXCEPT !.pc = p, !.s = [s EXCEPT !.from = @ \cup {V}]]
          PROVE  SizingType'
      <3>1. [s EXCEPT !.from = @ \cup {V}] \in Snapshots
        BY <1>0, <2>5 DEF Snapshots
      <3>2. sn' \in Sizings
        BY <1>0, <2>5, <3>1 DEF Sizings
      <3> QED BY <1>0, <2>3, <3>2 DEF SizingType
    <2> QED BY <2>1, <2>3, <2>4, <2>5
  <1>6. CASE SnapshotStore
    <2> DEFINE s == [sn.s EXCEPT !.until = changes]
    <2>1. s \in Snapshots
      BY <1>0 DEF Snapshots
    <2>2. /\ cache' = [cache EXCEPT ![sn.venue] = s]
          /\ sn' = [sn EXCEPT !.s = s, !.pc = "decide"] /\ clock' = clock
      BY <1>6 DEF SnapshotStore
    <2> HIDE DEF s
    <2>3. sn' \in Sizings
      BY <1>0, <2>1, <2>2 DEF Sizings
    <2> QED BY <1>0, <2>1, <2>2, <2>3 DEF SizingType
  <1>7. CASE \E g \in Signals, m \in Modes, b \in BOOLEAN : BuildDecision(g, m, b)
    <2>1. UNCHANGED <<clock, cache>> /\ sn' \in Sizings
      BY <1>7, BuildDecisionType
    <2> QED BY <1>0, <2>1 DEF SizingType
  <1> QED BY <1>1, <1>2, <1>3, <1>4, <1>5, <1>6, <1>7 DEF GuardNext, ByVenues, ByMonitor

LEMMA NextTypeInv ==
  ASSUME ConsentInv, DayInv, TypeInv, [GuardNext]_guardVars
  PROVE  TypeInv'
  <1>1. VenueType
    BY DEF ConsentInv
  <1> QED BY <1>1, NextSwitchType, NextOrderType, NextMonitorType, NextSizingType DEF TypeInv

(* Every part of the state has its type: among them, that Alpaca alone has orders
   under way, that money and notionals are never negative and that the rollover's
   marker is never ahead of the day. *)
THEOREM GuardTypes == Spec => []TypeOK
  <1>1. ConsentInv /\ DayInv /\ TypeInv => TypeOK
    <2> SUFFICES ASSUME ConsentInv, DayInv, TypeInv PROVE TypeOK
      OBVIOUS
    <2>1. config \in Config /\ book \in Holdings /\ task \in [Clients -> Tasks]
      BY DEF ConsentInv, VenueType
    <2>2. chosen \subseteq ValidVenues /\ pending \subseteq Orders
      BY DEF TypeInv, OrderType
    <2>3. \A c \in Clients : task[c].venue \in ValidVenues /\ task[c].todo \subseteq Symbols
      BY <2>1 DEF Tasks
    <2>4. /\ <<kill, creds, exchange, settled>> \in BOOLEAN \X BOOLEAN \X BOOLEAN \X BOOLEAN
          /\ up \subseteq Endpoints
      BY DEF TypeInv, SwitchType
    <2>5. /\ worth \in [Accounts -> Nat] /\ base \in [Accounts -> Nat] /\ paperPnl \in Int
          /\ resetDay \in 0..day
      BY DEF TypeInv, MoneyType, DayInv
    <2>6. /\ rm.positions \subseteq Symbols /\ rm.worth \in Nat /\ rm.pnl \in Int
          /\ metrics.venue \in ValidVenues
      BY DEF TypeInv, MonitorType, Monitors
    <2>7. sn.venue \in ValidVenues /\ sn.s \in Snapshots /\ sn.decision \in Decisions
      BY DEF TypeInv, SizingType, Sizings
    <2>8. sn.s.positions \subseteq Symbols /\ sn.decision.notional \in Nat
      BY <2>7 DEF Snapshots, Decisions
    <2> QED BY <2>1, <2>2, <2>3, <2>4, <2>5, <2>6, <2>7, <2>8
            DEF TypeOK, Config, Holdings, Orders, Alpacas
  <1>2. GuardInit => ConsentInv /\ DayInv /\ TypeInv
    BY InitConsentInv, InitDayInv, InitTypeInv DEF GuardInit
  <1>3. ConsentInv /\ DayInv /\ TypeInv /\ [GuardNext]_guardVars
           => (ConsentInv /\ DayInv /\ TypeInv)'
    BY NextConsentInv, NextDayInv, NextTypeInv
  <1> QED BY <1>1, <1>2, <1>3, PTL DEF Spec


(* ------------------------------ the guards ------------------------------ *)
(* What a sweep that met no change has read is what is still there. *)
TripInv ==
    /\ rm.seen \in Nat /\ rm.seen <= changes
    /\ rm.seen = changes =>
          /\ rm.pc \in {"worth", "pnl", "publish", "enforce"} =>
                ~BrokerMissing(GetExecutionVenue)
          /\ rm.pc \in {"publish", "enforce"} => rm.pnl = GetDailyPnl(GetExecutionVenue)
    /\ GuardsTrip

(* While no change of the surroundings is counted, the venue, Alpaca's reach and
   what the accounts are worth stand still; the kill switch is only lifted by one,
   and a day's P&L only moved by one or by the rollover. *)
LEMMA StandStill ==
  ASSUME ConsentInv, SwitchType, [GuardNext]_guardVars
  PROVE  /\ creds' = creds
         /\ changes' = changes =>
               /\ UNCHANGED <<up, worth>>
               /\ kill => kill'
               /\ UNCHANGED <<base, paperPnl>> \/ (ResetBroker /\ UNCHANGED base)
  <1>1. changes \in Nat
    BY DEF ConsentInv, VenueType
  <1>2. Change => changes' # changes
    BY <1>1 DEF Change
  <1>3. CASE UpdateSettings \/ ToggleLive \/ Alpaca \/ Kill \/ Reset \/ Midnight
             \/ \E a \in ValidVenues, w \in Worths : MarketMove(a, w)
    <2>1. Change /\ creds' = creds
      BY <1>3 DEF UpdateSettings, ToggleLive, SetConfig, Alpaca, Kill, Reset, Midnight,
                  MarketMove, stable
    <2> QED BY <1>2, <2>1
  <1>4. ASSUME UNCHANGED <<creds, up, worth, base, paperPnl>>, kill => kill'
        PROVE  /\ creds' = creds
               /\ UNCHANGED <<up, worth>> /\ (kill => kill')
               /\ UNCHANGED <<base, paperPnl>>
    BY <1>4
  <1>5. CASE Blind \/ Enforce
    <2>1. UNCHANGED <<creds, up, worth, base, paperPnl>> /\ (kill => kill')
      BY <1>5 DEF Blind, Enforce, stable, money
    <2> QED BY <1>4, <2>1
  <1>6. CASE ResetBroker
    <2>1. UNCHANGED <<creds, up, worth, kill, base>>
      BY <1>6 DEF ResetBroker, venueVars, stable
    <2> QED BY <1>6, <2>1
  <1>7. CASE \/ BeginSweep \/ StampDay \/ ReadLabel \/ ReadPositions
             \/ ReadWorth \/ ReadPnl \/ Publish \/ Crash
    <2>1. UNCHANGED <<creds, up, kill, worth, base, paperPnl>>
      BY <1>7 DEF BeginSweep, StampDay, ReadLabel, ReadPositions, ReadWorth, ReadPnl, Publish,
                  Crash, Keep, venueVars, stable, money
    <2> QED BY <2>1
  <1>8. CASE \/ Tick \/ SnapshotVenue \/ SnapshotPositions \/ SnapshotWorth \/ SnapshotPnl
             \/ SnapshotStore \/ Analyze
             \/ \E g \in Signals, m \in Modes, b \in BOOLEAN : BuildDecision(g, m, b)
    <2>1. UNCHANGED <<venueVars, riskVars>>
      BY <1>8 DEF Tick, SnapshotVenue, SnapshotPositions, SnapshotWorth, SnapshotPnl,
                  Reading, SnapshotStore, Analyze, BuildDecision
    <2> QED BY <2>1 DEF venueVars, riskVars
  <1>9. CASE UNCHANGED guardVars
    BY <1>9 DEF guardVars, venueVars, riskVars
  <1>10. ByVenues => UNCHANGED <<worth, base, paperPnl>>
    BY DEF ByVenues, riskVars
  <1>11. CASE /\ ByVenues
              /\ \/ FlattenSim \/ KillSweep \/ Dispatch \/ Flatten
                 \/ \E s \in Symbols : AlpacaFills(s) \/ StopHit(s) \/ CloseTimesOut(s)
                 \/ \E s \in Symbols, side \in {"BUY", "SELL"} : Enter(s, side)
                 \/ \E c \in Clients : ReadVenue(c) \/ PlaceUnavailable(c) \/ PlaceFilled(c)
                                       \/ PlacePending(c) \/ PlaceRejected(c)
                 \/ \E s \in Symbols, ok \in BOOLEAN : Exit(s, ok) \/ ClosePosition(s, ok)
    <2>1. CASE \E c \in Clients : PlaceUnavailable(c)
      BY <1>4, <1>10, <1>11, <2>1 DEF PlaceUnavailable, stable
    <2>2. CASE \E c \in Clients : ReadVenue(c) \/ PlaceFilled(c) \/ PlacePending(c)
                                  \/ PlaceRejected(c)
      <3>1. UNCHANGED <<creds, up, kill>>
        BY <2>2 DEF ReadVenue, PlaceFilled, PlacePending, PlaceRejected, stable
      <3> QED BY <1>4, <1>10, <1>11, <3>1
    <2>3. CASE \/ FlattenSim \/ KillSweep \/ Dispatch \/ Flatten
               \/ \E s \in Symbols : AlpacaFills(s) \/ StopHit(s) \/ CloseTimesOut(s)
               \/ \E s \in Symbols, side \in {"BUY", "SELL"} : Enter(s, side)
               \/ \E s \in Symbols, ok \in BOOLEAN : Exit(s, ok) \/ ClosePosition(s, ok)
      <3>1. UNCHANGED <<creds, up, kill>>
        BY <2>3 DEF FlattenSim, KillSweep, Dispatch, Flatten, AlpacaFills, StopHit,
            CloseTimesOut, Enter, Exit, ClosePosition, stable
      <3> QED BY <1>4, <1>10, <1>11, <3>1
    <2> QED BY <1>11, <2>1, <2>2, <2>3
  <1>12. CASE ByVenues /\ \E s \in Symbols : AlpacaDrops(s)
    BY <1>4, <1>10, <1>12 DEF AlpacaDrops, stable
  <1>13. CASE \E s \in Symbols, p \in Sales : PaperSale(s, p)
    BY <1>2, <1>13 DEF PaperSale, stable
  <1> QED BY <1>3, <1>5, <1>6, <1>7, <1>8, <1>9, <1>11, <1>12, <1>13 DEF GuardNext

LEMMA InitTripInv == ASSUME GuardInit PROVE TripInv
  <1>1. rm = NoSweep /\ changes = 0
    BY DEF GuardInit, Init, RiskInit
  <1> QED BY <1>1 DEF TripInv, GuardsTrip, NoSweep

(* The steps of the sweep count no change: what they read is what is there. *)
LEMMA SweepTrip ==
  ASSUME ConsentInv, SwitchType, MonitorType, TripInv,
         \/ BeginSweep \/ StampDay \/ ResetBroker \/ ReadLabel \/ ReadPositions \/ Blind
         \/ ReadWorth \/ ReadPnl \/ Publish \/ Enforce \/ Crash
  PROVE  TripInv'
  <1> DEFINE V == GetExecutionVenue
             seen == rm.seen = changes
             near == "account" \in up \/ V = "sim"
  <1>0. rm \in Monitors /\ changes \in Nat
    BY DEF MonitorType, ConsentInv, VenueType
  <1>1. /\ UNCHANGED <<changes, config, up, creds>>
        /\ V' = V /\ BrokerMissing(V)' = BrokerMissing(V)
    <2>1. UNCHANGED <<changes, config, up, creds>>
      BY DEF BeginSweep, StampDay, ResetBroker, ReadLabel, ReadPositions, Blind, ReadWorth,
             ReadPnl, Publish, Enforce, Crash, Keep, venueVars, stable
    <2> QED BY <2>1 DEF GetExecutionVenue, BrokerMissing
  <1>2. /\ rm.seen \in Nat /\ rm.seen <= changes
        /\ seen /\ rm.pc \in {"worth", "pnl", "publish", "enforce"} => ~BrokerMissing(V)
        /\ seen /\ rm.pc \in {"publish", "enforce"} => rm.pnl = GetDailyPnl(V)
        /\ near => GetDailyPnl(V) = DayPnl(V)
    BY DEF TripInv, GetDailyPnl
  <1> HIDE DEF V
  <1>3. ASSUME rm'.seen \in Nat, rm'.seen <= changes,
               rm'.seen = changes => ~(rm'.pc \in {"worth", "pnl", "publish", "enforce",
                                                   "asleep"})
        PROVE  TripInv'
    BY <1>1, <1>3 DEF TripInv, GuardsTrip
  <1>4. CASE BeginSweep
    <2>1. rm'.seen = changes /\ rm'.pc \in {"venue", "stamp"}
      BY <1>4 DEF BeginSweep, NoSweep
    <2> QED BY <1>0, <1>3, <2>1
  <1>5. CASE StampDay \/ ResetBroker \/ ReadLabel
    <2>1. rm'.seen = rm.seen /\ rm'.pc \in {"reset", "venue", "positions"}
      BY <1>0, <1>5 DEF StampDay, ResetBroker, ReadLabel, Monitors
    <2> QED BY <1>2, <1>3, <2>1
  <1>6. CASE Crash
    <2>1. rm'.seen = 0 /\ rm'.pc = "begin"
      BY <1>6 DEF Crash, NoSweep
    <2> QED BY <1>0, <1>3, <2>1
  <1>7. CASE ReadPositions
    <2>1. rm'.seen = rm.seen /\ rm'.pc = "worth" /\ ~BrokerMissing(V)
      BY <1>0, <1>7 DEF ReadPositions, Monitors, V
    <2> QED BY <1>1, <1>2, <2>1 DEF TripInv, GuardsTrip, V
  <1>8. CASE Blind
    <2>1. rm'.seen = rm.seen /\ rm'.pc = "asleep" /\ kill' = TRUE
      BY <1>0, <1>8 DEF Blind, Monitors
    <2> QED BY <1>1, <1>2, <2>1 DEF TripInv, GuardsTrip
  <1>9. CASE ReadWorth
    <2>1. rm'.seen = rm.seen /\ (rm'.pc = "begin" \/ (rm'.pc = "pnl" /\ ~BrokerMissing(V)))
      BY <1>0, <1>9 DEF ReadWorth, Monitors, V
    <2> QED BY <1>1, <1>2, <2>1 DEF TripInv, GuardsTrip, V
  <1>10. CASE ReadPnl
    <2>1. /\ rm'.seen = rm.seen
          /\ \/ rm'.pc = "begin"
             \/ rm'.pc = "publish" /\ ~BrokerMissing(V) /\ rm'.pnl = GetDailyPnl(V)
          /\ UNCHANGED <<worth, base, paperPnl>>
      BY <1>0, <1>10 DEF ReadPnl, Monitors, Keep, money, V
    <2>2. GetDailyPnl(V)' = GetDailyPnl(V)
      BY <1>1, <2>1 DEF DayPnl, GetDailyPnl
    <2> QED BY <1>1, <1>2, <2>1, <2>2 DEF TripInv, GuardsTrip, V
  <1>11. CASE Publish
    <2>1. /\ rm'.seen = rm.seen /\ rm'.pc = "enforce" /\ rm'.pnl = rm.pnl
          /\ rm.pc = "publish" /\ UNCHANGED <<worth, base, paperPnl>>
      BY <1>0, <1>11 DEF Publish, At, Monitors, Keep, money
    <2>2. GetDailyPnl(V)' = GetDailyPnl(V)
      BY <1>1, <2>1 DEF DayPnl, GetDailyPnl
    <2> QED BY <1>1, <1>2, <2>1, <2>2 DEF TripInv, GuardsTrip, V
  <1>12. CASE Enforce
    <2>1. /\ rm'.seen = rm.seen /\ rm'.pc = "asleep" /\ rm.pc = "enforce"
          /\ kill' = (kill \/ Breach(rm.pnl)) /\ UNCHANGED <<worth, base, paperPnl>>
      BY <1>0, <1>12 DEF Enforce, At, Monitors, money
    <2>2. DayPnl(V)' = DayPnl(V) /\ near' = near
      BY <1>1, <2>1 DEF DayPnl
    <2>3. Breach(DayPnl(V))' = Breach(DayPnl(V))
      BY <2>2 DEF Breach
    <2>4. seen /\ near => ~BrokerMissing(V) /\ (Breach(DayPnl(V)) => kill')
      BY <1>2, <2>1
    <2>5. GuardsTrip'
      BY <1>1, <2>1, <2>2, <2>3, <2>4 DEF GuardsTrip, V
    <2> QED BY <1>1, <1>2, <2>1, <2>5 DEF TripInv
  <1> QED BY <1>4, <1>5, <1>6, <1>7, <1>8, <1>9, <1>10, <1>11, <1>12

LEMMA NextTripInv ==
  ASSUME ConsentInv, SwitchType, MonitorType, TripInv, [GuardNext]_guardVars
  PROVE  TripInv'
  <1>1. CASE UNCHANGED rm /\ ~ResetBroker
    <2>1. /\ changes \in Nat /\ changes' \in Nat /\ changes <= changes' /\ rm.seen \in Nat
          /\ rm.seen <= changes
      BY VenueStands DEF ConsentInv, VenueType, TripInv
    <2>2. CASE changes' = changes
      <3>1. UNCHANGED <<config, up, worth, base, paperPnl, creds>> /\ (kill => kill')
        BY <1>1, <2>2, StandStill, VenueStands
      <3>2. GetExecutionVenue' = GetExecutionVenue
        BY <3>1 DEF GetExecutionVenue
      <3>3. BrokerMissing(GetExecutionVenue)' = BrokerMissing(GetExecutionVenue)
        BY <3>1, <3>2 DEF BrokerMissing
      <3>4. DayPnl(GetExecutionVenue)' = DayPnl(GetExecutionVenue)
        BY <3>1, <3>2 DEF DayPnl
      <3>5. Breach(DayPnl(GetExecutionVenue))' = Breach(DayPnl(GetExecutionVenue))
        BY <3>4 DEF Breach
      <3>6. GetDailyPnl(GetExecutionVenue)' = GetDailyPnl(GetExecutionVenue)
        BY <3>1, <3>2, <3>4 DEF GetDailyPnl
      <3> QED BY <1>1, <2>2, <3>1, <3>2, <3>3, <3>4, <3>5, <3>6 DEF TripInv, GuardsTrip
    <2>3. CASE changes' # changes
      BY <1>1, <2>1, <2>3 DEF TripInv, GuardsTrip
    <2> QED BY <2>2, <2>3
  <1>2. CASE \/ BeginSweep \/ StampDay \/ ResetBroker \/ ReadLabel \/ ReadPositions \/ Blind
             \/ ReadWorth \/ ReadPnl \/ Publish \/ Enforce \/ Crash
    BY <1>2, SweepTrip
  <1>3. CASE \/ Midnight \/ \E a \in ValidVenues, w \in Worths : MarketMove(a, w)
             \/ \E s \in Symbols, p \in Sales : PaperSale(s, p)
    <2>1. UNCHANGED rm
      BY <1>3 DEF Midnight, MarketMove, PaperSale
    <2> QED BY <1>1, <1>2, <2>1
  <1>4. CASE ByVenues \/ UNCHANGED guardVars
    <2>1. UNCHANGED rm
      BY <1>4 DEF ByVenues, guardVars, riskVars
    <2> QED BY <1>1, <1>2, <2>1
  <1>5. CASE \/ Tick \/ SnapshotVenue \/ SnapshotPositions \/ SnapshotWorth \/ SnapshotPnl
             \/ SnapshotStore \/ Analyze
             \/ \E g \in Signals, m \in Modes, b \in BOOLEAN : BuildDecision(g, m, b)
    <2>1. UNCHANGED rm
      BY <1>5 DEF Tick, SnapshotVenue, SnapshotPositions, SnapshotWorth, SnapshotPnl,
                  Reading, SnapshotStore, Analyze, BuildDecision, riskVars
    <2> QED BY <1>1, <1>2, <2>1
  <1> QED BY <1>2, <1>3, <1>4, <1>5 DEF GuardNext

LEMMA TripAlways == Spec => [](ConsentInv /\ TypeInv /\ TripInv)
  <1>1. GuardInit => ConsentInv /\ DayInv /\ TypeInv /\ TripInv
    BY InitConsentInv, InitDayInv, InitTypeInv, InitTripInv DEF GuardInit
  <1>2. ConsentInv /\ DayInv /\ TypeInv /\ TripInv /\ [GuardNext]_guardVars
           => (ConsentInv /\ DayInv /\ TypeInv /\ TripInv)'
    BY NextConsentInv, NextDayInv, NextTypeInv, NextTripInv DEF TypeInv
  <1> QED BY <1>1, <1>2, PTL DEF Spec

(* A sweep of the risk monitor that ended without any change around it, at a venue
   whose account answers, leaves the kill switch up whenever the day's P&L is a loss at
   the limit or the venue has no broker (risk_monitor.py's sweep), for any limit, any
   sales and any restarts.  For the sim that P&L is what its sales have realised since
   the last rollover (broker.py:267-279), not what its open positions are worth. *)
THEOREM SweepsTrip == Spec => []GuardsTrip
  <1>1. TripInv => GuardsTrip
    BY DEF TripInv
  <1> QED BY <1>1, TripAlways, PTL

(* While Alpaca's account does not answer, a sweep that met no change raises no switch,
   whatever the account has lost: risk_monitor.py:154 speaks of a broker that cannot
   be read, and what cannot be read is a book without positions and a day without
   a loss (alpaca_broker.py:212 and :223 turn the error into them). *)
OutageTripsNothing ==
    [][/\ Blind \/ Enforce
       /\ rm.seen = changes /\ creds /\ "account" \notin up /\ GetExecutionVenue # "sim"
       => UNCHANGED kill]_guardVars

(* The reason UnreadableTrips does not hold: it is every sweep of an outage that
   trips nothing, for any limit, loss, symbols and venue, not only the run's. *)
THEOREM OutagesAreSilent == Spec => OutageTripsNothing
  <1>1. ASSUME TripInv, SwitchType, creds, "account" \notin up, GetExecutionVenue # "sim",
               rm.seen = changes, Blind \/ Enforce
        PROVE  UNCHANGED kill
    <2>1. Enforce
      BY <1>1 DEF Blind, BrokerMissing
    <2>2. rm.pc = "enforce" /\ kill' = (kill \/ Breach(rm.pnl))
      BY <2>1 DEF Enforce, At
    <2>3. rm.pnl = 0
      BY <1>1, <2>2 DEF TripInv, GetDailyPnl
    <2>4. ~Breach(rm.pnl)
      BY <2>3 DEF Breach
    <2> QED BY <1>1, <2>2, <2>4 DEF SwitchType
  <1>2. ConsentInv /\ TypeInv /\ TripInv /\ [GuardNext]_guardVars
           => [(Blind \/ Enforce) /\ rm.seen = changes /\ creds /\ "account" \notin up
                    /\ GetExecutionVenue # "sim" => UNCHANGED kill]_guardVars
    BY <1>1 DEF TypeInv
  <1> QED BY <1>2, TripAlways, PTL DEF Spec, OutageTripsNothing


(* A snapshot of v that nothing has changed since: its money is what v's account
   has, or the sim's day was set back to nothing in the meantime. *)
WorthIs(s, v) == s.since = changes => s.worth = GetPortfolioValue(v)
PnlIs(s, v) ==
    s.since = changes => \/ s.pnl = GetDailyPnl(v)
                         \/ v = "sim" /\ DayPnl("sim") = 0

(* What was approved fits the snapshot it was approved on. *)
FitsSnapshot ==
    LET limits == LimitsForMode(sn.mode)
        held == IF sn.symbol \in sn.s.positions THEN Weight[sn.symbol] ELSE 0
    IN sn.decision.approved =>
           /\ sn.s.worth > 0
           /\ sn.decision.notional + held <= (sn.s.worth * limits.single) \div Unit
           /\ sn.s.pnl < 0 => -sn.s.pnl * Unit < limits.daily * sn.s.worth

FitInv ==
    /\ \A v \in ValidVenues :
          /\ cache[v].since <= changes
          /\ cache[v].at >= 0 => WorthIs(cache[v], v) /\ PnlIs(cache[v], v)
    /\ sn.s.since <= changes
    /\ sn.pc \in {"pnl", "store", "decide", "merge"} => WorthIs(sn.s, sn.venue)
    /\ sn.pc \in {"store", "decide", "merge"} => PnlIs(sn.s, sn.venue)
    /\ sn.pc = "merge" => FitsSnapshot

LEMMA InitFitInv == ASSUME GuardInit PROVE FitInv
  <1>1. /\ changes = 0 /\ cache = [v \in ValidVenues |-> NoSnapshot]
        /\ sn.pc = "idle" /\ sn.s = NoSnapshot
    BY DEF GuardInit, Init, SizingInit, NotSizing
  <1>2. NoSnapshot.since = 0 /\ NoSnapshot.at = -1
    BY DEF NoSnapshot
  <1> QED BY <1>1, <1>2 DEF FitInv

(* What a snapshot says of its account stays true until a change is counted: money
   moves only with one, except that the rollover sets the sim's day to nothing. *)
LEMMA SnapshotStands ==
  ASSUME ConsentInv, SwitchType, MoneyType, [GuardNext]_guardVars,
         NEW s, s.since \in Nat, s.since <= changes, NEW v \in ValidVenues
  PROVE  /\ s.since <= changes'
         /\ WorthIs(s, v) => WorthIs(s, v)'
         /\ PnlIs(s, v) => PnlIs(s, v)'
  <1>1. changes \in Nat /\ changes' \in Nat /\ changes <= changes'
    BY VenueStands DEF ConsentInv, VenueType
  <1>2. CASE changes' # changes
    <2>1. s.since # changes' /\ s.since <= changes'
      BY <1>1, <1>2
    <2> QED BY <2>1 DEF WorthIs, PnlIs
  <1>3. CASE changes' = changes
    <2>1. UNCHANGED <<up, worth, base>> /\ (UNCHANGED paperPnl \/ ResetBroker)
      BY <1>3, StandStill
    <2>2. GetPortfolioValue(v)' = GetPortfolioValue(v)
      BY <2>1 DEF GetPortfolioValue
    <2>3. CASE UNCHANGED paperPnl
      <3>1. GetDailyPnl(v)' = GetDailyPnl(v) /\ DayPnl("sim")' = DayPnl("sim")
        BY <2>1, <2>3 DEF GetDailyPnl, DayPnl
      <3> QED BY <1>3, <2>2, <3>1 DEF WorthIs, PnlIs
    <2>4. CASE ResetBroker
      <3>1. paperPnl' = 0
        BY <2>4 DEF ResetBroker
      <3>2. DayPnl("sim")' = 0
        BY <3>1 DEF DayPnl
      <3>3. v # "sim" => GetDailyPnl(v)' = GetDailyPnl(v)
        BY <2>1 DEF GetDailyPnl, DayPnl
      <3> QED BY <1>3, <2>2, <3>2, <3>3 DEF WorthIs, PnlIs
    <2> QED BY <2>1, <2>3, <2>4
  <1> QED BY <1>2, <1>3

LEMMA CacheStands ==
  ASSUME ConsentInv, TypeInv, FitInv, [GuardNext]_guardVars, NEW v \in ValidVenues
  PROVE  /\ cache[v].since <= changes'
         /\ cache[v].at >= 0 =>
               \A s : s = cache[v] => WorthIs(s, v)' /\ PnlIs(s, v)'
  <1>1. PICK s : s = cache[v]
    OBVIOUS
  <1>2. s.since \in Nat /\ s.since <= changes
    BY <1>1 DEF TypeInv, SizingType, Snapshots, FitInv
  <1>3. s.at >= 0 => WorthIs(s, v) /\ PnlIs(s, v)
    BY <1>1 DEF FitInv
  <1> QED BY <1>1, <1>2, <1>3, SnapshotStands DEF TypeInv

LEMMA SizingStands ==
  ASSUME ConsentInv, TypeInv, FitInv, [GuardNext]_guardVars
  PROVE  /\ sn.s.since <= changes'
         /\ sn.pc \in {"pnl", "store", "decide", "merge"} =>
               \A s, v : s = sn.s /\ v = sn.venue => WorthIs(s, v)'
         /\ sn.pc \in {"store", "decide", "merge"} =>
               \A s, v : s = sn.s /\ v = sn.venue => PnlIs(s, v)'
  <1>1. PICK s, v : s = sn.s /\ v = sn.venue
    OBVIOUS
  <1>2. s.since \in Nat /\ s.since <= changes /\ v \in ValidVenues
    BY <1>1 DEF TypeInv, SizingType, Sizings, Snapshots, FitInv
  <1>3. /\ sn.pc \in {"pnl", "store", "decide", "merge"} => WorthIs(s, v)
        /\ sn.pc \in {"store", "decide", "merge"} => PnlIs(s, v)
    BY <1>1 DEF FitInv
  <1> QED BY <1>1, <1>2, <1>3, SnapshotStands DEF TypeInv

(* What a step of the constructor has to respect. *)
LEMMA FitStep ==
  ASSUME ConsentInv, TypeInv, FitInv, [GuardNext]_guardVars, UNCHANGED cache,
         NEW s, sn'.s = s, s.since <= changes', NEW v, sn'.venue = v,
         sn'.pc \in {"pnl", "store", "decide", "merge"} => WorthIs(s, v)',
         sn'.pc \in {"store", "decide", "merge"} => PnlIs(s, v)',
         sn'.pc = "merge" => FitsSnapshot'
  PROVE  FitInv'
  <1>1. ASSUME NEW w \in ValidVenues
        PROVE  /\ cache'[w].since <= changes'
               /\ cache'[w].at >= 0 => WorthIs(cache[w], w)' /\ PnlIs(cache[w], w)'
    <2>1. PICK c : c = cache[w] /\ c = cache'[w]
      OBVIOUS
    <2>2. c.since <= changes' /\ (c.at >= 0 => WorthIs(c, w)' /\ PnlIs(c, w)')
      BY <2>1, CacheStands
    <2> QED BY <2>1, <2>2 DEF WorthIs, PnlIs
  <1>2. /\ sn'.pc \in {"pnl", "store", "decide", "merge"} => WorthIs(sn.s, sn.venue)'
        /\ sn'.pc \in {"store", "decide", "merge"} => PnlIs(sn.s, sn.venue)'
    BY DEF WorthIs, PnlIs
  <1> QED BY <1>1, <1>2 DEF FitInv

LEMMA NextFitInv ==
  ASSUME ConsentInv, TypeInv, SnapshotInv, FitInv, [GuardNext]_guardVars
  PROVE  FitInv'
  <1> DEFINE V == GetExecutionVenue
  <1>0. /\ V \in ValidVenues /\ sn \in Sizings /\ sn.s \in Snapshots /\ changes \in Nat
        /\ sn.venue \in ValidVenues /\ cache \in [ValidVenues -> Snapshots]
        /\ NoSnapshot.since = 0
    BY VenueIsValid DEF ConsentInv, VenueType, TypeInv, SizingType, Sizings, NoSnapshot
  <1>1. CASE UNCHANGED <<cache, sn>>
    <2>1. PICK s, v : s = sn.s /\ v = sn.venue
      OBVIOUS
    <2>2. sn.pc = "merge" => FitsSnapshot'
      BY <1>1 DEF FitInv, FitsSnapshot
    <2> QED BY <1>1, <2>1, <2>2, SizingStands, FitStep
  <1>2. CASE sizingVars' = sizingVars \/ Tick
    BY <1>1, <1>2 DEF sizingVars, Tick
  <1>3. ASSUME UNCHANGED cache, sn'.s = NoSnapshot, sn'.pc \in {"idle", "venue"}
        PROVE  FitInv'
    <2>1. PICK v : v = sn'.venue
      OBVIOUS
    <2>2. changes' \in Nat
      BY VenueStands
    <2>3. NoSnapshot.since <= changes'
      BY <1>0, <2>2
    <2> QED BY <1>3, <2>1, <2>3, FitStep
  <1>4. CASE Analyze
    BY <1>3, <1>4 DEF Analyze, NotSizing
  <1>5. CASE SnapshotVenue
    <2> DEFINE fresh == [NoSnapshot EXCEPT !.at = clock, !.since = changes]
               hit == cache[V].at >= 0 /\ clock - cache[V].at < CacheTtl
    <2>1. PICK v, s, p : /\ v = V
                         /\ s = IF hit THEN cache[V] ELSE fresh
                         /\ p = IF hit THEN "decide" ELSE "positions"
      OBVIOUS
    <2>2. /\ sn' = [sn EXCEPT !.venue = v, !.got = clock, !.pc = p, !.s = s]
          /\ UNCHANGED <<cache, changes>>
      BY <1>5, <2>1 DEF SnapshotVenue, venueVars
    <2>3. sn'.s = s /\ sn'.venue = v /\ sn'.pc = p
      BY <1>0, <2>2 DEF Sizings
    <2>4. fresh.since = changes
      BY DEF NoSnapshot
    <2> HIDE DEF fresh, hit, V
    <2>5. CASE hit
      <3>1. s = cache[v] /\ p = "decide" /\ cache[v].at >= 0 /\ v \in ValidVenues
        BY <1>0, <2>1, <2>5 DEF hit
      <3>2. s.since <= changes' /\ WorthIs(s, v)' /\ PnlIs(s, v)'
        BY <3>1, CacheStands
      <3> QED BY <2>2, <2>3, <3>1, <3>2, FitStep
    <2>6. CASE ~hit
      <3>1. s.since <= changes' /\ p = "positions"
        BY <1>0, <2>1, <2>2, <2>4, <2>6
      <3> QED BY <2>2, <2>3, <3>1, FitStep
    <2> QED BY <2>5, <2>6
  <1>6. CASE SnapshotPositions \/ SnapshotWorth \/ SnapshotPnl
    <2>1. /\ UNCHANGED <<cache, changes, up, worth, base, paperPnl, config>>
          /\ sn.pc \in {"positions", "worth", "pnl"}
      BY <1>6 DEF SnapshotPositions, SnapshotWorth, SnapshotPnl, Reading, venueVars, riskVars
    <2>2. /\ GetPortfolioValue(V)' = GetPortfolioValue(V)
          /\ GetDailyPnl(V)' = GetDailyPnl(V)
      <3>1. V' = V
        BY <2>1 DEF GetExecutionVenue
      <3> QED BY <2>1, <3>1 DEF GetPortfolioValue, GetDailyPnl, DayPnl
    <2>3. sn.s.since <= changes' /\ (sn.s.since = changes => V = sn.venue)
      BY <2>1 DEF FitInv, SnapshotInv, Working, Taken
    <2>4. CASE BrokerMissing(V)
      <3>1. sn' = [NotSizing EXCEPT !.decision = Rejected("broker_unavailable")]
        BY <1>6, <2>4 DEF SnapshotPositions, SnapshotWorth, SnapshotPnl, Reading
      <3> QED BY <1>3, <2>1, <3>1 DEF NotSizing
    <2>5. ASSUME NEW r \in Snapshots, NEW p \in {"worth", "pnl", "store"},
                 sn' = [sn EXCEPT !.pc = p, !.s = [r EXCEPT !.from = @ \cup {V}]]
          PROVE  /\ sn'.venue = sn.venue /\ sn'.pc = p
                 /\ sn'.s.since = r.since /\ sn'.s.worth = r.worth /\ sn'.s.pnl = r.pnl
      <3>1. PICK s : s = [r EXCEPT !.from = @ \cup {V}]
        OBVIOUS
      <3>2. s.since = r.since /\ s.worth = r.worth /\ s.pnl = r.pnl
        BY <3>1 DEF Snapshots
      <3>3. sn'.s = s /\ sn'.venue = sn.venue /\ sn'.pc = p
        BY <1>0, <2>5, <3>1 DEF Sizings
      <3> QED BY <3>2, <3>3
    <2>6. CASE ~BrokerMissing(V) /\ SnapshotPositions
      <3>1. PICK r : r = [sn.s EXCEPT !.positions = GetPositions(V), !.seen = clock]
        OBVIOUS
      <3>2. sn' = [sn EXCEPT !.pc = "worth", !.s = [r EXCEPT !.from = @ \cup {V}]]
        BY <2>6, <3>1 DEF SnapshotPositions, Reading
      <3>3. r \in Snapshots /\ r.since = sn.s.since
        <4>1. GetPositions(V) \in SUBSET Symbols /\ clock \in Nat
          BY <1>0, ReadingTypes DEF TypeInv, ConsentInv, SizingType
        <4> QED BY <1>0, <3>1, <4>1 DEF Snapshots
      <3>4. /\ sn'.venue = sn.venue /\ sn'.pc = "worth"
            /\ sn'.s.since = r.since /\ sn'.s.worth = r.worth /\ sn'.s.pnl = r.pnl
        BY ONLY <2>5, <3>2, <3>3
      <3>5. PICK s, v : s = sn'.s /\ v = sn'.venue
        OBVIOUS
      <3> QED BY <2>1, <2>3, <3>3, <3>4, <3>5, FitStep
    <2>7. CASE ~BrokerMissing(V) /\ SnapshotWorth
      <3>1. PICK r : r = [sn.s EXCEPT !.worth = GetPortfolioValue(V)]
        OBVIOUS
      <3>2. sn' = [sn EXCEPT !.pc = "pnl", !.s = [r EXCEPT !.from = @ \cup {V}]]
        BY <2>7, <3>1 DEF SnapshotWorth, Reading
      <3>3. r \in Snapshots /\ r.since = sn.s.since /\ r.worth = GetPortfolioValue(V)
        <4>1. GetPortfolioValue(V) \in Nat
          BY <1>0, ReadingTypes DEF TypeInv, ConsentInv
        <4> QED BY <1>0, <3>1, <4>1 DEF Snapshots
      <3>4. /\ sn'.venue = sn.venue /\ sn'.pc = "pnl"
            /\ sn'.s.since = r.since /\ sn'.s.worth = r.worth /\ sn'.s.pnl = r.pnl
        BY ONLY <2>5, <3>2, <3>3
      <3>5. PICK s, v : s = sn'.s /\ v = sn'.venue
        OBVIOUS
      <3>6. WorthIs(s, v)'
        BY <2>1, <2>2, <2>3, <3>3, <3>4, <3>5 DEF WorthIs, GetPortfolioValue
      <3> QED BY <2>1, <2>3, <3>3, <3>4, <3>5, <3>6, FitStep
    <2>8. CASE ~BrokerMissing(V) /\ SnapshotPnl
      <3>1. PICK r : r = [sn.s EXCEPT !.pnl = GetDailyPnl(V)]
        OBVIOUS
      <3>2. /\ sn' = [sn EXCEPT !.pc = "store", !.s = [r EXCEPT !.from = @ \cup {V}]]
            /\ sn.pc = "pnl"
        BY <2>8, <3>1 DEF SnapshotPnl, Reading
      <3>3. /\ r \in Snapshots /\ r.since = sn.s.since /\ r.worth = sn.s.worth
            /\ r.pnl = GetDailyPnl(V)
        <4>1. GetDailyPnl(V) \in Int
          BY <1>0, ReadingTypes DEF TypeInv, ConsentInv
        <4> QED BY <1>0, <3>1, <4>1 DEF Snapshots
      <3>4. /\ sn'.venue = sn.venue /\ sn'.pc = "store"
            /\ sn'.s.since = r.since /\ sn'.s.worth = r.worth /\ sn'.s.pnl = r.pnl
        BY ONLY <2>5, <3>2, <3>3
      <3>5. PICK s, v : s = sn'.s /\ v = sn'.venue
        OBVIOUS
      <3>6. PnlIs(s, v)'
        BY <2>1, <2>2, <2>3, <3>3, <3>4, <3>5 DEF PnlIs, GetDailyPnl, DayPnl
      <3>7. WorthIs(s, v)'
        <4>1. WorthIs(sn.s, sn.venue)
          BY <3>2 DEF FitInv
        <4> QED BY <2>1, <3>3, <3>4, <3>5, <4>1 DEF WorthIs, GetPortfolioValue
      <3> QED BY <2>1, <2>3, <3>3, <3>4, <3>5, <3>6, <3>7, FitStep
    <2> QED BY <1>6, <2>4, <2>6, <2>7, <2>8
  <1>7. CASE SnapshotStore
    <2>1. PICK s, v : s = [sn.s EXCEPT !.until = changes] /\ v = sn.venue
      OBVIOUS
    <2>2. /\ sn' = [sn EXCEPT !.s = s, !.pc = "decide"] /\ sn.pc = "store"
          /\ cache' = [cache EXCEPT ![v] = s]
      BY <1>7, <2>1 DEF SnapshotStore
    <2>3. s.since = sn.s.since /\ s.worth = sn.s.worth /\ s.pnl = sn.s.pnl
      BY <1>0, <2>1 DEF Snapshots
    <2>4. sn'.s = s /\ sn'.venue = v /\ sn'.pc = "decide"
      BY <1>0, <2>1, <2>2 DEF Sizings
    <2>5. s.since <= changes' /\ WorthIs(s, v)' /\ PnlIs(s, v)'
      <3>1. PICK r : r = sn.s
        OBVIOUS
      <3>2. r.since <= changes' /\ WorthIs(r, v)' /\ PnlIs(r, v)'
        BY <2>1, <2>2, <3>1, SizingStands
      <3> QED BY <2>3, <3>1, <3>2 DEF WorthIs, PnlIs
    <2>6. ASSUME NEW w \in ValidVenues
          PROVE  /\ cache'[w].since <= changes'
                 /\ cache'[w].at >= 0 => WorthIs(cache[w], w)' /\ PnlIs(cache[w], w)'
      <3>1. PICK c : c = cache'[w]
        OBVIOUS
      <3>2. c.since <= changes' /\ (c.at >= 0 => WorthIs(c, w)' /\ PnlIs(c, w)')
        <4>1. CASE w = v
          BY <1>0, <2>1, <2>2, <2>5, <3>1, <4>1
        <4>2. CASE w # v
          <5>1. c = cache[w]
            BY <1>0, <2>2, <3>1, <4>2
          <5> QED BY <5>1, CacheStands
        <4> QED BY <4>1, <4>2
      <3> QED BY <3>1, <3>2 DEF WorthIs, PnlIs
    <2>7. WorthIs(sn.s, sn.venue)' /\ PnlIs(sn.s, sn.venue)'
      BY <2>4, <2>5 DEF WorthIs, PnlIs
    <2> QED BY <2>4, <2>5, <2>6, <2>7 DEF FitInv
  <1>8. CASE \E g \in Signals, m \in Modes, b \in BOOLEAN : BuildDecision(g, m, b)
    <2>1. /\ sn.pc = "decide" /\ UNCHANGED cache
          /\ sn'.pc = "merge" /\ sn'.s = sn.s /\ sn'.venue = sn.venue
      BY <1>8, BuildDecisionType DEF TypeInv
    <2>2. FitsSnapshot'
      BY <1>8, BuildDecisionType DEF TypeInv, FitsSnapshot
    <2>3. PICK s, v : s = sn.s /\ v = sn.venue
      OBVIOUS
    <2> QED BY <2>1, <2>2, <2>3, SizingStands, FitStep
  <1> QED BY <1>2, <1>4, <1>5, <1>6, <1>7, <1>8 DEF GuardNext, ByVenues, ByMonitor, guardVars

(* What the constructor approves fits the account as long as nothing changed since its
   snapshot (portfolio_constructor.py's _build_decision and portfolio_snapshot.py): the
   symbol within the mode's cap, if the snapshot names the positions held, an account
   that can be read, and its P&L, as the venue counts it, within the day's cap, for any
   table of limits, any signals and any prices, volatilities and volumes. *)
THEOREM ApprovalsFit == Spec => []ApprovedFits
  <1>1. TypeInv /\ FitInv => ApprovedFits
    <2> SUFFICES ASSUME TypeInv, FitInv, sn.pc = "merge", sn.decision.approved,
                        sn.s.since = changes
                 PROVE  LET limits == LimitsForMode(sn.mode)
                            held == IF sn.symbol \in sn.s.positions
                                    THEN Weight[sn.symbol] ELSE 0
                        IN /\ sn.venue = "sim" \/ "account" \in up
                           /\ sn.decision.notional + held
                                 <= (worth[sn.venue] * limits.single) \div Unit
                           /\ DayPnl(sn.venue) < 0 =>
                                 -DayPnl(sn.venue) * Unit < limits.daily * worth[sn.venue]
      BY DEF ApprovedFits
    <2>1. /\ sn.s.worth > 0 /\ sn.s.worth = GetPortfolioValue(sn.venue)
          /\ \/ sn.s.pnl = GetDailyPnl(sn.venue)
             \/ sn.venue = "sim" /\ DayPnl("sim") = 0
      BY DEF FitInv, FitsSnapshot, WorthIs, PnlIs
    <2>2. (sn.venue = "sim" \/ "account" \in up) /\ sn.s.worth = worth[sn.venue]
      BY <2>1 DEF GetPortfolioValue
    <2>3. DayPnl(sn.venue) < 0 => sn.s.pnl = DayPnl(sn.venue)
      BY <2>1, <2>2 DEF GetDailyPnl
    <2> QED BY <2>2, <2>3 DEF FitInv, FitsSnapshot
  <1>2. GuardInit => ConsentInv /\ DayInv /\ TypeInv /\ SnapshotInv /\ FitInv
    BY InitConsentInv, InitDayInv, InitTypeInv, InitSnapshotInv, InitFitInv DEF GuardInit
  <1>3. ConsentInv /\ DayInv /\ TypeInv /\ SnapshotInv /\ FitInv /\ [GuardNext]_guardVars
           => (ConsentInv /\ DayInv /\ TypeInv /\ SnapshotInv /\ FitInv)'
    BY NextConsentInv, NextDayInv, NextTypeInv, NextSnapshotInv, NextFitInv
  <1> QED BY <1>1, <1>2, <1>3, PTL DEF Spec
=============================================================================
