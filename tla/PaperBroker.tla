---------------------------- MODULE PaperBroker ----------------------------
(***************************************************************************)
(* The simulated broker of src/execution/broker.py.  Its whole state lives *)
(* in Redis and is shared by the API server, the monitors and the trading  *)
(* loops; every call is a sequence of awaited Redis commands, so the calls *)
(* of several clients interleave between any two of them.  One action below *)
(* is one command (with the computation that follows it up to the next     *)
(* await); pc[c] names the command client c issues next and call[c] holds  *)
(* the Python locals of its call.                                          *)
(***************************************************************************)
EXTENDS Fills, Sequences, SequencesExt

CONSTANTS Clients,
          Traffic,          \* how the clients may call, one choice a behaviour
          OrdersCap,        \* _ORDERS_CAP
          Seeded,           \* the three keys were seeded before the run
          MaxCalls,         \* bound: calls made in a behaviour
          MaxAborts         \* bound: calls cut short by a crash or Redis error

Habits == {"free", "serial", "careful"}

ASSUME BrokerAssumption ==
    /\ Traffic \subseteq [habit : Habits, reach : [Clients -> SUBSET Symbols]]
    /\ OrdersCap \in Nat \ {0}
    /\ Seeded \in BOOLEAN
    /\ MaxCalls \in Nat
    /\ MaxAborts \in Nat

VARIABLES
    initialized,   \* paper:initialized
    cash,          \* paper:cash; an absent key reads as InitialCash
    positions,     \* paper:positions, a hash keyed by symbol
    dailyPnl,      \* paper:daily_pnl; an absent key reads as 0
    tradeCount,    \* paper:trade_count
    orders,        \* paper:orders, newest first
    trades,        \* stream:trades
    nextId,        \* next call; also its fresh order and trade id (uuid4)
    aborts,        \* calls cut short so far
    traffic,       \* the callers' habit in this behaviour; never changes
    pc, call

ledger == <<cash, positions, dailyPnl>>
journal == <<tradeCount, orders, trades>>
vars == <<initialized, cash, positions, dailyPnl, tradeCount, orders, trades,
          nextId, aborts, traffic, pc, call>>

NoSymbol == "none"
NoCall == [op |-> "NONE", symbol |-> NoSymbol, qty |-> 0, fill |-> 0, id |-> 0,
           cash |-> 0, pnl |-> 0, pos |-> NoPosition,
           book |-> [s \in Symbols |-> NoPosition], left |-> {}]

Goto(c, label) == pc' = [pc EXCEPT ![c] = label]
Return(c) == /\ Goto(c, "idle")
             /\ call' = [call EXCEPT ![c] = NoCall]

Init ==
    /\ initialized = Seeded
    /\ cash = InitialCash
    /\ positions = [s \in Symbols |-> NoPosition]
    /\ dailyPnl = 0
    /\ tradeCount = 0
    /\ orders = <<>>
    /\ trades = <<>>
    /\ nextId = 1
    /\ aborts = 0
    /\ traffic \in Traffic
    /\ pc = [c \in Clients |-> "idle"]
    /\ call = [c \in Clients |-> NoCall]

-----------------------------------------------------------------------------
(* Faulty variants, used only by the mutation runs. *)

DebitCashNoCommission(c) ==
    /\ pc[c] = "setCash" /\ call[c].op = "BUY"
    /\ cash' = call[c].cash - call[c].fill * call[c].qty
    /\ Goto(c, "setPosition")
    /\ UNCHANGED <<initialized, positions, dailyPnl, journal, nextId, aborts, traffic, call>>

SellKeepsPosition(c) ==
    /\ pc[c] = "deletePosition"
    /\ Goto(c, "pushOrder")
    /\ UNCHANGED <<initialized, ledger, journal, nextId, aborts, traffic, call>>

FlattenForgetsCash(c) ==
    /\ pc[c] = "flatten"
    /\ call[c].left = {}
    /\ Return(c)
    /\ UNCHANGED <<initialized, ledger, journal, nextId, aborts, traffic>>

-----------------------------------------------------------------------------
(* Calls a client makes.  The broker enforces no discipline; a habit is what
   one kind of caller keeps of its own.  "serial": one call at a time, as a
   script or a quiet system would.  "careful": that, and like Atlas and the
   position monitor a BUY only of a symbol that is not held and a SELL only of
   the whole position, with no flatten and no reset.  "free": calls overlap.
   The reach of a client is the symbols it trades: clients kept apart are the
   gathered cycles of a trading loop, or the gathered checks of a sweep. *)

Quiescent == \A c \in Clients : pc[c] = "idle"

KeptApart == \A c, d \in Clients : c # d => traffic.reach[c] \cap traffic.reach[d] = {}

Careful(locals) ==
    /\ locals.op # "FLATTEN"
    /\ locals.op = "BUY" => ~Held(positions, locals.symbol)
    /\ locals.op = "SELL" => /\ Held(positions, locals.symbol)
                             /\ locals.qty = positions[locals.symbol].qty

Disciplined(c, locals) ==
    /\ traffic.habit # "free" => Quiescent
    /\ traffic.habit = "careful" => Careful(locals)
    /\ IF locals.op = "FLATTEN" THEN ~KeptApart ELSE locals.symbol \in traffic.reach[c]

Begin(c, label, locals) ==
    /\ pc[c] = "idle"
    /\ Disciplined(c, locals)
    /\ nextId <= MaxCalls
    /\ nextId' = nextId + 1
    /\ call' = [call EXCEPT ![c] = locals]
    /\ Goto(c, label)
    /\ UNCHANGED <<initialized, ledger, journal, aborts, traffic>>

(* submit_order on a path that ends in _paper_fill.  A quantity of zero is
   answered with REJECTED before any command is sent to Redis. *)
Submit(c, side, s, q, price) ==
    /\ q > 0
    /\ Begin(c, "ensureInit",
             [NoCall EXCEPT !.op = side, !.symbol = s, !.qty = q,
                            !.fill = FillPrice(side, price), !.id = nextId])

(* flatten_all with no price map: every position closes at its avg_price. *)
FlattenAll(c) ==
    Begin(c, "ensureInit", [NoCall EXCEPT !.op = "FLATTEN"])

(* update_position_field(symbol, "trailing_stop", avg_price): hget, then hset
   of the whole JSON document. *)
TrailingRead(c, s) ==
    /\ Held(positions, s)
    /\ Begin(c, "trailingWrite",
             [NoCall EXCEPT !.op = "TRAIL", !.symbol = s, !.pos = positions[s]])

TrailingWrite(c) ==
    /\ pc[c] = "trailingWrite"
    /\ positions' = [positions EXCEPT ![call[c].symbol] =
                        [call[c].pos EXCEPT !.trailing = TRUE]]
    /\ Return(c)
    /\ UNCHANGED <<initialized, cash, dailyPnl, journal, nextId, aborts, traffic>>

(* reset_daily_pnl: one SET, issued by the risk monitor at UTC midnight. *)
ResetDailyPnl(c) ==
    /\ pc[c] = "idle"
    /\ traffic.habit = "serial" => Quiescent
    /\ traffic.habit # "careful"
    /\ dailyPnl' = 0
    /\ UNCHANGED <<initialized, cash, positions, journal, nextId, aborts, traffic, pc, call>>

-----------------------------------------------------------------------------
(* _ensure_initialized, the first thing get_cash does. *)

EnsureInitialized(c) ==
    /\ pc[c] = "ensureInit"
    /\ initialized' = TRUE                        \* SET ... NX
    /\ Goto(c, IF initialized THEN "readCash" ELSE "seedCash")
    /\ UNCHANGED <<ledger, journal, nextId, aborts, traffic, call>>

SeedCash(c) ==
    /\ pc[c] = "seedCash"
    /\ cash' = InitialCash
    /\ Goto(c, "seedPnl")
    /\ UNCHANGED <<initialized, positions, dailyPnl, journal, nextId, aborts, traffic, call>>

SeedPnl(c) ==
    /\ pc[c] = "seedPnl"
    /\ dailyPnl' = 0
    /\ Goto(c, "seedCount")
    /\ UNCHANGED <<initialized, cash, positions, journal, nextId, aborts, traffic, call>>

SeedCount(c) ==
    /\ pc[c] = "seedCount"
    /\ tradeCount' = 0
    /\ Goto(c, "readCash")
    /\ UNCHANGED <<initialized, ledger, orders, trades, nextId, aborts, traffic, call>>

(* get_cash; the BUY branch sizes against the value just read. *)
ReadCash(c) ==
    /\ pc[c] = "readCash"
    /\ call' = [call EXCEPT ![c].cash = cash,
                  ![c].qty = IF call[c].op = "BUY"
                             THEN BuyQuantity(cash, call[c].fill, @) ELSE @]
    /\ Goto(c, CASE call[c].op = "BUY"  -> "setCash"
                 [] call[c].op = "SELL" -> "readPosition"
                 [] OTHER               -> "readPositions")
    /\ UNCHANGED <<initialized, ledger, journal, nextId, aborts, traffic>>

-----------------------------------------------------------------------------
(* The BUY branch: debit, then overwrite the symbol's position. *)

DebitCash(c) ==
    /\ pc[c] = "setCash" /\ call[c].op = "BUY"
    /\ cash' = call[c].cash - Cost(call[c].fill, call[c].qty)
    /\ Goto(c, "setPosition")
    /\ UNCHANGED <<initialized, positions, dailyPnl, journal, nextId, aborts, traffic, call>>

SetPosition(c) ==
    /\ pc[c] = "setPosition"
    /\ positions' = [positions EXCEPT ![call[c].symbol] =
                       [qty |-> call[c].qty, avg |-> call[c].fill,
                        trade_id |-> call[c].id, trailing |-> FALSE]]
    /\ Goto(c, "pushOrder")
    /\ UNCHANGED <<initialized, cash, dailyPnl, journal, nextId, aborts, traffic, call>>

(* The SELL branch: the position is looked up for its entry price only; the
   credit, the P&L and the delete follow whether or not it was found. *)

ReadPosition(c) ==
    /\ pc[c] = "readPosition"
    /\ call' = [call EXCEPT ![c].pos = positions[call[c].symbol]]
    /\ Goto(c, "setCash")
    /\ UNCHANGED <<initialized, ledger, journal, nextId, aborts, traffic>>

CreditCash(c) ==
    /\ pc[c] = "setCash" /\ call[c].op = "SELL"
    /\ cash' = call[c].cash + Proceeds(call[c].fill, call[c].qty)
    /\ Goto(c, "readPnl")
    /\ UNCHANGED <<initialized, positions, dailyPnl, journal, nextId, aborts, traffic, call>>

ReadPnl(c) ==
    /\ pc[c] = "readPnl"
    /\ call' = [call EXCEPT ![c].pnl = dailyPnl]
    /\ Goto(c, "setPnl")
    /\ UNCHANGED <<initialized, ledger, journal, nextId, aborts, traffic>>

SetPnl(c) ==
    /\ pc[c] = "setPnl"
    /\ dailyPnl' = call[c].pnl + RealisedPnl(call[c].pos, call[c].fill, call[c].qty)
    /\ Goto(c, "deletePosition")
    /\ UNCHANGED <<initialized, cash, positions, journal, nextId, aborts, traffic, call>>

DeletePosition(c) ==
    /\ pc[c] = "deletePosition"
    /\ positions' = [positions EXCEPT ![call[c].symbol] = NoPosition]
    /\ Goto(c, "pushOrder")
    /\ UNCHANGED <<initialized, cash, dailyPnl, journal, nextId, aborts, traffic, call>>

(* The common tail of a fill: the order list (capped), the counter, the
   trade event. *)

Filled(c) == [op |-> call[c].op, symbol |-> call[c].symbol,
              qty |-> call[c].qty, fill |-> call[c].fill, id |-> call[c].id]

PushOrder(c) ==
    /\ pc[c] = "pushOrder"
    /\ LET all == <<Filled(c)>> \o orders
       IN orders' = IF Len(all) > OrdersCap THEN SubSeq(all, 1, OrdersCap) ELSE all
    /\ Goto(c, "incrCount")
    /\ UNCHANGED <<initialized, ledger, tradeCount, trades, nextId, aborts, traffic, call>>

IncrTradeCount(c) ==
    /\ pc[c] = "incrCount"
    /\ tradeCount' = tradeCount + 1
    /\ Goto(c, "produceTrade")
    /\ UNCHANGED <<initialized, ledger, orders, trades, nextId, aborts, traffic, call>>

ProduceTrade(c) ==
    /\ pc[c] = "produceTrade"
    /\ trades' = Append(trades, Filled(c))
    /\ Return(c)
    /\ UNCHANGED <<initialized, ledger, tradeCount, orders, nextId, aborts, traffic>>

-----------------------------------------------------------------------------
(* flatten_all after get_cash: one snapshot, one delete per position in it,
   one write of the accumulated cash. *)

ReadPositions(c) ==
    /\ pc[c] = "readPositions"
    /\ call' = [call EXCEPT ![c].book = positions,
                            ![c].left = HeldIn(positions)]
    /\ Goto(c, "flatten")
    /\ UNCHANGED <<initialized, ledger, journal, nextId, aborts, traffic>>

FlattenOne(c, s) ==
    /\ pc[c] = "flatten"
    /\ s \in call[c].left
    /\ positions' = [positions EXCEPT ![s] = NoPosition]
    /\ call' = [call EXCEPT ![c].cash = @ + Proceeds(call[c].book[s].avg,
                                                     call[c].book[s].qty),
                            ![c].left = @ \ {s}]
    /\ UNCHANGED <<initialized, cash, dailyPnl, journal, nextId, aborts, traffic, pc>>

FlattenCredit(c) ==
    /\ pc[c] = "flatten"
    /\ call[c].left = {}
    /\ cash' = call[c].cash
    /\ Return(c)
    /\ UNCHANGED <<initialized, positions, dailyPnl, journal, nextId, aborts, traffic>>

-----------------------------------------------------------------------------
(* A call that never reaches its next command: the process dies, the task is
   cancelled, or the Redis client raises.  Nothing is rolled back. *)
Abort(c) ==
    /\ pc[c] # "idle"
    /\ aborts < MaxAborts
    /\ aborts' = aborts + 1
    /\ Return(c)
    /\ UNCHANGED <<initialized, ledger, journal, nextId, traffic>>

Invoke(c) ==
    \/ \E side \in Sides, s \in Symbols, q \in Quantities, p \in Prices :
          Submit(c, side, s, q, p)
    \/ FlattenAll(c)
    \/ \E s \in Symbols : TrailingRead(c, s)
    \/ ResetDailyPnl(c)

Proceed(c) ==
    \/ EnsureInitialized(c) \/ SeedCash(c) \/ SeedPnl(c) \/ SeedCount(c)
    \/ ReadCash(c)
    \/ DebitCash(c) \/ SetPosition(c)
    \/ ReadPosition(c) \/ CreditCash(c) \/ ReadPnl(c) \/ SetPnl(c) \/ DeletePosition(c)
    \/ PushOrder(c) \/ IncrTradeCount(c) \/ ProduceTrade(c)
    \/ ReadPositions(c) \/ (\E s \in Symbols : FlattenOne(c, s)) \/ FlattenCredit(c)
    \/ TrailingWrite(c)

Next == \E c \in Clients : Invoke(c) \/ Proceed(c) \/ Abort(c)

Spec == Init /\ [][Next]_vars

-----------------------------------------------------------------------------
Labels == {"idle", "ensureInit", "seedCash", "seedPnl", "seedCount", "readCash",
           "setCash", "setPosition", "readPosition", "readPnl", "setPnl",
           "deletePosition", "pushOrder", "incrCount", "produceTrade",
           "readPositions", "flatten", "trailingWrite"}
Fill == [op : Sides, symbol : Symbols, qty : Nat, fill : Nat, id : Nat]
Call == [op : Sides \cup {"NONE", "FLATTEN", "TRAIL"},
         symbol : Symbols \cup {NoSymbol}, qty : Nat, fill : Nat, id : Nat,
         cash : Nat, pnl : Int, pos : Position,
         book : [Symbols -> Position], left : SUBSET Symbols]

(* Every key holds a value of the type its readers parse it as; the cash, the
   quantities and the prices are never negative. *)
TypeOK ==
    /\ initialized \in BOOLEAN
    /\ cash \in Nat
    /\ positions \in [Symbols -> Position]
    /\ dailyPnl \in Int
    /\ tradeCount \in Nat
    /\ orders \in Seq(Fill)
    /\ trades \in Seq(Fill)
    /\ nextId \in Nat \ {0}
    /\ aborts \in Nat
    /\ traffic \in Traffic
    /\ pc \in [Clients -> Labels]
    /\ call \in [Clients -> Call]

(* Where a call stands determines what its locals hold; in particular a BUY
   about to debit was sized to fit the balance it read. *)
FillLabels == {"setCash", "setPosition", "readPosition", "readPnl", "setPnl",
               "deletePosition", "pushOrder", "incrCount", "produceTrade"}
CallOK(c) ==
    /\ pc[c] \in FillLabels => call[c].op \in Sides
    /\ pc[c] = "readPosition" => call[c].op = "SELL"
    /\ pc[c] = "trailingWrite" => call[c].op = "TRAIL"
    /\ call[c].op \in Sides \cup {"TRAIL"} => call[c].symbol \in Symbols
    /\ call[c].op = "BUY" => call[c].fill > 0
    /\ pc[c] = "setCash" /\ call[c].op = "BUY" =>
          Cost(call[c].fill, call[c].qty) <= call[c].cash
IInv == TypeOK /\ \A c \in Clients : CallOK(c)

Flow(t) == IF t.op = "BUY" THEN -Cost(t.fill, t.qty) ELSE Proceeds(t.fill, t.qty)
NetFlow == FoldLeft(LAMBDA total, t : total + Flow(t), 0, trades)
EntryFees == FoldLeft(LAMBDA total, t :
                 total + (IF t.op = "BUY" THEN Commission(t.fill * t.qty) ELSE 0), 0, trades)
BookValue == MapThenSumSet(LAMBDA s : positions[s].avg * positions[s].qty, Symbols)

(* No call is in progress and none was cut short. *)
Undisturbed == Quiescent /\ aborts = 0

(* Called with care, between calls the cash is the initial cash plus what the
   trade stream says came in and went out. *)
CashReconciles ==
    traffic.habit = "careful" /\ Undisturbed => cash = InitialCash + NetFlow

(* Called with care, between calls cash plus the book at entry prices is the
   initial cash plus the realised P&L less the commissions paid on entries. *)
BooksBalance ==
    traffic.habit = "careful" /\ Undisturbed =>
        cash + BookValue = InitialCash + dailyPnl - EntryFees

(* When no two clients share a symbol, between calls a symbol has a position
   exactly when its latest trade is a BUY, and the position is that trade's. *)
LastTrade(s) == SelectLastInSeq(trades, LAMBDA t : t.symbol = s)
PositionsMatchTrades ==
    KeptApart /\ Undisturbed => \A s \in Symbols :
        LET i == LastTrade(s)
        IN IF i # 0 /\ trades[i].op = "BUY"
           THEN positions[s].trade_id = trades[i].id
                /\ positions[s].qty = trades[i].qty
           ELSE ~Held(positions, s)
=============================================================================
