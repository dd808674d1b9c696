------------------------- MODULE PaperBroker_proofs -------------------------
(***************************************************************************)
(* For any clients, symbols, prices, quantities and rates.  Whatever calls *)
(* overlap or are cut short: the types of the shared keys, and a balance   *)
(* that is never negative.  When calls do not overlap, or overlap only on  *)
(* different symbols: the books, the cash against the trade stream, the    *)
(* positions against the latest trades, and the abstract Ledger.           *)
(***************************************************************************)
EXTENDS MCPaperBroker, Sums

(* Facts about integer division and products. *)
LEMMA DivBound ==
    ASSUME NEW a \in Nat, NEW d \in Nat, d > 0
    PROVE  /\ a \div d \in Nat
           /\ d * (a \div d) <= a
  OBVIOUS

LEMMA MulMono ==
    ASSUME NEW a \in Nat, NEW b \in Nat, NEW k \in Nat, a <= b
    PROVE  a * k <= b * k /\ a * k \in Nat
  OBVIOUS

LEMMA MulCancel ==
    ASSUME NEW a \in Int, NEW b \in Int, NEW k \in Nat, k > 0, k * a <= k * b
    PROVE  a <= b
  OBVIOUS

LEMMA PartOfWhole ==
    ASSUME NEW v \in Nat, NEW r \in Nat, NEW s \in Nat, s > 0, r <= s
    PROVE  (v * r) \div s \in 0..v
  OBVIOUS

-----------------------------------------------------------------------------
(* The fill arithmetic. *)

LEMMA CommissionBound ==
    ASSUME NEW v \in Nat PROVE Commission(v) \in 0..v
  BY PartOfWhole, FillsAssumption DEF Commission

LEMMA FillPriceType ==
    ASSUME NEW side \in Sides, NEW p \in Prices
    PROVE  FillPrice(side, p) \in Nat /\ (side = "BUY" => FillPrice(side, p) > 0)
<1>1. p \in Nat /\ p > 0
  BY FillsAssumption
<1>2. Slippage(p) \in 0..p
  BY <1>1, PartOfWhole, FillsAssumption DEF Slippage
<1>3. QED
  BY <1>1, <1>2 DEF FillPrice, Sides

LEMMA CostType ==
    ASSUME NEW fill \in Nat, NEW q \in Nat
    PROVE  Cost(fill, q) \in Nat /\ Proceeds(fill, q) \in Nat
<1>1. fill * q \in Nat
  OBVIOUS
<1>2. Commission(fill * q) \in 0..(fill * q)
  BY <1>1, CommissionBound
<1>3. QED
  BY <1>1, <1>2 DEF Cost, Proceeds

(* The quantity a BUY is cut to costs no more than the cash it was cut
   against, commission included. *)
LEMMA AffordableFits ==
    ASSUME NEW available \in Nat, NEW fill \in Nat, fill > 0
    PROVE  /\ Affordable(available, fill) \in Nat
           /\ Cost(fill, Affordable(available, fill)) <= available
<1> DEFINE q == Affordable(available, fill)
           S == Scale
           r == CommissionRate
           v == fill * q
<1>0. S \in Nat /\ S > 0 /\ r \in Nat /\ r <= S
  BY FillsAssumption
<1>1. 100 * fill * (S + r) \in Nat /\ 100 * fill * (S + r) > 0
  BY <1>0
<1>2. 95 * S * available \in Nat
  BY <1>0
<1>3. q \in Nat /\ (100 * fill * (S + r)) * q <= 95 * S * available
  BY <1>1, <1>2, DivBound DEF Affordable
<1>4. v \in Nat
  BY <1>3
<1>5. Commission(v) \in Nat /\ S * Commission(v) <= v * r
  BY <1>0, <1>4, DivBound DEF Commission
<1>6. S * (v + Commission(v)) <= v * (S + r)
  BY <1>0, <1>4, <1>5
<1>7. 100 * (v * (S + r)) <= 95 * (S * available)
  <2>1. (100 * fill * (S + r)) * q = 100 * (v * (S + r))
    BY <1>0, <1>3
  <2>2. 95 * S * available = 95 * (S * available)
    BY <1>0
  <2>3. QED
    BY <2>1, <2>2, <1>3
<1>8. S * (v + Commission(v)) <= S * available
  <2> DEFINE x == S * (v + Commission(v))
             y == v * (S + r)
             z == S * available
  <2>1. x \in Nat /\ y \in Nat /\ z \in Nat
    BY <1>0, <1>4, <1>5
  <2>2. x <= y /\ 100 * y <= 95 * z
    BY <1>6, <1>7
  <2>3. x <= z
    <3> HIDE DEF x, y, z
    <3> QED BY <2>1, <2>2
  <2>4. QED
    BY <2>3
<1>9. v + Commission(v) <= available
  BY <1>0, <1>4, <1>5, <1>8, MulCancel
<1>10. QED
  BY <1>3, <1>9 DEF Cost

LEMMA BuyQuantityFits ==
    ASSUME NEW available \in Nat, NEW fill \in Nat, fill > 0, NEW q \in Nat
    PROVE  /\ BuyQuantity(available, fill, q) \in Nat
           /\ Cost(fill, BuyQuantity(available, fill, q)) <= available
<1>1. CASE Cost(fill, q) > available
  BY <1>1, AffordableFits DEF BuyQuantity
<1>2. CASE ~(Cost(fill, q) > available)
  BY <1>2, CostType DEF BuyQuantity
<1>3. QED
  BY <1>1, <1>2
-----------------------------------------------------------------------------
(* The inductive invariant. *)

LEMMA NoPositionType == NoPosition \in Position
  BY DEF NoPosition, Position

LEMMA NoCallType == NoCall \in Call
  BY NoPositionType DEF NoCall, Call, Position

LEMMA InitIInv == Init => IInv
  BY NoPositionType, NoCallType, FillsAssumption, BrokerAssumption
  DEF Init, IInv, TypeOK, CallOK, Labels, FillLabels, Sides, NoCall

LEMMA BeginIInv ==
    ASSUME IInv, NEW c \in Clients, NEW label \in Labels, NEW locals \in Call,
           Begin(c, label, locals),
           label \notin FillLabels,
           label = "trailingWrite" => locals.op = "TRAIL",
           locals.op \in Sides \cup {"TRAIL"} => locals.symbol \in Symbols,
           locals.op = "BUY" => locals.fill > 0
    PROVE  IInv'
  BY DEF IInv, TypeOK, CallOK, Begin, Goto, ledger, journal, FillLabels

LEMMA InvokeIInv ==
    ASSUME IInv, NEW c \in Clients, Invoke(c)
    PROVE  IInv'
<1>1. ASSUME NEW side \in Sides, NEW s \in Symbols, NEW q \in Quantities, NEW p \in Prices,
             Submit(c, side, s, q, p)
      PROVE  IInv'
  <2> DEFINE l == [NoCall EXCEPT !.op = side, !.symbol = s, !.qty = q,
                                 !.fill = FillPrice(side, p), !.id = nextId]
  <2>1. l \in Call
    BY NoCallType, FillPriceType, FillsAssumption DEF NoCall, Call, IInv, TypeOK
  <2>2. /\ l.op = side /\ l.symbol = s /\ l.fill = FillPrice(side, p)
    BY DEF NoCall
  <2>3. Begin(c, "ensureInit", l) /\ (side = "BUY" => FillPrice(side, p) > 0)
    BY <1>1, FillPriceType DEF Submit
  <2>4. "ensureInit" \in Labels \ FillLabels
    BY DEF Labels, FillLabels
  <2> HIDE DEF l
  <2>5. QED
    BY <2>1, <2>2, <2>3, <2>4, BeginIInv
<1>2. CASE FlattenAll(c)
  <2> DEFINE l == [NoCall EXCEPT !.op = "FLATTEN"]
  <2>1. l \in Call /\ l.op = "FLATTEN"
    BY NoCallType DEF NoCall, Call
  <2>2. QED
    BY <1>2, <2>1, BeginIInv DEF FlattenAll, Labels, FillLabels, Sides
<1>3. ASSUME NEW s \in Symbols, TrailingRead(c, s)
      PROVE  IInv'
  <2> DEFINE l == [NoCall EXCEPT !.op = "TRAIL", !.symbol = s, !.pos = positions[s]]
  <2>1. l \in Call /\ l.op = "TRAIL" /\ l.symbol = s
    BY NoCallType DEF NoCall, Call, IInv, TypeOK
  <2>2. QED
    BY <1>3, <2>1, BeginIInv DEF TrailingRead, Labels, FillLabels, Sides
<1>4. CASE ResetDailyPnl(c)
  BY <1>4 DEF ResetDailyPnl, IInv, TypeOK, CallOK, journal
<1>5. QED
  BY <1>1, <1>2, <1>3, <1>4 DEF Invoke

(* Returning a client to idle preserves what the invariant says of calls. *)
LEMMA ReturnOK ==
    ASSUME IInv, NEW c \in Clients, Return(c)
    PROVE  /\ pc' \in [Clients -> Labels]
           /\ call' \in [Clients -> Call]
           /\ \A d \in Clients : CallOK(d)'
  BY NoCallType DEF IInv, TypeOK, CallOK, Return, Goto, Labels, FillLabels, NoCall, Sides

LEMMA FilledType ==
    ASSUME IInv, NEW c \in Clients, pc[c] \in FillLabels
    PROVE  Filled(c) \in Fill
  BY DEF IInv, TypeOK, CallOK, Filled, Fill, Call

LEMMA ProceedIInv ==
    ASSUME IInv, NEW c \in Clients, Proceed(c)
    PROVE  IInv'
<1> USE DEF Goto, ledger, journal
<1>1. CASE EnsureInitialized(c)
  BY <1>1 DEF EnsureInitialized, IInv, TypeOK, CallOK, Labels, FillLabels
<1>2. CASE SeedCash(c)
  BY <1>2, FillsAssumption DEF SeedCash, IInv, TypeOK, CallOK, Labels, FillLabels
<1>3. CASE SeedPnl(c)
  BY <1>3 DEF SeedPnl, IInv, TypeOK, CallOK, Labels, FillLabels
<1>4. CASE SeedCount(c)
  BY <1>4 DEF SeedCount, IInv, TypeOK, CallOK, Labels, FillLabels
<1>5. CASE ReadCash(c)
  <2> DEFINE q == IF call[c].op = "BUY"
                  THEN BuyQuantity(cash, call[c].fill, call[c].qty) ELSE call[c].qty
             l == [call[c] EXCEPT !.cash = cash, !.qty = q]
  <2>1. call[c] \in Call /\ cash \in Nat
    BY DEF IInv, TypeOK
  <2>2. q \in Nat /\ (call[c].op = "BUY" => Cost(call[c].fill, q) <= cash)
    BY <2>1, BuyQuantityFits DEF IInv, CallOK, Call
  <2>3. l \in Call /\ l.op = call[c].op /\ l.symbol = call[c].symbol
        /\ l.fill = call[c].fill /\ l.cash = cash /\ l.qty = q
    BY <2>1, <2>2 DEF Call
  <2>4. call' = [call EXCEPT ![c] = l]
    BY <1>5 DEF ReadCash, IInv, TypeOK
  <2>5. pc'[c] \in {"setCash", "readPosition", "readPositions"}
        /\ pc' = [pc EXCEPT ![c] = pc'[c]]
        /\ (pc'[c] \in FillLabels => call[c].op \in Sides)
        /\ (pc'[c] = "setCash" => call[c].op = "BUY")
        /\ (pc'[c] = "readPosition" => call[c].op = "SELL")
    BY <1>5 DEF ReadCash, IInv, TypeOK, FillLabels, Sides
  <2>6. TypeOK'
    BY <1>5, <2>3, <2>4, <2>5 DEF ReadCash, IInv, TypeOK, Labels
  <2>7. CallOK(c)'
    BY <2>2, <2>3, <2>4, <2>5 DEF IInv, TypeOK, CallOK
  <2>8. ASSUME NEW d \in Clients, d # c PROVE CallOK(d)'
    BY <2>4, <2>5, <2>8 DEF IInv, TypeOK, CallOK
  <2>9. QED
    BY <2>6, <2>7, <2>8 DEF IInv
<1>6. CASE DebitCash(c)
  <2>1. cash' \in Nat
    <3>1. call[c] \in Call /\ Cost(call[c].fill, call[c].qty) <= call[c].cash
      BY <1>6 DEF DebitCash, IInv, TypeOK, CallOK
    <3>2. Cost(call[c].fill, call[c].qty) \in Nat
      BY <3>1, CostType DEF Call
    <3>3. QED
      BY <1>6, <3>1, <3>2 DEF DebitCash, Call
  <2>2. QED
    BY <1>6, <2>1 DEF DebitCash, IInv, TypeOK, CallOK, Labels, FillLabels
<1>7. CASE SetPosition(c)
  <2>1. positions' \in [Symbols -> Position]
    BY <1>7 DEF SetPosition, IInv, TypeOK, CallOK, FillLabels, Call, Position
  <2>2. QED
    BY <1>7, <2>1 DEF SetPosition, IInv, TypeOK, CallOK, Labels, FillLabels
<1>8. CASE ReadPosition(c)
  <2> DEFINE l == [call[c] EXCEPT !.pos = positions[call[c].symbol]]
  <2>1. call[c].op \in Sides /\ call[c].symbol \in Symbols /\ call[c] \in Call
    BY <1>8 DEF ReadPosition, IInv, TypeOK, CallOK, FillLabels
  <2>2. l \in Call /\ l.op = call[c].op /\ l.symbol = call[c].symbol
        /\ l.fill = call[c].fill /\ l.cash = call[c].cash /\ l.qty = call[c].qty
    BY <2>1 DEF IInv, TypeOK, Call
  <2>3. QED
    <3>1. call' = [call EXCEPT ![c] = l] /\ pc' = [pc EXCEPT ![c] = "setCash"]
      BY <1>8 DEF ReadPosition, IInv, TypeOK
    <3>2. l.op = "SELL"
      BY <1>8, <2>2 DEF ReadPosition, IInv, CallOK
    <3>3. TypeOK'
      BY <1>8, <2>2, <3>1 DEF ReadPosition, IInv, TypeOK, Labels
    <3>4. ASSUME NEW d \in Clients PROVE CallOK(d)'
      BY <2>1, <2>2, <3>1, <3>2 DEF IInv, TypeOK, CallOK, FillLabels, Sides
    <3>5. QED
      BY <3>3, <3>4 DEF IInv
<1>9. CASE CreditCash(c)
  <2>1. cash' \in Nat
    <3>1. call[c].cash \in Nat /\ call[c].fill \in Nat /\ call[c].qty \in Nat
      BY DEF IInv, TypeOK, Call
    <3>2. Proceeds(call[c].fill, call[c].qty) \in Nat
      BY <3>1, CostType
    <3>3. QED
      BY <1>9, <3>1, <3>2 DEF CreditCash
  <2>2. QED
    BY <1>9, <2>1 DEF CreditCash, IInv, TypeOK, CallOK, Labels, FillLabels
<1>10. CASE ReadPnl(c)
  <2> DEFINE l == [call[c] EXCEPT !.pnl = dailyPnl]
  <2>1. l \in Call /\ l.op = call[c].op /\ l.symbol = call[c].symbol
        /\ l.fill = call[c].fill /\ l.cash = call[c].cash /\ l.qty = call[c].qty
    BY DEF IInv, TypeOK, Call
  <2>2. QED
    BY <1>10, <2>1 DEF ReadPnl, IInv, TypeOK, CallOK, Labels, FillLabels
<1>11. CASE SetPnl(c)
  <2>1. RealisedPnl(call[c].pos, call[c].fill, call[c].qty) \in Int
    <3>1. /\ call[c].fill \in Nat /\ call[c].qty \in Nat
          /\ call[c].pos.avg \in Nat
      BY DEF IInv, TypeOK, Call, Position
    <3>2. Proceeds(call[c].fill, call[c].qty) \in Nat
      BY <3>1, CostType
    <3>3. EntryPrice(call[c].pos, call[c].fill) \in Nat
      BY <3>1 DEF EntryPrice
    <3>4. EntryPrice(call[c].pos, call[c].fill) * call[c].qty \in Nat
      BY <3>1, <3>3
    <3>5. QED
      BY <3>2, <3>4 DEF RealisedPnl
  <2>2. dailyPnl' \in Int
    BY <1>11, <2>1 DEF SetPnl, IInv, TypeOK, Call
  <2>3. QED
    BY <1>11, <2>2 DEF SetPnl, IInv, TypeOK, CallOK, Labels, FillLabels
<1>12. CASE DeletePosition(c)
  BY <1>12, NoPositionType DEF DeletePosition, IInv, TypeOK, CallOK, Labels, FillLabels
<1>13. CASE PushOrder(c)
  <2> DEFINE all == <<Filled(c)>> \o orders
  <2>1. all \in Seq(Fill)
    BY <1>13, FilledType DEF PushOrder, IInv, TypeOK, FillLabels
  <2>2. orders' \in Seq(Fill)
    <3> HIDE DEF all
    <3>1. CASE Len(all) > OrdersCap
      BY <1>13, <2>1, <3>1, BrokerAssumption DEF PushOrder, all
    <3>2. CASE ~(Len(all) > OrdersCap)
      BY <1>13, <2>1, <3>2 DEF PushOrder, all
    <3>3. QED
      BY <3>1, <3>2
  <2>3. QED
    BY <1>13, <2>2 DEF PushOrder, IInv, TypeOK, CallOK, Labels, FillLabels
<1>14. CASE IncrTradeCount(c)
  BY <1>14 DEF IncrTradeCount, IInv, TypeOK, CallOK, Labels, FillLabels
<1>15. CASE ProduceTrade(c)
  <2>1. trades' \in Seq(Fill)
    BY <1>15, FilledType DEF ProduceTrade, IInv, TypeOK, FillLabels
  <2>2. QED
    BY <1>15, <2>1, ReturnOK DEF ProduceTrade, IInv, TypeOK
<1>16. CASE ReadPositions(c)
  <2> DEFINE l == [call[c] EXCEPT !.book = positions,
                                  !.left = HeldIn(positions)]
  <2>1. l \in Call /\ l.op = call[c].op /\ l.symbol = call[c].symbol
        /\ l.fill = call[c].fill /\ l.cash = call[c].cash /\ l.qty = call[c].qty
    BY DEF IInv, TypeOK, Call, HeldIn
  <2>2. call' = [call EXCEPT ![c] = l]
    BY <1>16 DEF ReadPositions, IInv, TypeOK
  <2>3. QED
    <3>1. pc' = [pc EXCEPT ![c] = "flatten"]
      BY <1>16 DEF ReadPositions
    <3>2. TypeOK'
      <4>1. call' \in [Clients -> Call]
        <5> HIDE DEF l
        <5> QED BY <2>1, <2>2 DEF IInv, TypeOK
      <4>2. QED
        BY <1>16, <4>1, <3>1 DEF ReadPositions, IInv, TypeOK, Labels
    <3>3. ASSUME NEW d \in Clients PROVE CallOK(d)'
      BY <2>1, <2>2, <3>1 DEF IInv, TypeOK, CallOK, FillLabels
    <3>4. QED
      BY <3>2, <3>3 DEF IInv
<1>17. ASSUME NEW s \in Symbols, FlattenOne(c, s)
       PROVE  IInv'
  <2> DEFINE p == Proceeds(call[c].book[s].avg, call[c].book[s].qty)
             l == [call[c] EXCEPT !.cash = call[c].cash + p, !.left = call[c].left \ {s}]
  <2>1. p \in Nat
    <3>1. call[c].book[s] \in Position
      BY DEF IInv, TypeOK, Call
    <3>2. QED
      BY <3>1, CostType DEF Position
  <2>2. l \in Call /\ l.op = call[c].op /\ l.symbol = call[c].symbol /\ l.fill = call[c].fill
    <3>1. call[c] \in Call
      BY DEF IInv, TypeOK
    <3>2. call[c].cash + p \in Nat /\ call[c].left \ {s} \in SUBSET Symbols
      BY <2>1, <3>1 DEF Call
    <3> HIDE DEF p
    <3>3. QED
      BY <3>1, <3>2 DEF Call
  <2>3. call' = [call EXCEPT ![c] = l]
    BY <1>17 DEF FlattenOne, IInv, TypeOK
  <2>4. TypeOK'
    BY <1>17, <2>2, <2>3, NoPositionType DEF FlattenOne, IInv, TypeOK
  <2> HIDE DEF l
  <2>5. ASSUME NEW d \in Clients PROVE CallOK(d)'
    <3>1. /\ pc' = pc /\ pc[c] = "flatten" /\ CallOK(d) /\ CallOK(c)
          /\ call'[d] = IF d = c THEN l ELSE call[d]
      BY <1>17, <2>3 DEF FlattenOne, IInv, TypeOK
    <3>2. QED
      BY <2>2, <3>1 DEF CallOK, FillLabels
  <2>6. QED
    BY <2>4, <2>5 DEF IInv
<1>18. CASE FlattenCredit(c)
  BY <1>18, ReturnOK DEF FlattenCredit, IInv, TypeOK, Call
<1>19. CASE TrailingWrite(c)
  <2>1. positions' \in [Symbols -> Position]
    <3>1. call[c].symbol \in Symbols
      BY <1>19 DEF TrailingWrite, IInv, CallOK
    <3>2. call[c].pos \in Position
      BY DEF IInv, TypeOK, Call
    <3>3. [call[c].pos EXCEPT !.trailing = TRUE] \in Position
      BY <3>2 DEF Position
    <3>4. QED
      BY <1>19, <3>1, <3>3 DEF TrailingWrite, IInv, TypeOK
  <2>2. QED
    BY <1>19, <2>1, ReturnOK DEF TrailingWrite, IInv, TypeOK
<1>20. QED
  BY <1>1, <1>2, <1>3, <1>4, <1>5, <1>6, <1>7, <1>8, <1>9, <1>10, <1>11, <1>12,
     <1>13, <1>14, <1>15, <1>16, <1>17, <1>18, <1>19 DEF Proceed

LEMMA NextIInv == IInv /\ [Next]_vars => IInv'
<1> SUFFICES ASSUME IInv, [Next]_vars PROVE IInv'
  OBVIOUS
<1>1. ASSUME NEW c \in Clients, Invoke(c) PROVE IInv'
  BY <1>1, InvokeIInv
<1>2. ASSUME NEW c \in Clients, Proceed(c) PROVE IInv'
  BY <1>2, ProceedIInv
<1>3. ASSUME NEW c \in Clients, Abort(c) PROVE IInv'
  BY <1>3, ReturnOK DEF Abort, IInv, TypeOK, ledger, journal
<1>4. CASE UNCHANGED vars
  BY <1>4 DEF vars, IInv, TypeOK, CallOK
<1>5. QED
  BY <1>1, <1>2, <1>3, <1>4 DEF Next

(* The shared keys always hold what their readers parse them as; the cash is
   never negative, whatever calls overlap and wherever they are cut short: a
   BUY sizes against the very balance it subtracts from (broker.py:551-562). *)
THEOREM TypeCorrect == Spec => []TypeOK
<1>1. IInv => TypeOK
  BY DEF IInv
<1>2. QED
  BY <1>1, InitIInv, NextIInv, PTL DEF Spec

-----------------------------------------------------------------------------
(* The inductive invariant, in four parts.                                 *)

AtStart == {"ensureInit", "seedCash", "seedPnl", "seedCount", "readCash"}
Seeding == {"seedCash", "seedPnl", "seedCount"}
Selling == {"readPosition", "readPnl", "setPnl", "deletePosition"}
Posted == {"pushOrder", "incrCount", "produceTrade"}

(* Whatever the traffic: what the locals of a call hold where it stands, and a
   symbol without a trade id has no position at all. *)
Locals(c) ==
    /\ pc[c] = "idle" => call[c].op = "NONE"
    /\ pc[c] \in AtStart => call[c].op \in Sides \cup {"FLATTEN"}
    /\ pc[c] \in {"readPositions", "flatten"} => call[c].op = "FLATTEN"
    /\ pc[c] \in Selling => call[c].op = "SELL"
    /\ pc[c] = "setPosition" => call[c].op = "BUY"
    /\ call[c].op = "TRAIL" => call[c].pos.trade_id # 0
    /\ call[c].op \in Sides => /\ call[c].id \in 1..MaxCalls
                               /\ \E p \in Prices : call[c].fill = FillPrice(call[c].op, p)
    /\ call[c].op = "SELL" \/ (call[c].op = "BUY" /\ pc[c] \in AtStart) =>
          call[c].qty \in Quantities \ {0}
    /\ call[c].op = "BUY" /\ pc[c] \notin AtStart => \E q \in Quantities \ {0} :
          call[c].qty = BuyQuantity(call[c].cash, call[c].fill, q)

Clean(book) == \A s \in Symbols : book[s].trade_id = 0 => book[s] = NoPosition

(* One call at a time, none cut short. *)
Orderly == traffic.habit # "free" /\ aborts = 0
Alone == traffic.habit # "free" =>
    \A c, d \in Clients : pc[c] # "idle" /\ pc[d] # "idle" => c = d

(* Until the keys are seeded nothing has been written. *)
Untouched ==
    /\ ~initialized => \A c \in Clients : pc[c] \in {"idle", "ensureInit"}
    /\ ~initialized \/ (\E c \in Clients : pc[c] \in Seeding) =>
          /\ cash = InitialCash /\ dailyPnl = 0 /\ trades = <<>>
          /\ positions = [s \in Symbols |-> NoPosition]

(* What the one call in progress has written, and what it has read is current. *)
Stage(c) ==
    /\ pc[c] \in {"setCash", "readPosition", "readPositions"} => call[c].cash = cash
    /\ pc[c] = "setPosition" => cash = call[c].cash - Cost(call[c].fill, call[c].qty)
    /\ pc[c] \in {"readPnl", "setPnl", "deletePosition"} =>
          cash = call[c].cash + Proceeds(call[c].fill, call[c].qty)
    /\ \/ pc[c] \in {"trailingWrite", "readPnl", "setPnl", "deletePosition"}
       \/ pc[c] = "setCash" /\ call[c].op = "SELL"
       => call[c].pos = positions[call[c].symbol]
    /\ pc[c] = "setPnl" => call[c].pnl = dailyPnl
    /\ pc[c] = "deletePosition" =>
          dailyPnl = call[c].pnl + RealisedPnl(call[c].pos, call[c].fill, call[c].qty)
    /\ pc[c] = "flatten" =>
          /\ Clean(call[c].book)
          /\ call[c].left \subseteq HeldIn(call[c].book)
          /\ positions = [s \in Symbols |-> IF s \in call[c].left THEN call[c].book[s]
                                            ELSE NoPosition]
          /\ call[c].cash = cash + Credit(call[c].book, HeldIn(call[c].book) \ call[c].left)

SerialInv ==
    /\ \A c \in Clients : Locals(c)
    /\ Clean(positions)
    /\ Alone
    /\ Orderly => Untouched /\ \A c \in Clients : Stage(c)

(* A careful caller buys what it does not hold and sells the whole of what it
   holds; meanwhile the cash is ahead of the trade stream by the fill in
   progress, and of the books by the part of it already written. *)
Apt(c) ==
    /\ call[c].op # "FLATTEN"
    /\ call[c].op = "BUY" /\ pc[c] \in AtStart \cup {"setCash", "setPosition"} =>
          ~Held(positions, call[c].symbol)
    /\ call[c].op = "SELL" /\ pc[c] \in AtStart \cup Selling \cup {"setCash"} =>
          /\ Held(positions, call[c].symbol)
          /\ call[c].qty = positions[call[c].symbol].qty

Ahead(c) ==
    IF pc[c] \in FillLabels \ {"setCash", "readPosition"} THEN Flow(Filled(c)) ELSE 0

Unbooked(c) ==
    CASE pc[c] = "setPosition" -> -Cost(call[c].fill, call[c].qty)
      [] pc[c] \in {"readPnl", "setPnl"} -> Proceeds(call[c].fill, call[c].qty)
      [] pc[c] = "deletePosition" -> call[c].pos.avg * call[c].qty
      [] pc[c] \in Posted /\ call[c].op = "BUY" -> -Commission(call[c].fill * call[c].qty)
      [] OTHER -> 0

Books == InitialCash + dailyPnl - EntryFees - BookValue
Worth(c) ==
    /\ cash = InitialCash + NetFlow + Ahead(c)
    /\ cash = Books + Unbooked(c)

CarefulNow == traffic.habit = "careful" /\ aborts = 0
CarefulInv ==
    CarefulNow =>
        /\ \A c \in Clients : Apt(c)
        /\ Quiescent => cash = InitialCash + NetFlow /\ cash = Books
        /\ \A c \in Clients : pc[c] # "idle" => Worth(c)

(* When the clients share no symbol: the calls keep to their clients' symbols,
   and a symbol matches its latest trade but for the fill being journalled. *)
Matches(s) ==
    LET i == LastTrade(s)
    IN IF i # 0 /\ trades[i].op = "BUY"
       THEN positions[s].trade_id = trades[i].id /\ positions[s].qty = trades[i].qty
       ELSE ~Held(positions, s)
MatchInv ==
    KeptApart /\ aborts = 0 =>
        /\ \A c \in Clients : pc[c] # "idle" =>
              call[c].op # "FLATTEN" /\ call[c].symbol \in traffic.reach[c]
        /\ \A c \in Clients : pc[c] = "trailingWrite" =>
              call[c].pos = positions[call[c].symbol]
        /\ \A c \in Clients : pc[c] \in Posted =>
              IF call[c].op = "BUY"
              THEN /\ positions[call[c].symbol].trade_id = call[c].id
                   /\ positions[call[c].symbol].qty = call[c].qty
              ELSE ~Held(positions, call[c].symbol)
        /\ \A s \in Symbols :
              (\A c \in Clients : pc[c] \in Posted => call[c].symbol # s) => Matches(s)
-----------------------------------------------------------------------------
(* What the locals hold, whatever the traffic. *)

(* A call in progress touches its own client only. *)
LEMMA OthersCalls ==
    ASSUME IInv, NEW c \in Clients, Proceed(c)
    PROVE  /\ \A d \in Clients : d # c => pc'[d] = pc[d] /\ call'[d] = call[d]
           /\ pc[c] # "idle"
           /\ UNCHANGED <<nextId, aborts, traffic>>
  BY DEF Proceed, IInv, TypeOK, Goto, Return,
     EnsureInitialized, SeedCash, SeedPnl, SeedCount, ReadCash, DebitCash, SetPosition,
     ReadPosition, CreditCash, ReadPnl, SetPnl, DeletePosition, PushOrder,
     IncrTradeCount, ProduceTrade, ReadPositions, FlattenOne, FlattenCredit, TrailingWrite

LEMMA LocalsStep ==
    ASSUME IInv, NEW c \in Clients, Locals(c), Proceed(c)
    PROVE  Locals(c)'
<1> USE DEF Goto, AtStart, Selling, Sides
<1>0. pc \in [Clients -> Labels] /\ call \in [Clients -> Call] /\ call[c] \in Call
  BY DEF IInv, TypeOK
<1>1. CASE EnsureInitialized(c)
  BY <1>0, <1>1 DEF EnsureInitialized, Locals
<1>2. CASE SeedCash(c)
  BY <1>0, <1>2 DEF SeedCash, Locals
<1>3. CASE SeedPnl(c)
  BY <1>0, <1>3 DEF SeedPnl, Locals
<1>4. CASE SeedCount(c)
  BY <1>0, <1>4 DEF SeedCount, Locals
<1>5. CASE ReadCash(c)
  <2> DEFINE q == IF call[c].op = "BUY"
                  THEN BuyQuantity(cash, call[c].fill, call[c].qty) ELSE call[c].qty
             l == [call[c] EXCEPT !.cash = cash, !.qty = q]
  <2>1. /\ call'[c] = l /\ pc'[c] \notin AtStart
        /\ pc'[c] = CASE call[c].op = "BUY"  -> "setCash"
                 [] call[c].op = "SELL" -> "readPosition"
                 [] OTHER               -> "readPositions"
    BY <1>0, <1>5 DEF ReadCash
  <2>2. /\ l.op = call[c].op /\ l.fill = call[c].fill /\ l.cash = cash /\ l.qty = q
        /\ l.id = call[c].id /\ l.pos = call[c].pos
    BY <1>0 DEF Call
  <2>3. /\ call[c].op \in Sides \cup {"FLATTEN"}
        /\ call[c].op \in Sides => call[c].qty \in Quantities \ {0}
    BY <1>5 DEF ReadCash, Locals
  <2> HIDE DEF l, q
  <2>4. call[c].op = "BUY" => \E k \in Quantities \ {0} : q = BuyQuantity(cash, call[c].fill, k)
    BY <2>3 DEF q
  <2>5. call[c].op # "BUY" => q = call[c].qty
    BY DEF q
  <2>6. QED
    BY <2>1, <2>2, <2>3, <2>4, <2>5 DEF Locals
<1>6. CASE DebitCash(c)
  BY <1>0, <1>6 DEF DebitCash, Locals
<1>7. CASE SetPosition(c)
  BY <1>0, <1>7 DEF SetPosition, Locals
<1>8. CASE ReadPosition(c)
  BY <1>0, <1>8 DEF ReadPosition, Locals, Call
<1>9. CASE CreditCash(c)
  BY <1>0, <1>9 DEF CreditCash, Locals
<1>10. CASE ReadPnl(c)
  BY <1>0, <1>10 DEF ReadPnl, Locals, Call
<1>11. CASE SetPnl(c)
  BY <1>0, <1>11 DEF SetPnl, Locals
<1>12. CASE DeletePosition(c)
  BY <1>0, <1>12 DEF DeletePosition, Locals
<1>13. CASE PushOrder(c)
  BY <1>0, <1>13 DEF PushOrder, Locals
<1>14. CASE IncrTradeCount(c)
  BY <1>0, <1>14 DEF IncrTradeCount, Locals
<1>15. CASE ProduceTrade(c)
  BY <1>0, <1>15 DEF ProduceTrade, Return, NoCall, Locals
<1>16. CASE ReadPositions(c)
  BY <1>0, <1>16 DEF ReadPositions, Locals, Call
<1>17. ASSUME NEW s \in Symbols, FlattenOne(c, s) PROVE Locals(c)'
  BY <1>0, <1>17 DEF FlattenOne, Locals, Call
<1>18. CASE FlattenCredit(c)
  BY <1>0, <1>18 DEF FlattenCredit, Return, NoCall, Locals
<1>19. CASE TrailingWrite(c)
  BY <1>0, <1>19 DEF TrailingWrite, Return, NoCall, Locals
<1>20. QED
  BY <1>1, <1>2, <1>3, <1>4, <1>5, <1>6, <1>7, <1>8, <1>9, <1>10, <1>11, <1>12,
     <1>13, <1>14, <1>15, <1>16, <1>17, <1>18, <1>19 DEF Proceed

(* A call begins with the locals its caller gave it. *)
LEMMA LocalsBegun ==
    ASSUME IInv, NEW c \in Clients, Invoke(c), \A d \in Clients : Locals(d)
    PROVE  \A d \in Clients : Locals(d)'
<1> USE DEF Goto, AtStart, Selling, Sides
<1>0. pc \in [Clients -> Labels] /\ call \in [Clients -> Call] /\ nextId \in Nat \ {0}
  BY DEF IInv, TypeOK
<1>1. ASSUME NEW label, NEW locals, Begin(c, label, locals),
             Locals(c)'
      PROVE  \A d \in Clients : Locals(d)'
  <2> SUFFICES ASSUME NEW d \in Clients, d # c PROVE Locals(d)'
    BY <1>1
  <2>1. pc'[d] = pc[d] /\ call'[d] = call[d]
    BY <1>0, <1>1 DEF Begin
  <2>2. QED
    BY <2>1 DEF Locals
<1>2. ASSUME NEW side \in Sides, NEW s \in Symbols, NEW q \in Quantities, NEW p \in Prices,
             Submit(c, side, s, q, p)
      PROVE  \A d \in Clients : Locals(d)'
  <2> DEFINE l == [NoCall EXCEPT !.op = side, !.symbol = s, !.qty = q,
                                 !.fill = FillPrice(side, p), !.id = nextId]
  <2>1. /\ l.op = side /\ l.qty = q /\ l.fill = FillPrice(side, p) /\ l.id = nextId
    BY DEF NoCall
  <2>2. Begin(c, "ensureInit", l) /\ q # 0
    BY <1>2, FillsAssumption DEF Submit
  <2> HIDE DEF l
  <2>3. pc'[c] = "ensureInit" /\ call'[c] = l /\ nextId \in 1..MaxCalls
    BY <1>0, <2>2, BrokerAssumption DEF Begin
  <2>4. Locals(c)'
    BY <2>1, <2>2, <2>3 DEF Locals
  <2>5. QED
    BY <2>2, <2>4, <1>1
<1>3. CASE FlattenAll(c)
  <2> DEFINE l == [NoCall EXCEPT !.op = "FLATTEN"]
  <2>1. l.op = "FLATTEN"
    BY DEF NoCall
  <2>2. Begin(c, "ensureInit", l)
    BY <1>3 DEF FlattenAll
  <2> HIDE DEF l
  <2>3. pc'[c] = "ensureInit" /\ call'[c] = l
    BY <1>0, <2>2 DEF Begin
  <2>4. Locals(c)'
    BY <2>1, <2>3 DEF Locals
  <2>5. QED
    BY <2>2, <2>4, <1>1
<1>4. ASSUME NEW s \in Symbols, TrailingRead(c, s)
      PROVE  \A d \in Clients : Locals(d)'
  <2> DEFINE l == [NoCall EXCEPT !.op = "TRAIL", !.symbol = s, !.pos = positions[s]]
  <2>1. l.op = "TRAIL" /\ l.pos = positions[s]
    BY DEF NoCall
  <2>2. Begin(c, "trailingWrite", l) /\ positions[s].trade_id # 0
    BY <1>4 DEF TrailingRead, Held
  <2> HIDE DEF l
  <2>3. pc'[c] = "trailingWrite" /\ call'[c] = l
    BY <1>0, <2>2 DEF Begin
  <2>4. Locals(c)'
    BY <2>1, <2>2, <2>3 DEF Locals
  <2>5. QED
    BY <2>2, <2>4, <1>1
<1>5. CASE ResetDailyPnl(c)
  BY <1>5 DEF ResetDailyPnl, Locals
<1>6. QED
  BY <1>2, <1>3, <1>4, <1>5 DEF Invoke

LEMMA CleanStep ==
    ASSUME IInv, NEW c \in Clients, Locals(c), Proceed(c), Clean(positions)
    PROVE  Clean(positions)'
<1>0. /\ positions \in [Symbols -> Position] /\ call[c] \in Call
  BY DEF IInv, TypeOK
<1>1. CASE SetPosition(c)
  <2>1. call[c].id # 0
    BY <1>1, BrokerAssumption DEF SetPosition, Locals, Sides
  <2>2. QED
    BY <1>0, <1>1, <2>1 DEF SetPosition, Clean
<1>2. CASE DeletePosition(c)
  BY <1>0, <1>2 DEF DeletePosition, Clean
<1>3. ASSUME NEW s \in Symbols, FlattenOne(c, s) PROVE Clean(positions)'
  BY <1>0, <1>3 DEF FlattenOne, Clean
<1>4. CASE TrailingWrite(c)
  <2>1. call[c].pos.trade_id # 0 /\ call[c].pos \in Position
    BY <1>0, <1>4 DEF TrailingWrite, IInv, CallOK, Locals, Call
  <2>2. [call[c].pos EXCEPT !.trailing = TRUE].trade_id # 0
    BY <2>1 DEF Position
  <2>3. QED
    BY <1>0, <1>4, <2>2 DEF TrailingWrite, Clean
<1>5. CASE UNCHANGED positions
  BY <1>5 DEF Clean
<1>6. QED
  BY <1>1, <1>2, <1>3, <1>4, <1>5 DEF Proceed, ledger,
     EnsureInitialized, SeedCash, SeedPnl, SeedCount, ReadCash, DebitCash,
     ReadPosition, CreditCash, ReadPnl, SetPnl, PushOrder,
     IncrTradeCount, ProduceTrade, ReadPositions, FlattenCredit

(* A call returned or cut short leaves no locals behind. *)
LEMMA IdleLocals ==
    ASSUME IInv, NEW c \in Clients, Return(c), \A d \in Clients : Locals(d)
    PROVE  \A d \in Clients : Locals(d)'
  BY DEF IInv, TypeOK, Return, Goto, NoCall, Locals, AtStart, Selling, Sides
-----------------------------------------------------------------------------
(* The folds of the model as sums. *)

LEMMA PositionValue ==
    ASSUME NEW book \in [Symbols -> Position], NEW s \in Symbols
    PROVE  /\ book[s].avg \in Nat /\ book[s].qty \in Nat
           /\ Proceeds(book[s].avg, book[s].qty) \in Int
           /\ book[s].avg * book[s].qty \in Int
<1>1. book[s].avg \in Nat /\ book[s].qty \in Nat
  BY DEF Position
<1>2. Proceeds(book[s].avg, book[s].qty) \in Nat
  BY <1>1, CostType
<1>3. QED
  BY <1>1, <1>2

(* What a flatten credits for a set of positions. *)
LEMMA CreditIsSum ==
    ASSUME NEW book \in [Symbols -> Position], NEW D \in SUBSET Symbols
    PROVE  \E g : /\ IsSum(g, [s \in D |-> Proceeds(book[s].avg, book[s].qty)], D)
                  /\ Credit(book, D) = g[D]
<1> DEFINE f == [s \in D |-> Proceeds(book[s].avg, book[s].qty)]
           Body(g) == [s \in SUBSET D |-> IF s = {} THEN 0
                         ELSE Proceeds(book[CHOOSE x \in s : TRUE].avg,
                                       book[CHOOSE x \in s : TRUE].qty)
                              + g[s \ {CHOOSE x \in s : TRUE}]]
           G == CHOOSE g : g = Body(g)
<1>1. IsFiniteSet(D)
  BY FS_Subset, FillsAssumption
<1>2. f \in [D -> Int]
  <2> SUFFICES ASSUME NEW s \in D PROVE Proceeds(book[s].avg, book[s].qty) \in Int
    OBVIOUS
  <2> QED BY PositionValue
<1>3. \A g : Chooses(g, f, D) <=> g = Body(g)
  <2> SUFFICES ASSUME NEW g PROVE Chooses(g, f, D) <=> g = Body(g)
    OBVIOUS
  <2>1. \A s \in SUBSET D : s # {} => (CHOOSE x \in s : TRUE) \in D
    OBVIOUS
  <2>2. \A s \in SUBSET D : s # {} =>
           f[CHOOSE x \in s : TRUE] = Proceeds(book[CHOOSE x \in s : TRUE].avg,
                                               book[CHOOSE x \in s : TRUE].qty)
    BY <2>1
  <2>3. Body(g) = [s \in SUBSET D |-> IF s = {} THEN 0
                ELSE f[CHOOSE x \in s : TRUE] + g[s \ {CHOOSE x \in s : TRUE}]]
    <3> HIDE DEF f
    <3> QED BY <2>2
  <2>4. QED
    BY <2>3, Zenon DEF Chooses
<1>4. \E g : g = Body(g)
  <2> HIDE DEF Body
  <2> QED BY <1>1, <1>2, <1>3, ChooseExists
<1>5. G = Body(G)
  <2> HIDE DEF Body
  <2> QED BY <1>4, Zenon
<1>6. Credit(book, D) = G[D]
  BY DEF Credit, MapThenSumSet, MapThenFoldSet
<1>7. IsSum(G, f, D)
  <2> HIDE DEF G, Body
  <2> QED BY <1>2, <1>3, <1>5, ChooseIsSum
<1>8. QED
  BY <1>6, <1>7, Zenon

LEMMA CreditOne ==
    ASSUME NEW book \in [Symbols -> Position], NEW D \in SUBSET Symbols,
           NEW s \in Symbols \ D
    PROVE  Credit(book, D \cup {s}) = Credit(book, D) + Proceeds(book[s].avg, book[s].qty)
<1> DEFINE E == D \cup {s}
           f == [x \in D |-> Proceeds(book[x].avg, book[x].qty)]
           e == [x \in E |-> Proceeds(book[x].avg, book[x].qty)]
<1>1. IsFiniteSet(D) /\ IsFiniteSet(E)
  BY FS_Subset, FillsAssumption
<1>2. \A x \in Symbols : Proceeds(book[x].avg, book[x].qty) \in Int
  <2> SUFFICES ASSUME NEW x \in Symbols PROVE Proceeds(book[x].avg, book[x].qty) \in Int
    OBVIOUS
  <2> QED BY PositionValue
<1>3. PICK g : IsSum(g, f, D) /\ Credit(book, D) = g[D]
  BY CreditIsSum
<1>4. PICK h : IsSum(h, e, E) /\ Credit(book, E) = h[E]
  BY CreditIsSum
<1>5. /\ f \in [D -> Int] /\ e \in [E -> Int] /\ \A x \in D : f[x] = e[x]
      /\ s \in E /\ E \ {s} = D /\ e[s] = Proceeds(book[s].avg, book[s].qty)
      /\ D \subseteq D /\ D \subseteq E /\ E \in SUBSET E
  BY <1>2
<1> HIDE DEF E, f, e
<1>6. h[E] = h[D] + e[s]
  BY <1>1, <1>4, <1>5, SumRemove
<1>7. g[D] = h[D]
  BY <1>1, <1>3, <1>4, <1>5, SumAgree
<1>8. QED
  BY <1>3, <1>4, <1>5, <1>6, <1>7 DEF E

LEMMA CreditNone ==
    ASSUME NEW book \in [Symbols -> Position]
    PROVE  Credit(book, {}) = 0
<1>1. PICK g : /\ IsSum(g, [s \in {} |-> Proceeds(book[s].avg, book[s].qty)], {})
               /\ Credit(book, {}) = g[{}]
  BY CreditIsSum
<1>2. QED
  BY <1>1 DEF IsSum

LEMMA CreditType ==
    ASSUME NEW book \in [Symbols -> Position], NEW D \in SUBSET Symbols
    PROVE  Credit(book, D) \in Int
<1> DEFINE f == [s \in D |-> Proceeds(book[s].avg, book[s].qty)]
<1>1. IsFiniteSet(D) /\ D \in SUBSET D
  BY FS_Subset, FillsAssumption
<1>2. f \in [D -> Int]
  <2> SUFFICES ASSUME NEW s \in D PROVE Proceeds(book[s].avg, book[s].qty) \in Int
    OBVIOUS
  <2> QED BY PositionValue
<1>3. PICK g : IsSum(g, f, D) /\ Credit(book, D) = g[D]
  BY CreditIsSum
<1> HIDE DEF f
<1>4. g[D] \in Int
  BY <1>1, <1>2, <1>3, SumType
<1>5. QED
  BY <1>3, <1>4
-----------------------------------------------------------------------------
(* One call at a time. *)

LEMMA UntouchedStep ==
    ASSUME IInv, Alone, Untouched, traffic.habit # "free", NEW c \in Clients, Proceed(c)
    PROVE  Untouched'
<1> USE DEF Goto, ledger, journal
<1>0. pc \in [Clients -> Labels] /\ pc[c] # "idle"
  BY OthersCalls DEF IInv, TypeOK
<1>1. \A d \in Clients : d # c => pc[d] = "idle" /\ pc'[d] = "idle"
  BY <1>0, OthersCalls DEF Alone
<1>2. CASE EnsureInitialized(c)
  <2>1. initialized'
    BY <1>2 DEF EnsureInitialized
  <2>2. pc'[c] = IF initialized THEN "readCash" ELSE "seedCash"
    BY <1>0, <1>2 DEF EnsureInitialized
  <2>3. UNCHANGED <<cash, dailyPnl, trades, positions>>
    BY <1>2 DEF EnsureInitialized
  <2>4. QED
    BY <1>1, <2>1, <2>2, <2>3 DEF Untouched, Seeding
<1>3. CASE pc[c] # "ensureInit"
  <2>1. initialized /\ initialized' = initialized
    BY <1>0, <1>3 DEF Untouched, Proceed, EnsureInitialized,
       SeedCash, SeedPnl, SeedCount, ReadCash, DebitCash, SetPosition,
       ReadPosition, CreditCash, ReadPnl, SetPnl, DeletePosition, PushOrder,
       IncrTradeCount, ProduceTrade, ReadPositions, FlattenOne, FlattenCredit, TrailingWrite
  <2>2. SUFFICES ASSUME pc'[c] \in Seeding
                 PROVE  /\ cash' = InitialCash /\ dailyPnl' = 0 /\ trades' = <<>>
                        /\ positions' = [s \in Symbols |-> NoPosition]
    BY <1>1, <2>1 DEF Untouched, Seeding
  <2>3. SeedCash(c) \/ SeedPnl(c)
    BY <1>0, <1>3, <2>2 DEF Seeding, Proceed, Return, EnsureInitialized,
       SeedCash, SeedPnl, SeedCount, ReadCash, DebitCash, SetPosition,
       ReadPosition, CreditCash, ReadPnl, SetPnl, DeletePosition, PushOrder,
       IncrTradeCount, ProduceTrade, ReadPositions, FlattenOne, FlattenCredit, TrailingWrite
  <2>4. QED
    BY <2>3 DEF Untouched, SeedCash, SeedPnl, Seeding
<1>4. QED
  BY <1>2, <1>3 DEF Proceed, 
       SeedCash, SeedPnl, SeedCount, ReadCash, DebitCash, SetPosition,
       ReadPosition, CreditCash, ReadPnl, SetPnl, DeletePosition, PushOrder,
       IncrTradeCount, ProduceTrade, ReadPositions, FlattenOne, FlattenCredit, TrailingWrite

LEMMA StageStep ==
    ASSUME IInv, NEW c \in Clients, Locals(c), Stage(c), Clean(positions), Proceed(c)
    PROVE  Stage(c)'
<1> USE DEF Goto, ledger, journal
<1>0. /\ pc \in [Clients -> Labels] /\ call \in [Clients -> Call] /\ call[c] \in Call
      /\ positions \in [Symbols -> Position]
  BY DEF IInv, TypeOK
<1>1. CASE EnsureInitialized(c)
  BY <1>0, <1>1 DEF EnsureInitialized, Stage
<1>2. CASE SeedCash(c)
  BY <1>0, <1>2 DEF SeedCash, Stage
<1>3. CASE SeedPnl(c)
  BY <1>0, <1>3 DEF SeedPnl, Stage
<1>4. CASE SeedCount(c)
  BY <1>0, <1>4 DEF SeedCount, Stage
<1>5. CASE ReadCash(c)
  <2>1. call'[c].cash = cash /\ cash' = cash /\ call'[c].op = call[c].op
    BY <1>0, <1>5 DEF ReadCash, Call
  <2>2. /\ pc'[c] \in {"setCash", "readPosition", "readPositions"}
        /\ (pc'[c] = "setCash" => call[c].op = "BUY")
    BY <1>0, <1>5 DEF ReadCash
  <2>3. QED
    BY <2>1, <2>2 DEF Stage
<1>6. CASE DebitCash(c)
  BY <1>0, <1>6 DEF DebitCash, Stage
<1>7. CASE SetPosition(c)
  BY <1>0, <1>7 DEF SetPosition, Stage
<1>8. CASE ReadPosition(c)
  <2>1. /\ call'[c].pos = positions[call[c].symbol] /\ call'[c].symbol = call[c].symbol
        /\ call'[c].cash = call[c].cash /\ pc'[c] = "setCash"
        /\ UNCHANGED <<cash, positions>>
    BY <1>0, <1>8 DEF ReadPosition, Call
  <2>2. call[c].cash = cash
    BY <1>8 DEF ReadPosition, Stage
  <2>3. QED
    BY <2>1, <2>2 DEF Stage
<1>9. CASE CreditCash(c)
  <2>1. call[c].pos = positions[call[c].symbol]
    BY <1>9 DEF CreditCash, Stage
  <2>2. pc'[c] = "readPnl" /\ UNCHANGED <<call, positions>>
        /\ cash' = call[c].cash + Proceeds(call[c].fill, call[c].qty)
    BY <1>0, <1>9 DEF CreditCash
  <2>3. QED
    BY <2>1, <2>2 DEF Stage
<1>10. CASE ReadPnl(c)
  <2>1. /\ call'[c].pos = call[c].pos /\ call'[c].symbol = call[c].symbol
        /\ call'[c].cash = call[c].cash /\ pc'[c] = "setPnl"
        /\ call'[c].pnl = dailyPnl
        /\ call'[c].fill = call[c].fill /\ call'[c].qty = call[c].qty
        /\ UNCHANGED <<cash, positions, dailyPnl>>
    BY <1>0, <1>10 DEF ReadPnl, Call
  <2>2. cash = call[c].cash + Proceeds(call[c].fill, call[c].qty)
        /\ call[c].pos = positions[call[c].symbol]
    BY <1>10 DEF ReadPnl, Stage
  <2>3. QED
    BY <2>1, <2>2 DEF Stage
<1>11. CASE SetPnl(c)
  <2>1. cash = call[c].cash + Proceeds(call[c].fill, call[c].qty)
        /\ call[c].pos = positions[call[c].symbol]
    BY <1>11 DEF SetPnl, Stage
  <2>2. /\ pc'[c] = "deletePosition" /\ UNCHANGED <<call, cash, positions>>
        /\ dailyPnl' = call[c].pnl + RealisedPnl(call[c].pos, call[c].fill, call[c].qty)
    BY <1>0, <1>11 DEF SetPnl
  <2>3. QED
    BY <2>1, <2>2 DEF Stage
<1>12. CASE DeletePosition(c)
  BY <1>0, <1>12 DEF DeletePosition, Stage
<1>13. CASE PushOrder(c)
  BY <1>0, <1>13 DEF PushOrder, Stage
<1>14. CASE IncrTradeCount(c)
  BY <1>0, <1>14 DEF IncrTradeCount, Stage
<1>15. CASE ProduceTrade(c)
  BY <1>0, <1>15 DEF ProduceTrade, Return, Stage
<1>16. CASE ReadPositions(c)
  <2> DEFINE left == HeldIn(positions)
  <2>1. /\ call'[c].book = positions /\ call'[c].left = left
        /\ call'[c].cash = call[c].cash /\ pc'[c] = "flatten"
        /\ UNCHANGED <<cash, positions>>
    BY <1>0, <1>16 DEF ReadPositions, Call
  <2>2. call[c].cash = cash /\ cash \in Nat
    BY <1>16 DEF ReadPositions, Stage, IInv, TypeOK
  <2>3. left = HeldIn(positions)
    BY DEF HeldIn
  <2>4. positions = [s \in Symbols |-> IF s \in left THEN positions[s] ELSE NoPosition]
    BY <1>0 DEF Clean, Held, HeldIn
  <2>5. Credit(positions, HeldIn(positions) \ left) = 0
    <3>1. HeldIn(positions) \ left = {}
      BY <2>3
    <3>2. QED
      BY <1>0, <3>1, CreditNone
  <2> HIDE DEF left
  <2>6. Clean(positions)' /\ Clean(call'[c].book)
    BY <2>1 DEF Clean
  <2>7. QED
    BY <2>1, <2>2, <2>3, <2>4, <2>5, <2>6 DEF Stage
<1>17. ASSUME NEW s \in Symbols, FlattenOne(c, s) PROVE Stage(c)'
  <2> DEFINE book == call[c].book
             left == call[c].left
             p == Proceeds(book[s].avg, book[s].qty)
  <2>1. /\ call'[c].book = book /\ call'[c].left = left \ {s} /\ s \in left
        /\ call'[c].cash = call[c].cash + p /\ pc'[c] = "flatten" /\ pc[c] = "flatten"
        /\ cash' = cash /\ positions' = [positions EXCEPT ![s] = NoPosition]
    BY <1>0, <1>17 DEF FlattenOne, Call
  <2>2. book \in [Symbols -> Position] /\ left \in SUBSET Symbols /\ call[c].cash \in Nat
        /\ cash \in Nat
    BY <1>0 DEF Call, IInv, TypeOK
  <2> HIDE DEF book, left
  <2>3. /\ Clean(book) /\ left \subseteq HeldIn(book)
        /\ positions = [x \in Symbols |-> IF x \in left THEN book[x] ELSE NoPosition]
        /\ call[c].cash = cash + Credit(book, HeldIn(book) \ left)
    BY <2>1 DEF Stage, book, left
  <2>4. positions' = [x \in Symbols |-> IF x \in left \ {s} THEN book[x] ELSE NoPosition]
    BY <2>1, <2>3
  <2>5. Credit(book, HeldIn(book) \ (left \ {s})) = Credit(book, HeldIn(book) \ left) + p
    <3> DEFINE D == HeldIn(book) \ left
    <3>1. HeldIn(book) \ (left \ {s}) = D \cup {s} /\ s \in Symbols \ D
      BY <2>1, <2>3
    <3>2. D \in SUBSET Symbols
      BY DEF HeldIn
    <3>3. Credit(book, D \cup {s}) = Credit(book, D) + p
      <4> HIDE DEF D
      <4> QED BY <2>2, <3>1, <3>2, CreditOne
    <3>4. QED
      BY <3>1, <3>3
  <2>6. p \in Int /\ Credit(book, HeldIn(book) \ left) \in Int
    <3>1. HeldIn(book) \ left \in SUBSET Symbols
      BY DEF HeldIn
    <3>2. QED
      BY <2>2, <3>1, PositionValue, CreditType
  <2> HIDE DEF p
  <2>7. call'[c].cash = cash + Credit(book, HeldIn(book) \ (left \ {s}))
    BY <2>1, <2>2, <2>3, <2>5, <2>6
  <2>8. QED
    BY <2>1, <2>3, <2>4, <2>7 DEF Stage
<1>18. CASE FlattenCredit(c)
  BY <1>0, <1>18 DEF FlattenCredit, Return, Stage
<1>19. CASE TrailingWrite(c)
  BY <1>0, <1>19 DEF TrailingWrite, Return, Stage
<1>20. QED
  BY <1>1, <1>2, <1>3, <1>4, <1>5, <1>6, <1>7, <1>8, <1>9, <1>10, <1>11, <1>12,
     <1>13, <1>14, <1>15, <1>16, <1>17, <1>18, <1>19 DEF Proceed

LEMMA ReturnedStage ==
    ASSUME IInv, NEW c \in Clients, pc' = [pc EXCEPT ![c] = "idle"]
    PROVE  Stage(c)'
  BY DEF IInv, TypeOK, Stage

(* A call begins alone unless the traffic is free, and then reads or writes
   nothing yet but what a trailing stop reads. *)
LEMMA InvokeSerial ==
    ASSUME IInv, SerialInv, NEW c \in Clients, Invoke(c)
    PROVE  SerialInv'
<1>0. pc \in [Clients -> Labels] /\ call \in [Clients -> Call]
      /\ positions \in [Symbols -> Position] /\ traffic \in Traffic
  BY DEF IInv, TypeOK
<1>1. \A d \in Clients : Locals(d)'
  BY LocalsBegun DEF SerialInv
<1>2. ASSUME NEW label \in {"ensureInit", "trailingWrite"}, NEW locals \in Call,
             Begin(c, label, locals),
             label = "trailingWrite" => /\ locals.pos = positions[locals.symbol]
                                        /\ locals.pos.trade_id # 0
                                        /\ locals.symbol \in Symbols
      PROVE  SerialInv'
  <2>1. /\ pc' = [pc EXCEPT ![c] = label] /\ call' = [call EXCEPT ![c] = locals]
        /\ UNCHANGED <<initialized, cash, positions, dailyPnl, trades, aborts, traffic>>
        /\ traffic.habit # "free" => Quiescent
    BY <1>2 DEF Begin, Goto, Disciplined, ledger, journal
  <2>2. Clean(positions)'
    BY <2>1 DEF SerialInv, Clean
  <2>3. Alone'
    BY <1>0, <2>1 DEF Alone, SerialInv, Quiescent
  <2>4. ASSUME Orderly' PROVE Untouched' /\ \A d \in Clients : Stage(d)'
    <3>1. Orderly /\ Quiescent /\ Untouched /\ \A d \in Clients : Stage(d)
      BY <2>1, <2>4 DEF Orderly, SerialInv
    <3>2. label = "trailingWrite" => initialized
      BY <1>2, <3>1, NoPositionType DEF Untouched, NoPosition
    <3>3. Untouched'
      BY <1>0, <2>1, <3>1, <3>2 DEF Untouched, Quiescent, Seeding
    <3>4. Stage(c)'
      BY <1>0, <1>2, <2>1 DEF Stage
    <3>5. ASSUME NEW d \in Clients, d # c PROVE Stage(d)'
      BY <1>0, <2>1, <3>1, <3>5 DEF Stage, Quiescent
    <3>6. QED
      BY <3>3, <3>4, <3>5
  <2>5. QED
    BY <1>1, <2>2, <2>3, <2>4 DEF SerialInv
<1>3. ASSUME NEW side \in Sides, NEW s \in Symbols, NEW q \in Quantities, NEW p \in Prices,
             Submit(c, side, s, q, p)
      PROVE  SerialInv'
  <2> DEFINE l == [NoCall EXCEPT !.op = side, !.symbol = s, !.qty = q,
                                 !.fill = FillPrice(side, p), !.id = nextId]
  <2>1. l \in Call
    BY NoCallType, FillPriceType, FillsAssumption DEF NoCall, Call, IInv, TypeOK
  <2>2. Begin(c, "ensureInit", l)
    BY <1>3 DEF Submit
  <2> HIDE DEF l
  <2>3. QED
    BY <1>2, <2>1, <2>2
<1>4. CASE FlattenAll(c)
  <2> DEFINE l == [NoCall EXCEPT !.op = "FLATTEN"]
  <2>1. l \in Call
    BY NoCallType DEF NoCall, Call
  <2>2. Begin(c, "ensureInit", l)
    BY <1>4 DEF FlattenAll
  <2> HIDE DEF l
  <2>3. QED
    BY <1>2, <2>1, <2>2
<1>5. ASSUME NEW s \in Symbols, TrailingRead(c, s)
      PROVE  SerialInv'
  <2> DEFINE l == [NoCall EXCEPT !.op = "TRAIL", !.symbol = s, !.pos = positions[s]]
  <2>1. l \in Call /\ l.pos = positions[s] /\ l.symbol = s
    BY NoCallType DEF NoCall, Call, IInv, TypeOK
  <2>2. Begin(c, "trailingWrite", l) /\ positions[s].trade_id # 0
    BY <1>5 DEF TrailingRead, Held
  <2> HIDE DEF l
  <2>3. QED
    BY <1>2, <2>1, <2>2
<1>6. CASE ResetDailyPnl(c)
  <2>1. /\ UNCHANGED <<initialized, cash, positions, trades, aborts, traffic, pc, call>>
        /\ dailyPnl' = 0
        /\ traffic.habit = "serial" => Quiescent
        /\ traffic.habit # "careful"
    BY <1>6 DEF ResetDailyPnl, journal
  <2>2. Orderly => Quiescent
    BY <1>0, <2>1, BrokerAssumption DEF Orderly, Habits
  <2>3. Orderly' => Untouched' /\ \A d \in Clients : Stage(d)'
    BY <2>1, <2>2 DEF Orderly, SerialInv, Untouched, Stage, Quiescent
  <2>4. Clean(positions)' /\ Alone'
    BY <2>1 DEF SerialInv, Clean, Alone
  <2>5. QED
    BY <1>1, <2>3, <2>4 DEF SerialInv
<1>7. QED
  BY <1>3, <1>4, <1>5, <1>6 DEF Invoke

LEMMA ProceedSerial ==
    ASSUME IInv, SerialInv, NEW c \in Clients, Proceed(c)
    PROVE  SerialInv'
<1>1. ASSUME NEW d \in Clients PROVE Locals(d)'
  <2>1. CASE d = c
    BY <2>1, LocalsStep DEF SerialInv
  <2>2. CASE d # c
    <3>1. pc'[d] = pc[d] /\ call'[d] = call[d]
      BY <2>2, OthersCalls
    <3>2. QED
      BY <3>1 DEF SerialInv, Locals
  <2>3. QED
    BY <2>1, <2>2
<1>2. Clean(positions)'
  BY CleanStep DEF SerialInv
<1>3. Alone'
  BY OthersCalls DEF SerialInv, Alone
<1>4. ASSUME Orderly' PROVE Untouched' /\ \A d \in Clients : Stage(d)'
  <2>1. Orderly /\ pc[c] # "idle"
    BY <1>4, OthersCalls DEF Orderly
  <2>2. Untouched'
    BY <2>1, UntouchedStep DEF SerialInv, Orderly
  <2>3. Stage(c)'
    BY <2>1, StageStep DEF SerialInv
  <2>4. ASSUME NEW d \in Clients, d # c PROVE Stage(d)'
    <3>1. pc'[d] = "idle"
      BY <2>1, <2>4, OthersCalls DEF SerialInv, Alone, Orderly
    <3>2. QED
      BY <3>1 DEF Stage
  <2>5. QED
    BY <2>2, <2>3, <2>4
<1>5. QED
  BY <1>1, <1>2, <1>3, <1>4 DEF SerialInv

LEMMA AbortSerial ==
    ASSUME IInv, SerialInv, NEW c \in Clients, Abort(c)
    PROVE  SerialInv'
<1>1. /\ Return(c) /\ pc[c] # "idle" /\ aborts' = aborts + 1
      /\ UNCHANGED <<positions, traffic>>
  BY DEF Abort, ledger
<1>2. \A d \in Clients : Locals(d)'
  BY <1>1, IdleLocals DEF SerialInv
<1>3. Clean(positions)'
  BY <1>1 DEF SerialInv, Clean
<1>4. Alone'
  BY <1>1 DEF SerialInv, Alone, Return, Goto, IInv, TypeOK
<1>5. ~Orderly'
  BY <1>1 DEF Orderly, IInv, TypeOK
<1>6. QED
  BY <1>2, <1>3, <1>4, <1>5 DEF SerialInv

LEMMA InitSerial == Init => SerialInv
<1> SUFFICES ASSUME Init PROVE SerialInv
  OBVIOUS
<1>1. \A c \in Clients : pc[c] = "idle" /\ call[c] = NoCall
  BY DEF Init
<1>2. \A c \in Clients : Locals(c)
  BY <1>1 DEF Locals, NoCall, AtStart, Selling, Sides
<1>3. Clean(positions) /\ Alone
  BY <1>1 DEF Init, Clean, Alone
<1>4. Untouched
  BY <1>1 DEF Init, Untouched, Seeding
<1>5. \A c \in Clients : Stage(c)
  BY <1>1 DEF Stage
<1>6. QED
  BY <1>2, <1>3, <1>4, <1>5 DEF SerialInv

LEMMA StutterSerial == SerialInv /\ UNCHANGED vars => SerialInv'
<1> SUFFICES ASSUME SerialInv, UNCHANGED vars PROVE SerialInv'
  OBVIOUS
<1>1. /\ pc' = pc /\ call' = call /\ positions' = positions /\ traffic' = traffic
      /\ aborts' = aborts /\ cash' = cash /\ dailyPnl' = dailyPnl /\ trades' = trades
      /\ initialized' = initialized
  BY DEF vars
<1>2. \A c \in Clients : Locals(c)'
  BY <1>1 DEF SerialInv, Locals
<1>3. Clean(positions)' /\ Alone'
  BY <1>1 DEF SerialInv, Clean, Alone
<1>4. ASSUME Orderly' PROVE Untouched' /\ \A c \in Clients : Stage(c)'
  <2>1. Orderly
    BY <1>1, <1>4 DEF Orderly
  <2>2. Untouched'
    BY <1>1, <2>1 DEF SerialInv, Untouched
  <2>3. \A c \in Clients : Stage(c)'
    BY <1>1, <2>1 DEF SerialInv, Stage, Clean
  <2>4. QED
    BY <2>2, <2>3
<1>5. QED
  BY <1>2, <1>3, <1>4 DEF SerialInv

LEMMA NextSerial == IInv /\ SerialInv /\ [Next]_vars => SerialInv'
<1> SUFFICES ASSUME IInv, SerialInv, [Next]_vars PROVE SerialInv'
  OBVIOUS
<1>1. ASSUME NEW c \in Clients, Invoke(c) PROVE SerialInv'
  BY <1>1, InvokeSerial
<1>2. ASSUME NEW c \in Clients, Proceed(c) PROVE SerialInv'
  BY <1>2, ProceedSerial
<1>3. ASSUME NEW c \in Clients, Abort(c) PROVE SerialInv'
  BY <1>3, AbortSerial
<1>4. QED
  BY <1>1, <1>2, <1>3, StutterSerial DEF Next
-----------------------------------------------------------------------------
(* The refinement.  The ledger of the abstract broker, seen from a state in
   which only client c may have a call in progress. *)

ShownCash(c) ==
    IF pc[c] \in {"setPosition", "readPnl", "setPnl", "deletePosition"}
    THEN call[c].cash ELSE cash
ShownPositions(c) == IF pc[c] = "flatten" THEN call[c].book ELSE positions
ShownPnl(c) == IF pc[c] = "deletePosition" THEN call[c].pnl ELSE dailyPnl

LEMMA Shown ==
    ASSUME NEW c \in Clients, \A d \in Clients : d # c => pc[d] = "idle"
    PROVE  /\ AbstractCash = ShownCash(c)
           /\ AbstractPositions = ShownPositions(c)
           /\ AbstractPnl = ShownPnl(c)
<1>1. CASE pc[c] = "idle"
  BY <1>1 DEF AbstractCash, AbstractPositions, AbstractPnl, ShownCash, ShownPositions, ShownPnl
<1>2. CASE pc[c] # "idle"
  <2>1. (CHOOSE d \in Clients : pc[d] # "idle") = c
    BY <1>2
  <2>2. QED
    BY <2>1 DEF AbstractCash, AbstractPositions, AbstractPnl, ShownCash, ShownPositions, ShownPnl
<1>3. QED
  BY <1>1, <1>2

LEMMA ShownNext ==
    ASSUME NEW c \in Clients, \A d \in Clients : d # c => pc'[d] = "idle"
    PROVE  /\ AbstractCash' = ShownCash(c)'
           /\ AbstractPositions' = ShownPositions(c)'
           /\ AbstractPnl' = ShownPnl(c)'
<1>1. CASE pc'[c] = "idle"
  BY <1>1 DEF AbstractCash, AbstractPositions, AbstractPnl, ShownCash, ShownPositions, ShownPnl
<1>2. CASE pc'[c] # "idle"
  <2>1. (CHOOSE d \in Clients : pc'[d] # "idle") = c
    BY <1>2
  <2>2. QED
    BY <2>1 DEF AbstractCash, AbstractPositions, AbstractPnl, ShownCash, ShownPositions, ShownPnl
<1>3. QED
  BY <1>1, <1>2

(* The abstract broker computes with the same fill arithmetic. *)
LEMMA SameArithmetic ==
    /\ \A side, p : Abstract!FillPrice(side, p) = FillPrice(side, p)
    /\ \A fill, q : Abstract!Cost(fill, q) = Cost(fill, q)
    /\ \A fill, q : Abstract!Proceeds(fill, q) = Proceeds(fill, q)
    /\ \A a, fill, q : Abstract!BuyQuantity(a, fill, q) = BuyQuantity(a, fill, q)
    /\ \A pos, fill, q : Abstract!RealisedPnl(pos, fill, q) = RealisedPnl(pos, fill, q)
    /\ \A book, s : Abstract!Held(book, s) <=> Held(book, s)
    /\ Abstract!NoPosition = NoPosition
  BY DEF Abstract!FillPrice, FillPrice, Abstract!Slippage, Slippage,
     Abstract!Cost, Cost, Abstract!Commission, Commission, Abstract!Proceeds, Proceeds,
     Abstract!BuyQuantity, BuyQuantity, Abstract!Affordable, Affordable,
     Abstract!RealisedPnl, RealisedPnl, Abstract!EntryPrice, EntryPrice,
     Abstract!Held, Held, Abstract!NoPosition, NoPosition

LEMMA AbstractCreditIsSum ==
    ASSUME NEW book \in [Symbols -> Position], NEW D \in SUBSET Symbols
    PROVE  \E g : /\ IsSum(g, [s \in D |-> Proceeds(book[s].avg, book[s].qty)], D)
                  /\ Abstract!Credit(book, D) = g[D]
<1> DEFINE f == [s \in D |-> Proceeds(book[s].avg, book[s].qty)]
           Body(g) == [s \in SUBSET D |-> IF s = {} THEN 0
                         ELSE Proceeds(book[CHOOSE x \in s : TRUE].avg,
                                       book[CHOOSE x \in s : TRUE].qty)
                              + g[s \ {CHOOSE x \in s : TRUE}]]
           G == CHOOSE g : g = Body(g)
<1>1. IsFiniteSet(D)
  BY FS_Subset, FillsAssumption
<1>2. f \in [D -> Int]
  <2> SUFFICES ASSUME NEW s \in D PROVE Proceeds(book[s].avg, book[s].qty) \in Int
    OBVIOUS
  <2> QED BY PositionValue
<1>3. \A g : Chooses(g, f, D) <=> g = Body(g)
  <2> SUFFICES ASSUME NEW g PROVE Chooses(g, f, D) <=> g = Body(g)
    OBVIOUS
  <2>1. \A s \in SUBSET D : s # {} => (CHOOSE x \in s : TRUE) \in D
    OBVIOUS
  <2>2. \A s \in SUBSET D : s # {} =>
           f[CHOOSE x \in s : TRUE] = Proceeds(book[CHOOSE x \in s : TRUE].avg,
                                               book[CHOOSE x \in s : TRUE].qty)
    BY <2>1
  <2>3. Body(g) = [s \in SUBSET D |-> IF s = {} THEN 0
                ELSE f[CHOOSE x \in s : TRUE] + g[s \ {CHOOSE x \in s : TRUE}]]
    <3> HIDE DEF f
    <3> QED BY <2>2
  <2>4. QED
    BY <2>3, Zenon DEF Chooses
<1>4. \E g : g = Body(g)
  <2> HIDE DEF Body
  <2> QED BY <1>1, <1>2, <1>3, ChooseExists
<1>5. G = Body(G)
  <2> HIDE DEF Body
  <2> QED BY <1>4, Zenon
<1>6. Abstract!Credit(book, D) = G[D]
  BY SameArithmetic DEF Abstract!Credit, Abstract!MapThenSumSet, Abstract!MapThenFoldSet
<1>7. IsSum(G, f, D)
  <2> HIDE DEF G, Body
  <2> QED BY <1>2, <1>3, <1>5, ChooseIsSum
<1>8. QED
  BY <1>6, <1>7, Zenon

LEMMA SameCredit ==
    ASSUME NEW book \in [Symbols -> Position], NEW D \in SUBSET Symbols
    PROVE  Abstract!Credit(book, D) = Credit(book, D)
<1> DEFINE f == [s \in D |-> Proceeds(book[s].avg, book[s].qty)]
<1>1. IsFiniteSet(D) /\ D \subseteq D
  BY FS_Subset, FillsAssumption
<1>2. f \in [D -> Int]
  BY PositionValue
<1>3. PICK g : IsSum(g, f, D) /\ Credit(book, D) = g[D]
  BY CreditIsSum
<1>4. PICK h : IsSum(h, f, D) /\ Abstract!Credit(book, D) = h[D]
  BY AbstractCreditIsSum
<1> HIDE DEF f
<1>5. g[D] = h[D]
  BY <1>1, <1>2, <1>3, <1>4, SumAgree
<1>6. QED
  BY <1>3, <1>4, <1>5

LEMMA InitRefines == Init => Abstract!Init
<1> SUFFICES ASSUME Init PROVE Abstract!Init
  OBVIOUS
<1>1. \A c \in Clients : pc[c] = "idle"
  BY DEF Init
<1>2. AbstractCash = cash /\ AbstractPositions = positions /\ AbstractPnl = dailyPnl
  BY <1>1 DEF AbstractCash, AbstractPositions, AbstractPnl
<1>3. QED
  BY <1>2, SameArithmetic DEF Init, Abstract!Init

(* A step of the call in progress is an operation of the ledger, or leaves the
   ledger that is shown as it was. *)
LEMMA ProceedRefines ==
    ASSUME IInv, SerialInv, Orderly, NEW c \in Clients, Proceed(c)
    PROVE  Abstract!Next \/ Abstract!ledger' = Abstract!ledger
<1> USE DEF Goto, ledger, journal
<1> DEFINE Same == Abstract!ledger' = Abstract!ledger
<1>0. /\ pc \in [Clients -> Labels] /\ call \in [Clients -> Call] /\ call[c] \in Call
      /\ positions \in [Symbols -> Position] /\ pc[c] # "idle"
      /\ Locals(c) /\ Stage(c) /\ Untouched /\ CallOK(c)
      /\ cash \in Nat
  BY OthersCalls DEF IInv, TypeOK, SerialInv
<1>a. \A d \in Clients : d # c => pc[d] = "idle" /\ pc'[d] = "idle"
  BY <1>0, OthersCalls DEF SerialInv, Alone, Orderly
<1>b. /\ AbstractCash = ShownCash(c) /\ AbstractCash' = ShownCash(c)'
      /\ AbstractPositions = ShownPositions(c) /\ AbstractPositions' = ShownPositions(c)'
      /\ AbstractPnl = ShownPnl(c) /\ AbstractPnl' = ShownPnl(c)'
  BY <1>a, Shown, ShownNext
<1>c. ASSUME UNCHANGED <<ShownCash(c), ShownPositions(c), ShownPnl(c)>> PROVE Same
  BY <1>b, <1>c DEF Abstract!ledger
<1> HIDE DEF Same
<1> USE DEF ShownCash, ShownPositions, ShownPnl
<1>1. ASSUME EnsureInitialized(c) PROVE Same
  BY <1>0, <1>1, <1>c DEF EnsureInitialized
<1>2. ASSUME SeedCash(c) PROVE Same
  BY <1>0, <1>2, <1>c DEF SeedCash, Untouched, Seeding
<1>3. ASSUME SeedPnl(c) PROVE Same
  BY <1>0, <1>3, <1>c DEF SeedPnl, Untouched, Seeding
<1>4. ASSUME SeedCount(c) PROVE Same
  BY <1>0, <1>4, <1>c DEF SeedCount
<1>5. ASSUME ReadCash(c) PROVE Same
  BY <1>0, <1>5, <1>c DEF ReadCash
<1>6. ASSUME DebitCash(c) PROVE Same
  BY <1>0, <1>6, <1>c DEF DebitCash, Stage
<1>7. CASE SetPosition(c)
  <2> DEFINE s == call[c].symbol
             id == call[c].id
             post == [qty |-> call[c].qty, avg |-> call[c].fill,
                      trade_id |-> id, trailing |-> FALSE]
  <2>1. /\ pc[c] = "setPosition" /\ pc'[c] = "pushOrder" /\ UNCHANGED <<cash, dailyPnl, call>>
        /\ positions' = [positions EXCEPT ![s] = post]
    BY <1>0, <1>7 DEF SetPosition
  <2>2. /\ call[c].op = "BUY" /\ id \in 1..MaxCalls /\ s \in Symbols
    BY <1>0, <2>1 DEF Locals, CallOK, Sides
  <2>3. PICK p \in Prices : call[c].fill = FillPrice("BUY", p)
    BY <1>0, <2>2 DEF Locals, Sides
  <2>4. PICK q \in Quantities \ {0} : call[c].qty = BuyQuantity(call[c].cash, call[c].fill, q)
    BY <1>0, <2>1, <2>2 DEF Locals, AtStart
  <2>5. cash = call[c].cash - Cost(call[c].fill, call[c].qty)
    BY <1>0, <2>1 DEF Stage
  <2>6. /\ AbstractCash = call[c].cash /\ AbstractCash' = cash
        /\ AbstractPositions = positions /\ AbstractPositions' = positions'
        /\ AbstractPnl' = AbstractPnl
    BY <1>b, <2>1
  <2> HIDE DEF post, s, id
  <2>7. Abstract!Buy(s, q, p, id)
    BY <2>1, <2>3, <2>4, <2>5, <2>6, SameArithmetic DEF Abstract!Buy, post, id
  <2>8. QED
    BY <2>2, <2>7 DEF Abstract!Next
<1>8. ASSUME ReadPosition(c) PROVE Same
  BY <1>0, <1>8, <1>c DEF ReadPosition
<1>9. ASSUME CreditCash(c) PROVE Same
  BY <1>0, <1>9, <1>c DEF CreditCash, Stage
<1>10. ASSUME ReadPnl(c) PROVE Same
  <2>1. call'[c].cash = call[c].cash
    BY <1>0, <1>10 DEF ReadPnl, Call
  <2>2. QED
    BY <1>0, <1>10, <1>c, <2>1 DEF ReadPnl
<1>11. ASSUME SetPnl(c) PROVE Same
  BY <1>0, <1>11, <1>c DEF SetPnl, Stage
<1>12. CASE DeletePosition(c)
  <2> DEFINE s == call[c].symbol
             q == call[c].qty
  <2>1. /\ pc[c] = "deletePosition" /\ pc'[c] = "pushOrder" /\ UNCHANGED <<cash, dailyPnl, call>>
        /\ positions' = [positions EXCEPT ![s] = NoPosition]
    BY <1>0, <1>12 DEF DeletePosition
  <2>2. /\ call[c].op = "SELL" /\ s \in Symbols /\ q \in Quantities \ {0}
    BY <1>0, <2>1 DEF Locals, Selling, CallOK, Sides
  <2>3. PICK p \in Prices : call[c].fill = FillPrice("SELL", p)
    BY <1>0, <2>2 DEF Locals, Sides
  <2>4. /\ cash = call[c].cash + Proceeds(call[c].fill, q)
        /\ call[c].pos = positions[s]
        /\ dailyPnl = call[c].pnl + RealisedPnl(call[c].pos, call[c].fill, q)
    BY <1>0, <2>1 DEF Stage
  <2>5. /\ AbstractCash = call[c].cash /\ AbstractCash' = cash
        /\ AbstractPositions = positions /\ AbstractPositions' = positions'
        /\ AbstractPnl = call[c].pnl /\ AbstractPnl' = dailyPnl
    BY <1>b, <2>1
  <2> HIDE DEF s, q
  <2>6. Abstract!Sell(s, q, p)
    BY <2>1, <2>3, <2>4, <2>5, SameArithmetic DEF Abstract!Sell
  <2>7. QED
    BY <2>2, <2>6 DEF Abstract!Next
<1>13. ASSUME PushOrder(c) PROVE Same
  BY <1>0, <1>13, <1>c DEF PushOrder
<1>14. ASSUME IncrTradeCount(c) PROVE Same
  BY <1>0, <1>14, <1>c DEF IncrTradeCount
<1>15. ASSUME ProduceTrade(c) PROVE Same
  BY <1>0, <1>15, <1>c DEF ProduceTrade, Return
<1>16. ASSUME ReadPositions(c) PROVE Same
  <2>1. call'[c].book = positions /\ pc'[c] = "flatten"
    BY <1>0, <1>16 DEF ReadPositions, Call
  <2>2. QED
    BY <1>0, <1>16, <1>c, <2>1 DEF ReadPositions
<1>17. ASSUME NEW s \in Symbols, FlattenOne(c, s) PROVE Same
  <2>1. call'[c].book = call[c].book
    BY <1>0, <1>17 DEF FlattenOne, Call
  <2>2. QED
    BY <1>0, <1>17, <1>c, <2>1 DEF FlattenOne
<1>18. CASE FlattenCredit(c)
  <2> DEFINE book == call[c].book
  <2>1. /\ pc[c] = "flatten" /\ pc'[c] = "idle" /\ UNCHANGED <<positions, dailyPnl>>
        /\ call[c].left = {} /\ cash' = call[c].cash
    BY <1>0, <1>18 DEF FlattenCredit, Return
  <2>2. /\ positions = [s \in Symbols |-> NoPosition]
        /\ call[c].cash = cash + Credit(book, HeldIn(book))
    BY <1>0, <2>1 DEF Stage
  <2>3. /\ AbstractCash = cash /\ AbstractCash' = cash'
        /\ AbstractPositions = book /\ AbstractPositions' = positions
        /\ AbstractPnl' = AbstractPnl
    BY <1>b, <2>1
  <2> HIDE DEF book
  <2>4. Abstract!Credit(book, Abstract!HeldIn(book)) = Credit(book, HeldIn(book))
    <3>1. Abstract!HeldIn(book) = HeldIn(book) /\ HeldIn(book) \in SUBSET Symbols
      BY SameArithmetic DEF HeldIn, Abstract!HeldIn
    <3>2. book \in [Symbols -> Position]
      BY <1>0 DEF book, Call
    <3>3. QED
      BY <3>1, <3>2, SameCredit
  <2>5. Abstract!Flatten
    BY <2>1, <2>2, <2>3, <2>4, SameArithmetic DEF Abstract!Flatten
  <2>6. QED
    BY <2>5 DEF Abstract!Next
<1>19. CASE TrailingWrite(c)
  <2> DEFINE s == call[c].symbol
  <2>1. /\ pc[c] = "trailingWrite" /\ pc'[c] = "idle" /\ UNCHANGED <<cash, dailyPnl>>
        /\ positions' = [positions EXCEPT ![s] = [call[c].pos EXCEPT !.trailing = TRUE]]
    BY <1>0, <1>19 DEF TrailingWrite, Return
  <2>2. /\ s \in Symbols /\ call[c].pos = positions[s] /\ positions[s].trade_id # 0
    BY <1>0, <2>1 DEF Stage, Locals, CallOK
  <2>3. /\ AbstractCash' = AbstractCash /\ AbstractPnl' = AbstractPnl
        /\ AbstractPositions = positions /\ AbstractPositions' = positions'
    BY <1>b, <2>1
  <2>4. Abstract!MarkTrailing(s)
    BY <1>0, <2>1, <2>2, <2>3, SameArithmetic DEF Abstract!MarkTrailing, Held
  <2>5. QED
    BY <2>2, <2>4 DEF Abstract!Next
<1>20. QED
  BY <1>1, <1>2, <1>3, <1>4, <1>5, <1>6, <1>7, <1>8, <1>9, <1>10, <1>11, <1>12,
     <1>13, <1>14, <1>15, <1>16, <1>17, <1>18, <1>19 DEF Proceed, Same

LEMMA InvokeRefines ==
    ASSUME IInv, SerialInv, Orderly, NEW c \in Clients, Invoke(c)
    PROVE  Abstract!Next \/ Abstract!ledger' = Abstract!ledger
<1>0. /\ pc \in [Clients -> Labels] /\ traffic \in Traffic
  BY DEF IInv, TypeOK
<1>1. ASSUME NEW label \in {"ensureInit", "trailingWrite"}, NEW locals,
             Begin(c, label, locals)
      PROVE  Abstract!ledger' = Abstract!ledger
  <2>1. Quiescent /\ UNCHANGED ledger /\ pc' = [pc EXCEPT ![c] = label]
    BY <1>1 DEF Begin, Goto, Disciplined, Orderly
  <2>2. \A d \in Clients : pc[d] = "idle" /\ (d # c => pc'[d] = "idle")
        /\ pc'[c] \in {"ensureInit", "trailingWrite"}
    BY <1>0, <2>1 DEF Quiescent
  <2>3. /\ AbstractCash = cash /\ AbstractPositions = positions /\ AbstractPnl = dailyPnl
    BY <2>2, Shown DEF ShownCash, ShownPositions, ShownPnl
  <2>4. /\ AbstractCash' = cash' /\ AbstractPositions' = positions' /\ AbstractPnl' = dailyPnl'
    BY <2>2, ShownNext DEF ShownCash, ShownPositions, ShownPnl
  <2>5. QED
    BY <2>1, <2>3, <2>4 DEF ledger, Abstract!ledger
<1>2. CASE ResetDailyPnl(c)
  <2>1. Quiescent /\ UNCHANGED <<cash, positions, pc>> /\ dailyPnl' = 0
    BY <1>0, <1>2, BrokerAssumption DEF ResetDailyPnl, Orderly, Habits
  <2>2. /\ AbstractCash = cash /\ AbstractPositions = positions /\ AbstractPnl = dailyPnl
    BY <2>1, Shown DEF ShownCash, ShownPositions, ShownPnl, Quiescent
  <2>3. /\ AbstractCash' = cash' /\ AbstractPositions' = positions' /\ AbstractPnl' = dailyPnl'
    BY <2>1, ShownNext DEF ShownCash, ShownPositions, ShownPnl, Quiescent
  <2>4. QED
    BY <2>1, <2>2, <2>3 DEF Abstract!Next, Abstract!ResetPnl
<1>3. QED
  BY <1>1, <1>2 DEF Invoke, Submit, FlattenAll, TrailingRead

(* Called by one client at a time and never cut short, the Redis command
   sequences of the broker (broker.py:407-420 and 495-745) implement the ledger
   whose operations happen at once. *)
THEOREM LedgerImplemented == Spec => ImplementsLedger
<1>1. IInv /\ SerialInv /\ [Next]_vars =>
        [traffic.habit = "serial" /\ aborts' = 0 => Abstract!Next]_(Abstract!ledger)
  <2> SUFFICES ASSUME IInv, SerialInv, [Next]_vars,
                      traffic.habit = "serial", aborts' = 0
               PROVE  Abstract!Next \/ Abstract!ledger' = Abstract!ledger
    OBVIOUS
  <2>1. ASSUME NEW c \in Clients, Invoke(c)
        PROVE  Abstract!Next \/ Abstract!ledger' = Abstract!ledger
    <3>1. aborts' = aborts
      BY <2>1 DEF Invoke, Submit, FlattenAll, TrailingRead, ResetDailyPnl, Begin
    <3>2. Orderly
      BY <3>1 DEF Orderly
    <3>3. QED
      BY <2>1, <3>2, InvokeRefines
  <2>2. ASSUME NEW c \in Clients, Proceed(c)
        PROVE  Abstract!Next \/ Abstract!ledger' = Abstract!ledger
    <3>1. Orderly
      BY <2>2, OthersCalls DEF Orderly
    <3>2. QED
      BY <2>2, <3>1, ProceedRefines
  <2>3. ASSUME NEW c \in Clients, Abort(c) PROVE FALSE
    BY <2>3 DEF Abort, IInv, TypeOK
  <2>4. CASE UNCHANGED vars
    BY <2>4 DEF vars, Abstract!ledger, AbstractCash, AbstractPositions, AbstractPnl
  <2>5. QED
    BY <2>1, <2>2, <2>3, <2>4 DEF Next
<1>2. QED
  BY <1>1, InitIInv, NextIInv, InitSerial, NextSerial, InitRefines, PTL
  DEF Spec, ImplementsLedger

-----------------------------------------------------------------------------
(* What the trade stream says came in and went out, and the fees of its
   entries, as sums over a log of trades. *)
Fee(t) == IF t.op = "BUY" THEN Commission(t.fill * t.qty) ELSE 0

LEMMA FlowType == \A t \in Fill : Flow(t) \in Int
<1> SUFFICES ASSUME NEW t \in Fill PROVE Flow(t) \in Int
  OBVIOUS
<1>1. t.fill \in Nat /\ t.qty \in Nat
  BY DEF Fill
<1>2. Cost(t.fill, t.qty) \in Nat /\ Proceeds(t.fill, t.qty) \in Nat
  BY <1>1, CostType
<1>3. QED
  BY <1>2 DEF Flow

LEMMA FeeType == \A t \in Fill : Fee(t) \in Int
<1> SUFFICES ASSUME NEW t \in Fill PROVE Fee(t) \in Int
  OBVIOUS
<1>1. t.fill * t.qty \in Nat
  BY DEF Fill
<1>2. Commission(t.fill * t.qty) \in Nat
  BY <1>1, CommissionBound
<1>3. QED
  BY <1>2 DEF Fee

(* The net flow of a log. *)
NetFlowOf(log) == FoldLeft(LAMBDA total, t : total + Flow(t), 0, log)

LEMMA NetFlowIsSum ==
    ASSUME NEW log \in Seq(Fill)
    PROVE  \E g : /\ IsSum(g, [i \in 1..Len(log) |-> Flow(log[i])], 1..Len(log))
                  /\ NetFlowOf(log) = g[1..Len(log)]
<1> DEFINE n == Len(log)
           D == DOMAIN log
           f == [i \in 1..n |-> Flow(log[i])]
           Body(g) == [s \in SUBSET D |-> IF s = {} THEN 0
                         ELSE g[s \ {Max(s)}] + Flow(log[Max(s)])]
           G == CHOOSE g : g = Body(g)
<1>1. n \in Nat /\ D = 1..n
  OBVIOUS
<1>2. f \in [1..n -> Int]
  BY FlowType
<1>3. \A g : FoldsLeft(g, f, n) <=> g = Body(g)
  <2> SUFFICES ASSUME NEW g PROVE FoldsLeft(g, f, n) <=> g = Body(g)
    OBVIOUS
  <2>1. \A s \in SUBSET D : s # {} => f[Max(s)] = Flow(log[Max(s)])
    <3> SUFFICES ASSUME NEW s \in SUBSET D, s # {} PROVE f[Max(s)] = Flow(log[Max(s)])
      OBVIOUS
    <3>1. Max(s) \in 1..n
      BY <1>1, MaxInterval
    <3>2. QED
      BY <3>1
  <2>2. Body(g) = [s \in SUBSET (1..n) |-> IF s = {} THEN 0 ELSE g[s \ {Max(s)}] + f[Max(s)]]
    <3> HIDE DEF f, D, n
    <3> QED BY <1>1, <2>1
  <2>3. QED
    BY <2>2, Zenon DEF FoldsLeft
<1>4. \E g : g = Body(g)
  <2> HIDE DEF Body, f
  <2> QED BY <1>1, <1>2, <1>3, FoldExists
<1>5. G = Body(G)
  <2> HIDE DEF Body
  <2> QED BY <1>4, Zenon
<1>6. NetFlowOf(log) = G[D]
  BY DEF NetFlowOf, FoldLeft, MapThenFoldSet
<1>7. IsSum(G, f, 1..n)
  <2> HIDE DEF G, Body, f
  <2> QED BY <1>1, <1>2, <1>3, <1>5, FoldIsSum
<1>8. QED
  BY <1>1, <1>6, <1>7, Zenon

LEMMA NetFlowAppend ==
    ASSUME NEW log \in Seq(Fill), NEW t \in Fill
    PROVE  /\ NetFlowOf(Append(log, t)) = NetFlowOf(log) + Flow(t)
           /\ NetFlowOf(log) \in Int
<1> DEFINE n == Len(log)
           next == Append(log, t)
           f == [i \in 1..n |-> Flow(log[i])]
           e == [i \in 1..(n + 1) |-> Flow(next[i])]
<1>1. n \in Nat /\ next \in Seq(Fill) /\ Len(next) = n + 1 /\ next[n + 1] = t
  OBVIOUS
<1>2. f \in [1..n -> Int] /\ e \in [1..(n + 1) -> Int]
  <2> HIDE DEF next
  <2> QED BY <1>1, FlowType
<1>3. (\A i \in 1..n : f[i] = e[i]) /\ e[n + 1] = Flow(t)
  BY <1>1
<1>4. PICK g : IsSum(g, f, 1..n) /\ NetFlowOf(log) = g[1..n]
  BY NetFlowIsSum
<1>5. PICK h : IsSum(h, e, 1..(n + 1)) /\ NetFlowOf(next) = h[1..(n + 1)]
  <2> HIDE DEF next
  <2> QED BY <1>1, NetFlowIsSum
<1> HIDE DEF n, next, f, e
<1>6. h[1..(n + 1)] = g[1..n] + e[n + 1] /\ g[1..n] \in Int
  BY <1>1, <1>2, <1>3, <1>4, <1>5, SumAppend
<1>7. QED
  BY <1>3, <1>4, <1>5, <1>6 DEF next

LEMMA NetFlowEmpty == NetFlowOf(<<>>) = 0
<1>1. <<>> \in Seq(Fill) /\ 1..Len(<<>>) = {}
  OBVIOUS
<1>2. PICK g : /\ IsSum(g, [i \in 1..Len(<<>>) |-> Flow(<<>>[i])], 1..Len(<<>>))
               /\ NetFlowOf(<<>>) = g[1..Len(<<>>)]
  BY <1>1, NetFlowIsSum
<1>3. QED
  BY <1>1, <1>2 DEF IsSum

(* The commissions paid on the entries of a log. *)
EntryFeesOf(log) ==
    FoldLeft(LAMBDA total, t : total + (IF t.op = "BUY" THEN Commission(t.fill * t.qty) ELSE 0),
             0, log)

LEMMA EntryFeesIsSum ==
    ASSUME NEW log \in Seq(Fill)
    PROVE  \E g : /\ IsSum(g, [i \in 1..Len(log) |-> Fee(log[i])], 1..Len(log))
                  /\ EntryFeesOf(log) = g[1..Len(log)]
<1> DEFINE n == Len(log)
           D == DOMAIN log
           f == [i \in 1..n |-> Fee(log[i])]
           Body(g) == [s \in SUBSET D |-> IF s = {} THEN 0
                         ELSE g[s \ {Max(s)}]
                              + (IF log[Max(s)].op = "BUY"
                                 THEN Commission(log[Max(s)].fill * log[Max(s)].qty) ELSE 0)]
           G == CHOOSE g : g = Body(g)
<1>1. n \in Nat /\ D = 1..n
  OBVIOUS
<1>2. f \in [1..n -> Int]
  BY FeeType
<1>3. \A g : FoldsLeft(g, f, n) <=> g = Body(g)
  <2> SUFFICES ASSUME NEW g PROVE FoldsLeft(g, f, n) <=> g = Body(g)
    OBVIOUS
  <2>1. \A s \in SUBSET D : s # {} =>
          f[Max(s)] = (IF log[Max(s)].op = "BUY"
                       THEN Commission(log[Max(s)].fill * log[Max(s)].qty) ELSE 0)
    <3> SUFFICES ASSUME NEW s \in SUBSET D, s # {}
                 PROVE  f[Max(s)] = (IF log[Max(s)].op = "BUY"
                                     THEN Commission(log[Max(s)].fill * log[Max(s)].qty) ELSE 0)
      OBVIOUS
    <3>1. Max(s) \in 1..n
      BY <1>1, MaxInterval
    <3>2. QED
      BY <3>1 DEF Fee
  <2>2. Body(g) = [s \in SUBSET (1..n) |-> IF s = {} THEN 0 ELSE g[s \ {Max(s)}] + f[Max(s)]]
    <3> HIDE DEF f, D, n
    <3> QED BY <1>1, <2>1
  <2>3. QED
    BY <2>2, Zenon DEF FoldsLeft
<1>4. \E g : g = Body(g)
  <2> HIDE DEF Body, f
  <2> QED BY <1>1, <1>2, <1>3, FoldExists
<1>5. G = Body(G)
  <2> HIDE DEF Body
  <2> QED BY <1>4, Zenon
<1>6. EntryFeesOf(log) = G[D]
  BY DEF EntryFeesOf, FoldLeft, MapThenFoldSet
<1>7. IsSum(G, f, 1..n)
  <2> HIDE DEF G, Body, f
  <2> QED BY <1>1, <1>2, <1>3, <1>5, FoldIsSum
<1>8. QED
  BY <1>1, <1>6, <1>7, Zenon

LEMMA EntryFeesAppend ==
    ASSUME NEW log \in Seq(Fill), NEW t \in Fill
    PROVE  /\ EntryFeesOf(Append(log, t)) = EntryFeesOf(log) + Fee(t)
           /\ EntryFeesOf(log) \in Int
<1> DEFINE n == Len(log)
           next == Append(log, t)
           f == [i \in 1..n |-> Fee(log[i])]
           e == [i \in 1..(n + 1) |-> Fee(next[i])]
<1>1. n \in Nat /\ next \in Seq(Fill) /\ Len(next) = n + 1 /\ next[n + 1] = t
  OBVIOUS
<1>2. f \in [1..n -> Int] /\ e \in [1..(n + 1) -> Int]
  <2> HIDE DEF next
  <2> QED BY <1>1, FeeType
<1>3. (\A i \in 1..n : f[i] = e[i]) /\ e[n + 1] = Fee(t)
  BY <1>1
<1>4. PICK g : IsSum(g, f, 1..n) /\ EntryFeesOf(log) = g[1..n]
  BY EntryFeesIsSum
<1>5. PICK h : IsSum(h, e, 1..(n + 1)) /\ EntryFeesOf(next) = h[1..(n + 1)]
  <2> HIDE DEF next
  <2> QED BY <1>1, EntryFeesIsSum
<1> HIDE DEF n, next, f, e
<1>6. h[1..(n + 1)] = g[1..n] + e[n + 1] /\ g[1..n] \in Int
  BY <1>1, <1>2, <1>3, <1>4, <1>5, SumAppend
<1>7. QED
  BY <1>3, <1>4, <1>5, <1>6 DEF next

LEMMA EntryFeesEmpty == EntryFeesOf(<<>>) = 0
<1>1. <<>> \in Seq(Fill) /\ 1..Len(<<>>) = {}
  OBVIOUS
<1>2. PICK g : /\ IsSum(g, [i \in 1..Len(<<>>) |-> Fee(<<>>[i])], 1..Len(<<>>))
               /\ EntryFeesOf(<<>>) = g[1..Len(<<>>)]
  BY <1>1, EntryFeesIsSum
<1>3. QED
  BY <1>1, <1>2 DEF IsSum

(* The value of a book at its entry prices. *)
BookOf(book) == MapThenSumSet(LAMBDA s : book[s].avg * book[s].qty, Symbols)

LEMMA BookIsSum ==
    ASSUME NEW book \in [Symbols -> Position]
    PROVE  \E g : /\ IsSum(g, [s \in Symbols |-> book[s].avg * book[s].qty], Symbols)
                  /\ BookOf(book) = g[Symbols]
<1> DEFINE f == [s \in Symbols |-> book[s].avg * book[s].qty]
           Body(g) == [s \in SUBSET Symbols |-> IF s = {} THEN 0
                         ELSE book[CHOOSE x \in s : TRUE].avg * book[CHOOSE x \in s : TRUE].qty
                              + g[s \ {CHOOSE x \in s : TRUE}]]
           G == CHOOSE g : g = Body(g)
<1>1. IsFiniteSet(Symbols)
  BY FillsAssumption
<1>2. f \in [Symbols -> Int]
  BY PositionValue
<1>3. \A g : Chooses(g, f, Symbols) <=> g = Body(g)
  <2> SUFFICES ASSUME NEW g PROVE Chooses(g, f, Symbols) <=> g = Body(g)
    OBVIOUS
  <2>1. \A s \in SUBSET Symbols : s # {} => (CHOOSE x \in s : TRUE) \in Symbols
    OBVIOUS
  <2>2. \A s \in SUBSET Symbols : s # {} =>
           f[CHOOSE x \in s : TRUE] = book[CHOOSE x \in s : TRUE].avg
                                      * book[CHOOSE x \in s : TRUE].qty
    BY <2>1
  <2>3. Body(g) = [s \in SUBSET Symbols |-> IF s = {} THEN 0
                ELSE f[CHOOSE x \in s : TRUE] + g[s \ {CHOOSE x \in s : TRUE}]]
    <3> HIDE DEF f
    <3> QED BY <2>2
  <2>4. QED
    BY <2>3, Zenon DEF Chooses
<1>4. \E g : g = Body(g)
  <2> HIDE DEF Body
  <2> QED BY <1>1, <1>2, <1>3, ChooseExists
<1>5. G = Body(G)
  <2> HIDE DEF Body
  <2> QED BY <1>4, Zenon
<1>6. BookOf(book) = G[Symbols]
  BY DEF BookOf, MapThenSumSet, MapThenFoldSet
<1>7. IsSum(G, f, Symbols)
  <2> HIDE DEF G, Body
  <2> QED BY <1>2, <1>3, <1>5, ChooseIsSum
<1>8. QED
  BY <1>6, <1>7, Zenon

LEMMA BookChange ==
    ASSUME NEW book \in [Symbols -> Position], NEW s \in Symbols, NEW pos \in Position
    PROVE  /\ BookOf(book) \in Int
           /\ BookOf([book EXCEPT ![s] = pos]) =
                 BookOf(book) - book[s].avg * book[s].qty + pos.avg * pos.qty
<1> DEFINE next == [book EXCEPT ![s] = pos]
           f == [x \in Symbols |-> book[x].avg * book[x].qty]
           e == [x \in Symbols |-> next[x].avg * next[x].qty]
<1>1. IsFiniteSet(Symbols) /\ Symbols \in SUBSET Symbols
  BY FillsAssumption
<1>2. next \in [Symbols -> Position] /\ next[s] = pos
  OBVIOUS
<1>3. f \in [Symbols -> Int] /\ e \in [Symbols -> Int]
  <2> HIDE DEF next
  <2> QED BY <1>2, PositionValue
<1>4. \A x \in Symbols : x # s => f[x] = e[x]
  OBVIOUS
<1>5. f[s] = book[s].avg * book[s].qty /\ e[s] = pos.avg * pos.qty
  BY <1>2
<1>6. PICK g : IsSum(g, f, Symbols) /\ BookOf(book) = g[Symbols]
  BY BookIsSum
<1>7. PICK h : IsSum(h, e, Symbols) /\ BookOf(next) = h[Symbols]
  <2> HIDE DEF next
  <2> QED BY <1>2, BookIsSum
<1> HIDE DEF next, f, e
<1>8. h[Symbols] = g[Symbols] - f[s] + e[s]
  BY <1>1, <1>3, <1>4, <1>6, <1>7, SumChange
<1>9. g[Symbols] \in Int
  BY <1>1, <1>3, <1>6, SumType
<1>10. QED
  BY <1>5, <1>6, <1>7, <1>8, <1>9 DEF next

-----------------------------------------------------------------------------
(* The books under a careful caller. *)

LEMMA TotalsNow ==
    /\ NetFlow = NetFlowOf(trades) /\ NetFlow' = NetFlowOf(trades')
    /\ EntryFees = EntryFeesOf(trades) /\ EntryFees' = EntryFeesOf(trades')
    /\ BookValue = BookOf(positions) /\ BookValue' = BookOf(positions')
<1>1. NetFlow = NetFlowOf(trades)
  BY DEF NetFlow, NetFlowOf
<1>2. (NetFlow = NetFlowOf(trades))'
  BY <1>1, PTL
<1>3. EntryFees = EntryFeesOf(trades)
  BY DEF EntryFees, EntryFeesOf
<1>4. (EntryFees = EntryFeesOf(trades))'
  BY <1>3, PTL
<1>5. BookValue = BookOf(positions)
  BY DEF BookValue, BookOf
<1>6. (BookValue = BookOf(positions))'
  BY <1>5, PTL
<1>7. QED
  BY <1>1, <1>2, <1>3, <1>4, <1>5, <1>6

LEMMA TotalsType ==
    ASSUME IInv
    PROVE  /\ NetFlow \in Int /\ EntryFees \in Int /\ BookValue \in Int
           /\ cash \in Int /\ dailyPnl \in Int /\ InitialCash \in Int
<1>1. /\ trades \in Seq(Fill) /\ positions \in [Symbols -> Position]
      /\ cash \in Nat /\ dailyPnl \in Int
  BY DEF IInv, TypeOK
<1>2. NetFlow \in Int /\ EntryFees \in Int
  <2>1. CASE Fill = {}
    <3>1. trades = <<>>
      BY <1>1, <2>1
    <3>2. QED
      BY <3>1, TotalsNow, NetFlowEmpty, EntryFeesEmpty
  <2>2. CASE Fill # {}
    BY <1>1, <2>2, TotalsNow, NetFlowAppend, EntryFeesAppend
  <2>3. QED
    BY <2>1, <2>2
<1>3. BookValue \in Int
  <2>1. CASE Symbols = {}
    <3>1. PICK g : /\ IsSum(g, [s \in Symbols |-> positions[s].avg * positions[s].qty], Symbols)
                   /\ BookOf(positions) = g[Symbols]
      BY <1>1, BookIsSum
    <3>2. QED
      BY <2>1, <3>1, TotalsNow DEF IsSum
  <2>2. CASE Symbols # {}
    BY <1>1, <2>2, NoPositionType, TotalsNow, BookChange
  <2>3. QED
    BY <2>1, <2>2
<1>4. QED
  BY <1>1, <1>2, <1>3, FillsAssumption

(* The amounts of the call in progress. *)
LEMMA CallAmounts ==
    ASSUME IInv, NEW c \in Clients
    PROVE  /\ call[c].fill * call[c].qty \in Nat
           /\ Commission(call[c].fill * call[c].qty) \in Nat
           /\ Cost(call[c].fill, call[c].qty) =
                 call[c].fill * call[c].qty + Commission(call[c].fill * call[c].qty)
           /\ Proceeds(call[c].fill, call[c].qty) =
                 call[c].fill * call[c].qty - Commission(call[c].fill * call[c].qty)
           /\ call[c].pos.avg * call[c].qty \in Nat
           /\ call[c].pos \in Position /\ call[c].cash \in Nat /\ call[c].pnl \in Int
           /\ call[c].qty \in Nat /\ call[c].fill \in Nat
<1>1. call[c] \in Call
  BY DEF IInv, TypeOK
<1>2. call[c].fill \in Nat /\ call[c].qty \in Nat /\ call[c].pos.avg \in Nat
  BY <1>1 DEF Call, Position
<1>3. call[c].fill * call[c].qty \in Nat /\ call[c].pos.avg * call[c].qty \in Nat
  BY <1>2
<1>4. Commission(call[c].fill * call[c].qty) \in Nat
  BY <1>3, CommissionBound
<1>5. call[c].pos \in Position /\ call[c].cash \in Nat /\ call[c].pnl \in Int
  BY <1>1 DEF Call
<1>6. QED
  BY <1>2, <1>3, <1>4, <1>5 DEF Cost, Proceeds

LEMMA WorthStep ==
    ASSUME IInv, NEW c \in Clients, Locals(c), Stage(c), Clean(positions), Untouched,
           Apt(c), Worth(c), Proceed(c)
    PROVE  Worth(c)'
<1> USE DEF Goto, ledger, journal
<1>0. /\ pc \in [Clients -> Labels] /\ call \in [Clients -> Call] /\ call[c] \in Call
      /\ positions \in [Symbols -> Position] /\ trades \in Seq(Fill)
      /\ CallOK(c) /\ cash \in Nat
  BY DEF IInv, TypeOK
<1> DEFINE v == call[c].fill * call[c].qty
           k == Commission(v)
           a == call[c].pos.avg * call[c].qty
           Early == AtStart \cup {"idle", "readPosition", "setCash", "trailingWrite"}
<1>a. /\ v \in Nat /\ k \in Nat /\ a \in Nat
      /\ Cost(call[c].fill, call[c].qty) = v + k
      /\ Proceeds(call[c].fill, call[c].qty) = v - k
  BY CallAmounts
<1>b. /\ NetFlow \in Int /\ EntryFees \in Int /\ BookValue \in Int
      /\ cash \in Int /\ dailyPnl \in Int /\ InitialCash \in Int
  BY TotalsType
<1>c. pc[c] \in Early => Ahead(c) = 0 /\ Unbooked(c) = 0
  BY DEF Ahead, Unbooked, FillLabels, AtStart, Posted
<1>d. pc'[c] \in Early => Ahead(c)' = 0 /\ Unbooked(c)' = 0
  BY DEF Ahead, Unbooked, FillLabels, AtStart, Posted
<1>e. Flow(Filled(c)) = IF call[c].op = "BUY" THEN -(v + k) ELSE v - k
  BY <1>a DEF Flow, Filled
<1>f. Filled(c)' = Filled(c) \/ call'[c] # call[c]
  BY DEF Filled
<1>g. UNCHANGED trades => NetFlow' = NetFlow /\ EntryFees' = EntryFees
  BY TotalsNow
<1>h. UNCHANGED positions => BookValue' = BookValue
  BY TotalsNow
<1> HIDE DEF v, k, a
<1>i. ASSUME pc[c] \in Early, pc'[c] \in Early, UNCHANGED <<cash, dailyPnl, positions, trades>>
      PROVE  Worth(c)'
  BY <1>c, <1>d, <1>g, <1>h, <1>i, <1>b DEF Worth, Books
<1>1. CASE EnsureInitialized(c)
  BY <1>0, <1>1, <1>i DEF EnsureInitialized, AtStart
<1>2. CASE SeedCash(c)
  BY <1>0, <1>2, <1>i DEF SeedCash, Untouched, Seeding, AtStart
<1>3. CASE SeedPnl(c)
  BY <1>0, <1>3, <1>i DEF SeedPnl, Untouched, Seeding, AtStart
<1>4. CASE SeedCount(c)
  BY <1>0, <1>4, <1>i DEF SeedCount, AtStart
<1>5. CASE ReadCash(c)
  <2>1. call[c].op \in Sides
    BY <1>0, <1>5 DEF ReadCash, Locals, Apt, AtStart
  <2>2. pc'[c] \in {"setCash", "readPosition"}
    BY <1>0, <1>5, <2>1 DEF ReadCash, Sides
  <2>3. QED
    BY <1>5, <2>2, <1>i DEF ReadCash, AtStart
<1>6. CASE DebitCash(c)
  <2>1. /\ pc[c] = "setCash" /\ pc'[c] = "setPosition" /\ call[c].op = "BUY"
        /\ cash' = cash - (v + k)
        /\ UNCHANGED <<dailyPnl, positions, trades, call>>
    BY <1>0, <1>6, <1>a DEF DebitCash, Stage
  <2>2. Ahead(c)' = -(v + k) /\ Unbooked(c)' = -(v + k)
    <3>1. Filled(c)' = Filled(c)
      BY <2>1, <1>f
    <3>2. Ahead(c)' = Flow(Filled(c))
      BY <2>1, <3>1 DEF Ahead, FillLabels, Flow
    <3>3. Unbooked(c)' = -Cost(call[c].fill, call[c].qty)
      BY <2>1 DEF Unbooked, Posted
    <3>4. QED
      BY <2>1, <3>2, <3>3, <1>a, <1>e
  <2>3. Ahead(c) = 0 /\ Unbooked(c) = 0
    BY <2>1, <1>c
  <2>4. QED
    BY <2>1, <2>2, <2>3, <1>a, <1>b, <1>g, <1>h DEF Worth, Books
<1>7. CASE SetPosition(c)
  <2> DEFINE s == call[c].symbol
             post == [qty |-> call[c].qty, avg |-> call[c].fill,
                      trade_id |-> call[c].id, trailing |-> FALSE]
  <2>1. /\ pc[c] = "setPosition" /\ pc'[c] = "pushOrder"
        /\ positions' = [positions EXCEPT ![s] = post]
        /\ UNCHANGED <<cash, dailyPnl, trades, call>>
    BY <1>0, <1>7 DEF SetPosition
  <2>2. call[c].op = "BUY" /\ s \in Symbols /\ post \in Position /\ post.avg * post.qty = v
    BY <1>0, <2>1 DEF Locals, CallOK, Sides, Call, Position, v
  <2>3. positions[s].avg * positions[s].qty = 0
    <3>1. positions[s] = NoPosition
      BY <2>1, <2>2 DEF Apt, Clean, Held
    <3>2. QED
      BY <3>1 DEF NoPosition
  <2>4. BookValue' = BookValue + v
    <3> HIDE DEF post, s
    <3>1. BookOf(positions') = BookOf(positions) - positions[s].avg * positions[s].qty + v
      BY <1>0, <2>1, <2>2, BookChange
    <3>2. QED
      BY <2>3, <3>1, <1>a, <1>b, TotalsNow
  <2>5. /\ Ahead(c)' = Ahead(c)
        /\ Unbooked(c) = -(v + k) /\ Unbooked(c)' = -k
    <3>1. Filled(c)' = Filled(c)
      BY <2>1, <1>f
    <3>2. Ahead(c)' = Ahead(c)
      BY <2>1, <3>1 DEF Ahead, FillLabels, Flow
    <3>3. Unbooked(c)' = -k
      BY <2>1, <2>2 DEF Unbooked, Posted, k, v
    <3>4. Unbooked(c) = -(v + k)
      BY <2>1, <1>a DEF Unbooked, Posted
    <3>5. QED
      BY <3>2, <3>3, <3>4
  <2>6. QED
    BY <2>1, <2>4, <2>5, <1>a, <1>b, <1>g DEF Worth, Books
<1>8. CASE ReadPosition(c)
  BY <1>0, <1>8, <1>i DEF ReadPosition
<1>9. CASE CreditCash(c)
  <2>1. /\ pc[c] = "setCash" /\ pc'[c] = "readPnl" /\ call[c].op = "SELL"
        /\ cash' = cash + (v - k)
        /\ UNCHANGED <<dailyPnl, positions, trades, call>>
    BY <1>0, <1>9, <1>a DEF CreditCash, Stage
  <2>2. Ahead(c)' = v - k /\ Unbooked(c)' = v - k
    <3>1. Filled(c)' = Filled(c)
      BY <2>1, <1>f
    <3>2. Ahead(c)' = Flow(Filled(c))
      BY <2>1, <3>1 DEF Ahead, FillLabels, Flow
    <3>3. Unbooked(c)' = Proceeds(call[c].fill, call[c].qty)
      BY <2>1 DEF Unbooked, Posted
    <3>4. QED
      BY <2>1, <3>2, <3>3, <1>a, <1>e
  <2>3. Ahead(c) = 0 /\ Unbooked(c) = 0
    BY <2>1, <1>c
  <2>4. QED
    BY <2>1, <2>2, <2>3, <1>a, <1>b, <1>g, <1>h DEF Worth, Books
<1>10. CASE ReadPnl(c)
  <2>1. /\ pc[c] = "readPnl" /\ pc'[c] = "setPnl"
        /\ call'[c].op = call[c].op /\ call'[c].symbol = call[c].symbol
        /\ call'[c].qty = call[c].qty /\ call'[c].fill = call[c].fill
        /\ call'[c].id = call[c].id
        /\ UNCHANGED <<cash, dailyPnl, positions, trades>>
    BY <1>0, <1>10 DEF ReadPnl, Call
  <2>2. Ahead(c)' = Ahead(c) /\ Unbooked(c)' = Unbooked(c)
    <3>1. Filled(c)' = Filled(c)
      BY <2>1 DEF Filled
    <3>2. QED
      BY <2>1, <3>1 DEF Ahead, Unbooked, FillLabels, Flow
  <2>3. QED
    BY <2>1, <2>2, <1>g, <1>h DEF Worth, Books
<1>11. CASE SetPnl(c)
  <2>1. /\ pc[c] = "setPnl" /\ pc'[c] = "deletePosition"
        /\ dailyPnl' = dailyPnl + RealisedPnl(call[c].pos, call[c].fill, call[c].qty)
        /\ UNCHANGED <<cash, positions, trades, call>>
    BY <1>0, <1>11 DEF SetPnl, Stage
  <2>2. RealisedPnl(call[c].pos, call[c].fill, call[c].qty) = (v - k) - a
    <3>1. call[c].pos.trade_id # 0
      BY <2>1, <1>0 DEF Apt, Stage, Locals, Selling, Held
    <3>2. QED
      BY <3>1, <1>a DEF RealisedPnl, EntryPrice, a
  <2>3. Ahead(c)' = Ahead(c) /\ Unbooked(c) = v - k /\ Unbooked(c)' = a
    <3>1. Filled(c)' = Filled(c)
      BY <2>1, <1>f
    <3>2. Ahead(c)' = Ahead(c)
      BY <2>1, <3>1 DEF Ahead, FillLabels, Flow
    <3>3. Unbooked(c)' = a
      BY <2>1 DEF Unbooked, a, Posted
    <3>4. Unbooked(c) = v - k
      BY <2>1, <1>a DEF Unbooked, Posted
    <3>5. QED
      BY <3>2, <3>3, <3>4
  <2>4. QED
    BY <2>1, <2>2, <2>3, <1>a, <1>b, <1>g, <1>h DEF Worth, Books
<1>12. CASE DeletePosition(c)
  <2> DEFINE s == call[c].symbol
  <2>1. /\ pc[c] = "deletePosition" /\ pc'[c] = "pushOrder"
        /\ positions' = [positions EXCEPT ![s] = NoPosition]
        /\ UNCHANGED <<cash, dailyPnl, trades, call>>
    BY <1>0, <1>12 DEF DeletePosition
  <2>2. call[c].op = "SELL" /\ s \in Symbols
    BY <1>0, <2>1 DEF Locals, CallOK, Selling, Sides
  <2>3. positions[s].avg * positions[s].qty = a
    BY <2>1, <2>2 DEF Apt, Stage, Selling, a
  <2>4. BookValue' = BookValue - a
    <3> HIDE DEF s
    <3>1. NoPosition.avg * NoPosition.qty = 0
      BY DEF NoPosition
    <3>2. BookOf(positions') = BookOf(positions) - a + 0
      BY <1>0, <2>1, <2>2, <2>3, <3>1, NoPositionType, BookChange
    <3>3. QED
      BY <3>2, <1>a, <1>b, TotalsNow
  <2>5. Ahead(c)' = Ahead(c) /\ Unbooked(c) = a /\ Unbooked(c)' = 0
    <3>1. Filled(c)' = Filled(c)
      BY <2>1, <1>f
    <3>2. Ahead(c)' = Ahead(c)
      BY <2>1, <3>1 DEF Ahead, FillLabels, Flow
    <3>3. Unbooked(c)' = 0 /\ Unbooked(c) = a
      BY <2>1, <2>2 DEF Unbooked, Posted, a
    <3>4. QED
      BY <3>2, <3>3
  <2>6. QED
    BY <2>1, <2>4, <2>5, <1>a, <1>b, <1>g DEF Worth, Books
<1>13. CASE PushOrder(c) \/ IncrTradeCount(c)
  <2>1. /\ pc[c] \in Posted /\ pc'[c] \in Posted
        /\ UNCHANGED <<cash, dailyPnl, positions, trades, call>>
    BY <1>0, <1>13 DEF PushOrder, IncrTradeCount, Posted
  <2>2. Ahead(c)' = Ahead(c) /\ Unbooked(c)' = Unbooked(c)
    <3>1. Filled(c)' = Filled(c)
      BY <2>1, <1>f
    <3>2. QED
      BY <2>1, <3>1 DEF Ahead, Unbooked, FillLabels, Posted, Flow
  <2>3. QED
    BY <2>1, <2>2, <1>g, <1>h DEF Worth, Books
<1>14. CASE ProduceTrade(c)
  <2>1. /\ pc[c] = "produceTrade" /\ pc'[c] = "idle"
        /\ trades' = Append(trades, Filled(c))
        /\ UNCHANGED <<cash, dailyPnl, positions>>
    BY <1>0, <1>14 DEF ProduceTrade, Return
  <2>2. Filled(c) \in Fill
    BY <2>1, FilledType DEF FillLabels
  <2>3. NetFlow' = NetFlow + Flow(Filled(c)) /\ EntryFees' = EntryFees + Fee(Filled(c))
    BY <1>0, <2>1, <2>2, NetFlowAppend, EntryFeesAppend, TotalsNow
  <2>4. Ahead(c) = Flow(Filled(c)) /\ Ahead(c)' = 0
    BY <2>1, <1>d DEF Ahead, FillLabels
  <2>5. Unbooked(c) = -Fee(Filled(c)) /\ Unbooked(c)' = 0
    BY <2>1, <1>d DEF Unbooked, Posted, Fee, Filled
  <2>6. Flow(Filled(c)) \in Int /\ Fee(Filled(c)) \in Int
    BY <2>2, FlowType, FeeType
  <2>7. /\ cash = InitialCash + NetFlow + Flow(Filled(c))
        /\ cash = InitialCash + dailyPnl - EntryFees - BookValue + (-Fee(Filled(c)))
    BY <2>4, <2>5 DEF Worth, Books
  <2>8. /\ cash = InitialCash + NetFlow' + 0
        /\ cash = InitialCash + dailyPnl - EntryFees' - BookValue + 0
    <3> DEFINE x == Flow(Filled(c))
               y == Fee(Filled(c))
    <3>1. x \in Int /\ y \in Int /\ NetFlow' = NetFlow + x /\ EntryFees' = EntryFees + y
      BY <2>3, <2>6
    <3>2. /\ cash = InitialCash + NetFlow + x
          /\ cash = InitialCash + dailyPnl - EntryFees - BookValue + (-y)
      BY <2>7
    <3> HIDE DEF x, y
    <3>3. QED
      BY <3>1, <3>2, <1>b
  <2>9. QED
    BY <2>1, <2>4, <2>5, <2>8, <1>h DEF Worth, Books
<1>15. CASE ReadPositions(c)
  BY <1>0, <1>15 DEF ReadPositions, Locals, Apt
<1>16. ASSUME NEW s \in Symbols, FlattenOne(c, s) PROVE Worth(c)'
  BY <1>0, <1>16 DEF FlattenOne, Locals, Apt
<1>17. CASE FlattenCredit(c)
  BY <1>0, <1>17 DEF FlattenCredit, Locals, Apt
<1>18. CASE TrailingWrite(c)
  <2> DEFINE s == call[c].symbol
             post == [call[c].pos EXCEPT !.trailing = TRUE]
  <2>1. /\ pc[c] = "trailingWrite" /\ pc'[c] = "idle"
        /\ positions' = [positions EXCEPT ![s] = post]
        /\ UNCHANGED <<cash, dailyPnl, trades>>
    BY <1>0, <1>18 DEF TrailingWrite, Return
  <2>2. /\ s \in Symbols /\ call[c].pos = positions[s]
    BY <1>0, <2>1 DEF Stage, Locals, CallOK
  <2>3. post \in Position /\ post.avg = positions[s].avg /\ post.qty = positions[s].qty
    BY <1>0, <2>2 DEF Position
  <2>4. BookValue' = BookValue
    <3> HIDE DEF post, s
    <3>1. positions[s].avg * positions[s].qty \in Int
      BY <1>0, <2>2, PositionValue
    <3>2. BookOf(positions') = BookOf(positions) - positions[s].avg * positions[s].qty
                               + positions[s].avg * positions[s].qty
      BY <1>0, <2>1, <2>2, <2>3, BookChange
    <3>3. QED
      BY <3>1, <3>2, <1>b, TotalsNow
  <2>5. Ahead(c) = 0 /\ Unbooked(c) = 0 /\ Ahead(c)' = 0 /\ Unbooked(c)' = 0
    BY <2>1, <1>c, <1>d
  <2>6. QED
    BY <2>1, <2>4, <2>5, <1>b, <1>g DEF Worth, Books
<1>19. QED
  BY <1>1, <1>2, <1>3, <1>4, <1>5, <1>6, <1>7, <1>8, <1>9, <1>10, <1>11, <1>12,
     <1>13, <1>14, <1>15, <1>16, <1>17, <1>18 DEF Proceed

LEMMA AptStep ==
    ASSUME IInv, NEW c \in Clients, Locals(c), Stage(c), Apt(c), Proceed(c)
    PROVE  Apt(c)'
<1> USE DEF Goto, ledger, journal, AtStart, Selling, Sides
<1>0. /\ pc \in [Clients -> Labels] /\ call \in [Clients -> Call] /\ call[c] \in Call
      /\ positions \in [Symbols -> Position]
  BY DEF IInv, TypeOK
<1>1. ASSUME UNCHANGED positions, call'[c].op = call[c].op, call'[c].symbol = call[c].symbol,
             call[c].op = "SELL" => call'[c].qty = call[c].qty,
             call[c].op = "BUY" /\ pc'[c] \in AtStart \cup {"setCash", "setPosition"} =>
                pc[c] \in AtStart \cup {"setCash", "setPosition"},
             call[c].op = "SELL" /\ pc'[c] \in AtStart \cup Selling \cup {"setCash"} =>
                pc[c] \in AtStart \cup Selling \cup {"setCash"}
      PROVE  Apt(c)'
  BY <1>1 DEF Apt, Held
<1>2. CASE EnsureInitialized(c)
  BY <1>0, <1>1, <1>2 DEF EnsureInitialized
<1>3. CASE SeedCash(c) \/ SeedPnl(c) \/ SeedCount(c)
  BY <1>0, <1>1, <1>3 DEF SeedCash, SeedPnl, SeedCount
<1>5. CASE ReadCash(c)
  <2>1. /\ call'[c].op = call[c].op /\ call'[c].symbol = call[c].symbol
        /\ (call[c].op = "SELL" => call'[c].qty = call[c].qty)
        /\ pc[c] = "readCash"
    BY <1>0, <1>5 DEF ReadCash, Call
  <2>2. QED
    BY <1>1, <1>5, <2>1 DEF ReadCash
<1>6. CASE DebitCash(c)
  BY <1>0, <1>1, <1>6 DEF DebitCash
<1>7. CASE SetPosition(c)
  BY <1>0, <1>7 DEF SetPosition, Locals, Apt
<1>8. CASE ReadPosition(c)
  <2>1. /\ call'[c].op = call[c].op /\ call'[c].symbol = call[c].symbol
        /\ call'[c].qty = call[c].qty
        /\ pc[c] = "readPosition"
    BY <1>0, <1>8 DEF ReadPosition, Call
  <2>2. QED
    BY <1>0, <1>1, <1>8, <2>1 DEF ReadPosition, Locals
<1>9. CASE CreditCash(c)
  BY <1>0, <1>1, <1>9 DEF CreditCash
<1>10. CASE ReadPnl(c)
  <2>1. /\ call'[c].op = call[c].op /\ call'[c].symbol = call[c].symbol
        /\ call'[c].qty = call[c].qty
        /\ pc[c] = "readPnl"
    BY <1>0, <1>10 DEF ReadPnl, Call
  <2>2. QED
    BY <1>0, <1>1, <1>10, <2>1 DEF ReadPnl, Locals
<1>11. CASE SetPnl(c)
  BY <1>0, <1>1, <1>11 DEF SetPnl, Locals
<1>12. CASE DeletePosition(c)
  BY <1>0, <1>12 DEF DeletePosition, Locals, Apt
<1>13. CASE PushOrder(c) \/ IncrTradeCount(c)
  BY <1>0, <1>1, <1>13 DEF PushOrder, IncrTradeCount
<1>14. CASE ProduceTrade(c)
  BY <1>0, <1>14 DEF ProduceTrade, Return, NoCall, Apt
<1>15. CASE ReadPositions(c)
  BY <1>0, <1>15 DEF ReadPositions, Locals, Apt
<1>16. ASSUME NEW s \in Symbols, FlattenOne(c, s) PROVE Apt(c)'
  BY <1>0, <1>16 DEF FlattenOne, Locals, Apt
<1>17. CASE FlattenCredit(c)
  BY <1>0, <1>17 DEF FlattenCredit, Locals, Apt
<1>18. CASE TrailingWrite(c)
  BY <1>0, <1>18 DEF TrailingWrite, Return, NoCall, Apt
<1>19. QED
  BY <1>2, <1>3, <1>5, <1>6, <1>7, <1>8, <1>9, <1>10, <1>11, <1>12,
     <1>13, <1>14, <1>15, <1>16, <1>17, <1>18 DEF Proceed

(* Between calls no fill is in progress, so there is nothing to be ahead of. *)
LEMMA WorthIdle ==
    ASSUME IInv, NEW c \in Clients, pc[c] = "idle"
    PROVE  Worth(c) <=> cash = InitialCash + NetFlow /\ cash = Books
<1>1. Ahead(c) = 0 /\ Unbooked(c) = 0
  BY DEF Ahead, Unbooked, FillLabels, Posted
<1>2. NetFlow \in Int /\ Books \in Int /\ InitialCash \in Int
  BY TotalsType DEF Books
<1>3. QED
  BY <1>1, <1>2 DEF Worth

LEMMA TotalsTypeNext == (IInv => NetFlow \in Int /\ Books \in Int /\ InitialCash \in Int)'
<1>1. IInv => NetFlow \in Int /\ Books \in Int /\ InitialCash \in Int
  BY TotalsType DEF Books
<1>2. QED
  BY <1>1, PTL

LEMMA WorthIdleNext ==
    ASSUME IInv', NEW c \in Clients, pc'[c] = "idle"
    PROVE  Worth(c)' <=> cash' = InitialCash + NetFlow' /\ cash' = Books'
<1>1. Ahead(c)' = 0 /\ Unbooked(c)' = 0
  BY DEF Ahead, Unbooked, FillLabels, Posted
<1>2. NetFlow' \in Int /\ Books' \in Int /\ InitialCash \in Int
  BY TotalsTypeNext
<1>3. QED
  BY <1>1, <1>2 DEF Worth

LEMMA ProceedCareful ==
    ASSUME IInv, IInv', SerialInv, CarefulInv, NEW c \in Clients, Proceed(c)
    PROVE  CarefulInv'
<1> SUFFICES ASSUME CarefulNow'
             PROVE  /\ \A d \in Clients : Apt(d)'
                    /\ Quiescent' => cash' = InitialCash + NetFlow' /\ cash' = Books'
                    /\ \A d \in Clients : pc'[d] # "idle" => Worth(d)'
  BY DEF CarefulInv
<1>1. CarefulNow /\ pc[c] # "idle" /\ Orderly
  BY OthersCalls DEF CarefulNow, Orderly
<1>2. /\ Apt(c) /\ Worth(c) /\ Locals(c) /\ Stage(c) /\ Clean(positions) /\ Untouched
      /\ \A d \in Clients : d # c => pc[d] = "idle" /\ pc'[d] = "idle"
                                     /\ call'[d] = call[d] /\ Locals(d)
  BY <1>1, OthersCalls DEF SerialInv, CarefulInv, Alone, Orderly
<1>3. Worth(c)' /\ Apt(c)'
  BY <1>2, WorthStep, AptStep
<1>4. \A d \in Clients : d # c => Apt(d)'
  BY <1>2 DEF Apt, Locals
<1>5. Quiescent' => cash' = InitialCash + NetFlow' /\ cash' = Books'
  BY <1>3, WorthIdleNext DEF Quiescent
<1>6. QED
  BY <1>2, <1>3, <1>4, <1>5

LEMMA InvokeCareful ==
    ASSUME IInv, IInv', SerialInv, CarefulInv, NEW c \in Clients, Invoke(c)
    PROVE  CarefulInv'
<1> SUFFICES ASSUME CarefulNow'
             PROVE  /\ \A d \in Clients : Apt(d)'
                    /\ Quiescent' => cash' = InitialCash + NetFlow' /\ cash' = Books'
                    /\ \A d \in Clients : pc'[d] # "idle" => Worth(d)'
  BY DEF CarefulInv
<1>0. pc \in [Clients -> Labels] /\ call \in [Clients -> Call]
  BY DEF IInv, TypeOK
<1>1. ASSUME NEW label \in {"ensureInit", "trailingWrite"}, NEW locals,
             Begin(c, label, locals),
             label = "trailingWrite" => locals.op = "TRAIL"
      PROVE  /\ \A d \in Clients : Apt(d)'
             /\ ~Quiescent'
             /\ \A d \in Clients : pc'[d] # "idle" => Worth(d)'
  <2>1. /\ pc' = [pc EXCEPT ![c] = label] /\ call' = [call EXCEPT ![c] = locals]
        /\ UNCHANGED <<cash, positions, dailyPnl, trades, aborts, traffic>>
        /\ Quiescent /\ Careful(locals)
    BY <1>1 DEF Begin, Goto, Disciplined, ledger, journal, CarefulNow
  <2>2. /\ CarefulNow /\ \A d \in Clients : pc[d] = "idle"
    BY <2>1 DEF CarefulNow, Quiescent
  <2>3. Apt(c)'
    BY <1>0, <1>1, <2>1 DEF Apt, Careful, Held
  <2>4. ASSUME NEW d \in Clients, d # c PROVE Apt(d)' /\ pc'[d] = "idle"
    <3>1. call'[d] = call[d] /\ pc'[d] = pc[d] /\ Locals(d) /\ pc[d] = "idle"
      BY <1>0, <2>1, <2>2, <2>4 DEF SerialInv
    <3>2. QED
      BY <3>1 DEF Apt, Locals
  <2>5. Worth(c)'
    <3>1. Worth(c)
      BY <2>1, <2>2, WorthIdle DEF CarefulInv, CarefulNow
    <3>2. Ahead(c) = 0 /\ Unbooked(c) = 0
      BY <2>2 DEF Ahead, Unbooked, FillLabels, Posted
    <3>3. Ahead(c)' = 0 /\ Unbooked(c)' = 0
      BY <1>0, <2>1 DEF Ahead, Unbooked, FillLabels, Posted
    <3>4. NetFlow' = NetFlow /\ Books' = Books
      BY <2>1, TotalsNow DEF Books
    <3>5. QED
      BY <2>1, <3>1, <3>2, <3>3, <3>4 DEF Worth
  <2>6. ~Quiescent'
    BY <1>0, <2>1 DEF Quiescent
  <2>7. QED
    BY <2>3, <2>4, <2>5, <2>6
<1>2. ASSUME NEW side \in Sides, NEW s \in Symbols, NEW q \in Quantities, NEW p \in Prices,
             Submit(c, side, s, q, p)
      PROVE  /\ \A d \in Clients : Apt(d)'
             /\ ~Quiescent'
             /\ \A d \in Clients : pc'[d] # "idle" => Worth(d)'
  <2> DEFINE l == [NoCall EXCEPT !.op = side, !.symbol = s, !.qty = q,
                                 !.fill = FillPrice(side, p), !.id = nextId]
  <2>1. Begin(c, "ensureInit", l)
    BY <1>2 DEF Submit
  <2> HIDE DEF l
  <2>2. QED
    BY <1>1, <2>1
<1>3. ~FlattenAll(c)
  <2> DEFINE l == [NoCall EXCEPT !.op = "FLATTEN"]
  <2>1. l.op = "FLATTEN"
    BY DEF NoCall
  <2>2. Begin(c, "ensureInit", l) => /\ traffic' = traffic
                                     /\ traffic.habit = "careful" => Careful(l)
    BY DEF Begin, Disciplined
  <2>3. QED
    BY <2>1, <2>2 DEF FlattenAll, Begin, Disciplined, Careful, CarefulNow
<1>4. ASSUME NEW s \in Symbols, TrailingRead(c, s)
      PROVE  /\ \A d \in Clients : Apt(d)'
             /\ ~Quiescent'
             /\ \A d \in Clients : pc'[d] # "idle" => Worth(d)'
  <2> DEFINE l == [NoCall EXCEPT !.op = "TRAIL", !.symbol = s, !.pos = positions[s]]
  <2>1. Begin(c, "trailingWrite", l) /\ l.op = "TRAIL"
    BY <1>4 DEF TrailingRead, NoCall
  <2> HIDE DEF l
  <2>2. QED
    BY <1>1, <2>1
<1>5. ~ResetDailyPnl(c)
  BY DEF ResetDailyPnl, CarefulNow
<1>6. QED
  BY <1>2, <1>3, <1>4, <1>5 DEF Invoke

LEMMA InitCareful == Init => CarefulInv
<1> SUFFICES ASSUME Init PROVE CarefulInv
  OBVIOUS
<1>1. \A c \in Clients : pc[c] = "idle" /\ call[c] = NoCall
  BY DEF Init
<1>2. \A c \in Clients : Apt(c)
  BY <1>1 DEF Apt, NoCall
<1>3. cash = InitialCash /\ dailyPnl = 0 /\ InitialCash \in Int
  BY FillsAssumption DEF Init
<1>4. NetFlow = 0 /\ EntryFees = 0
  BY TotalsNow, NetFlowEmpty, EntryFeesEmpty DEF Init
<1>5. BookValue = 0
  <2> DEFINE f == [s \in Symbols |-> positions[s].avg * positions[s].qty]
             P == {D \in SUBSET Symbols : TRUE}
  <2>1. positions \in [Symbols -> Position]
    BY InitIInv DEF IInv, TypeOK
  <2>2. \A s \in Symbols : f[s] = 0
    BY DEF Init, NoPosition
  <2>3. f \in [Symbols -> Int] /\ IsFiniteSet(Symbols)
    BY <2>2, FillsAssumption
  <2>4. PICK g : IsSum(g, f, Symbols) /\ BookOf(positions) = g[Symbols]
    BY <2>1, BookIsSum
  <2> HIDE DEF f
  <2>5. g[Symbols] = 0
    BY <2>2, <2>3, <2>4, SumZero
  <2>6. QED
    BY <2>4, <2>5, TotalsNow
<1>6. cash = InitialCash + NetFlow /\ cash = Books
  BY <1>3, <1>4, <1>5 DEF Books
<1>7. QED
  BY <1>1, <1>2, <1>6 DEF CarefulInv

LEMMA NextCareful == IInv /\ IInv' /\ SerialInv /\ CarefulInv /\ [Next]_vars => CarefulInv'
<1> SUFFICES ASSUME IInv, IInv', SerialInv, CarefulInv, [Next]_vars PROVE CarefulInv'
  OBVIOUS
<1>1. ASSUME NEW c \in Clients, Invoke(c) PROVE CarefulInv'
  BY <1>1, InvokeCareful
<1>2. ASSUME NEW c \in Clients, Proceed(c) PROVE CarefulInv'
  BY <1>2, ProceedCareful
<1>3. ASSUME NEW c \in Clients, Abort(c) PROVE CarefulInv'
  BY <1>3 DEF Abort, CarefulInv, CarefulNow, IInv, TypeOK
<1>4. CASE UNCHANGED vars
  <2>1. /\ pc' = pc /\ call' = call /\ positions' = positions /\ traffic' = traffic
        /\ aborts' = aborts /\ cash' = cash /\ dailyPnl' = dailyPnl /\ trades' = trades
    BY <1>4 DEF vars
  <2>2. Books' = Books /\ NetFlow' = NetFlow
    BY <2>1, TotalsNow DEF Books
  <2>3. \A c \in Clients : Ahead(c)' = Ahead(c) /\ Unbooked(c)' = Unbooked(c)
                           /\ (Apt(c)' <=> Apt(c))
    BY <2>1 DEF Ahead, Unbooked, Filled, Flow, Apt
  <2>4. QED
    BY <2>1, <2>2, <2>3 DEF CarefulInv, CarefulNow, Worth, Quiescent
<1>5. QED
  BY <1>1, <1>2, <1>3, <1>4 DEF Next

LEMMA BooksAlways == Spec => [](IInv /\ SerialInv /\ CarefulInv)
  BY InitIInv, NextIInv, InitSerial, NextSerial, InitCareful, NextCareful, PTL DEF Spec

(* Called with care, between calls the cash is the initial cash plus what the
   trade stream says came in and went out (broker.py:551-607): no command of a
   fill is lost or applied twice. *)
THEOREM CashAlwaysReconciles == Spec => []CashReconciles
<1>1. CarefulInv => CashReconciles
  BY DEF CarefulInv, CarefulNow, CashReconciles, Undisturbed
<1>2. QED
  BY <1>1, BooksAlways, PTL

(* Called with care, between calls cash plus the book at entry prices is the
   initial cash plus the realised P&L less the commissions paid on entries
   (broker.py:551-607): the P&L of the dashboard and the account agree. *)
THEOREM BooksAlwaysBalance == Spec => []BooksBalance
<1>1. IInv /\ CarefulInv => BooksBalance
  <2> SUFFICES ASSUME IInv, CarefulInv, traffic.habit = "careful", Undisturbed
               PROVE  cash + BookValue = InitialCash + dailyPnl - EntryFees
    BY DEF BooksBalance
  <2>1. cash = InitialCash + dailyPnl - EntryFees - BookValue
    BY DEF CarefulInv, CarefulNow, Undisturbed, Books
  <2>2. QED
    BY <2>1, TotalsType
<1>2. QED
  BY <1>1, BooksAlways, PTL

-----------------------------------------------------------------------------
(* Clients that share no symbol. *)

(* The place of the latest trade of a symbol in a log. *)
LastOf(log, s) == SelectLastInSeq(log, LAMBDA t : t.symbol = s)
MatchedBy(log, s, pos) ==
    LET i == LastOf(log, s)
    IN IF i # 0 /\ log[i].op = "BUY"
       THEN pos.trade_id = log[i].id /\ pos.qty = log[i].qty
       ELSE pos.trade_id = 0

LEMMA LastAppend ==
    ASSUME NEW log \in Seq(Fill), NEW t \in Fill, NEW s
    PROVE  /\ LastOf(log, s) \in 0..Len(log)
           /\ LastOf(Append(log, t), s) = IF t.symbol = s THEN Len(log) + 1 ELSE LastOf(log, s)
<1> DEFINE n == Len(log)
           next == Append(log, t)
           I == {i \in 1..n : log[i].symbol = s}
           J == {i \in 1..(n + 1) : next[i].symbol = s}
<1>1. n \in Nat /\ Len(next) = n + 1
  OBVIOUS
<1>2. LastOf(log, s) = IF I # {} THEN Max(I) ELSE 0
  BY DEF LastOf, SelectLastInSeq
<1>3. LastOf(next, s) = IF J # {} THEN Max(J) ELSE 0
  BY <1>1 DEF LastOf, SelectLastInSeq
<1>4. J = IF t.symbol = s THEN I \cup {n + 1} ELSE I
  OBVIOUS
<1>5. I \in SUBSET (1..n) /\ J \in SUBSET (1..(n + 1))
  OBVIOUS
<1>6. I # {} => Max(I) \in 1..n
  <2> HIDE DEF I, n
  <2> QED BY <1>1, <1>5, MaxInterval
<1>7. CASE t.symbol = s
  <2>1. n + 1 \in J /\ J # {}
    BY <1>4, <1>7
  <2>2. Max(J) \in J /\ \A y \in J : Max(J) >= y
    <3> HIDE DEF J, n, next
    <3>1. n + 1 \in Nat
      BY <1>1
    <3> QED BY <1>5, <2>1, <3>1, MaxInterval
  <2>3. Max(J) = n + 1
    <3>1. Max(J) >= n + 1 /\ Max(J) \in 1..(n + 1)
      BY <2>1, <2>2
    <3> HIDE DEF J
    <3>2. QED
      BY <1>1, <3>1
  <2>4. LastOf(next, s) = n + 1
    <3> HIDE DEF J, n, next
    <3> QED BY <1>3, <2>1, <2>3
  <2>5. LastOf(log, s) \in 0..n
    <3> HIDE DEF I, n
    <3> QED BY <1>1, <1>2, <1>6
  <2>6. QED
    BY <1>7, <2>4, <2>5
<1>8. CASE t.symbol # s
  <2>1. LastOf(next, s) = LastOf(log, s)
    <3> HIDE DEF I, J, n, next
    <3> QED BY <1>2, <1>3, <1>4, <1>8
  <2>2. LastOf(log, s) \in 0..n
    <3> HIDE DEF I, n
    <3> QED BY <1>1, <1>2, <1>6
  <2>3. QED
    BY <1>8, <2>1, <2>2
<1>9. QED
  BY <1>7, <1>8

(* Appending a trade settles its symbol and leaves the others as they were. *)
LEMMA MatchedAppend ==
    ASSUME NEW log \in Seq(Fill), NEW t \in Fill, NEW s, NEW pos
    PROVE  MatchedBy(Append(log, t), s, pos) <=>
              IF t.symbol # s THEN MatchedBy(log, s, pos)
              ELSE IF t.op = "BUY" THEN pos.trade_id = t.id /\ pos.qty = t.qty
              ELSE pos.trade_id = 0
<1> DEFINE next == Append(log, t)
           i == LastOf(log, s)
<1>1. i \in 0..Len(log) /\ LastOf(next, s) = IF t.symbol = s THEN Len(log) + 1 ELSE i
  BY LastAppend
<1>2. next[Len(log) + 1] = t /\ (i # 0 => next[i] = log[i])
  <2> HIDE DEF i
  <2> QED BY <1>1
<1>3. Len(log) + 1 # 0
  OBVIOUS
<1>4. CASE t.symbol = s
  <2>1. LastOf(next, s) = Len(log) + 1
    BY <1>1, <1>4
  <2> HIDE DEF next
  <2>2. MatchedBy(next, s, pos) <=>
           IF Len(log) + 1 # 0 /\ next[Len(log) + 1].op = "BUY"
           THEN pos.trade_id = next[Len(log) + 1].id /\ pos.qty = next[Len(log) + 1].qty
           ELSE pos.trade_id = 0
    BY <2>1 DEF MatchedBy
  <2>3. QED
    BY <2>2, <1>2, <1>3, <1>4 DEF next
<1>5. CASE t.symbol # s
  <2>1. LastOf(next, s) = i
    BY <1>1, <1>5
  <2> HIDE DEF next
  <2>2. MatchedBy(next, s, pos) <=>
           IF i # 0 /\ next[i].op = "BUY"
           THEN pos.trade_id = next[i].id /\ pos.qty = next[i].qty
           ELSE pos.trade_id = 0
    BY <2>1 DEF MatchedBy
  <2>3. QED
    BY <2>2, <1>2, <1>5 DEF next, MatchedBy
<1>6. QED
  BY <1>4, <1>5

LEMMA MatchesNow == \A s : Matches(s) <=> MatchedBy(trades, s, positions[s])
  BY DEF Matches, MatchedBy, LastTrade, LastOf, Held

LEMMA MatchesNext == \A s : Matches(s)' <=> MatchedBy(trades', s, positions'[s])
  BY DEF Matches, MatchedBy, LastTrade, LastOf, Held, SelectLastInSeq

(* What the steps of a call do to the positions, the trades and the locals. *)
LEMMA FillEffects ==
    ASSUME IInv, NEW c \in Clients, Locals(c), call[c].op # "FLATTEN", Proceed(c)
    PROVE  /\ pc'[c] # "trailingWrite"
           /\ pc'[c] # "idle" => call'[c].op = call[c].op /\ call'[c].symbol = call[c].symbol
           /\ \/ /\ UNCHANGED <<positions, trades>>
                 /\ (pc'[c] \in Posted <=> pc[c] \in Posted)
                 /\ pc'[c] \in Posted => call'[c].id = call[c].id /\ call'[c].qty = call[c].qty
              \/ SetPosition(c) \/ DeletePosition(c) \/ ProduceTrade(c) \/ TrailingWrite(c)
<1> USE DEF Goto, ledger, journal, Posted
<1>0. /\ pc \in [Clients -> Labels] /\ call \in [Clients -> Call] /\ call[c] \in Call
  BY DEF IInv, TypeOK
<1>1. CASE EnsureInitialized(c) \/ SeedCash(c) \/ SeedPnl(c) \/ SeedCount(c)
  BY <1>0, <1>1 DEF EnsureInitialized, SeedCash, SeedPnl, SeedCount
<1>2. CASE ReadCash(c)
  BY <1>0, <1>2 DEF ReadCash, Call
<1>3. CASE DebitCash(c)
  BY <1>0, <1>3 DEF DebitCash
<1>4. CASE ReadPosition(c)
  BY <1>0, <1>4 DEF ReadPosition, Call
<1>5. CASE CreditCash(c)
  BY <1>0, <1>5 DEF CreditCash
<1>6. CASE ReadPnl(c)
  BY <1>0, <1>6 DEF ReadPnl, Call
<1>7. CASE SetPnl(c)
  BY <1>0, <1>7 DEF SetPnl
<1>8. CASE PushOrder(c)
  BY <1>0, <1>8 DEF PushOrder
<1>9. CASE IncrTradeCount(c)
  BY <1>0, <1>9 DEF IncrTradeCount
<1>10. CASE SetPosition(c) \/ DeletePosition(c)
  BY <1>0, <1>10 DEF SetPosition, DeletePosition
<1>11. CASE ProduceTrade(c) \/ TrailingWrite(c)
  BY <1>0, <1>11 DEF ProduceTrade, TrailingWrite, Return
<1>12. ~ReadPositions(c) /\ ~(\E s \in Symbols : FlattenOne(c, s)) /\ ~FlattenCredit(c)
  BY DEF ReadPositions, FlattenOne, FlattenCredit, Locals
<1>13. QED
  BY <1>1, <1>2, <1>3, <1>4, <1>5, <1>6, <1>7, <1>8, <1>9, <1>10, <1>11, <1>12 DEF Proceed

ApartNow == KeptApart /\ aborts = 0
PostedBy(c) ==
    IF call[c].op = "BUY"
    THEN /\ positions[call[c].symbol].trade_id = call[c].id
         /\ positions[call[c].symbol].qty = call[c].qty
    ELSE ~Held(positions, call[c].symbol)

LEMMA ProceedMatch ==
    ASSUME IInv, SerialInv, MatchInv, NEW c \in Clients, Proceed(c)
    PROVE  MatchInv'
<1> USE DEF Goto, ledger, journal
<1> SUFFICES ASSUME ApartNow' PROVE MatchInv'
  BY DEF MatchInv, ApartNow
<1>0. /\ pc \in [Clients -> Labels] /\ call \in [Clients -> Call] /\ call[c] \in Call
      /\ positions \in [Symbols -> Position] /\ trades \in Seq(Fill)
      /\ pc[c] # "idle" /\ Locals(c) /\ CallOK(c)
  BY OthersCalls DEF IInv, TypeOK, SerialInv
<1>1. /\ ApartNow /\ traffic' = traffic
      /\ \A d \in Clients : d # c => pc'[d] = pc[d] /\ call'[d] = call[d]
  BY OthersCalls DEF ApartNow, KeptApart
<1>p. PICK sym : sym = call[c].symbol
  OBVIOUS
<1> USE <1>p
<1>2. /\ \A d \in Clients : pc[d] # "idle" =>
            call[d].op # "FLATTEN" /\ call[d].symbol \in traffic.reach[d]
      /\ \A d \in Clients : pc[d] = "trailingWrite" => call[d].pos = positions[call[d].symbol]
      /\ \A d \in Clients : pc[d] \in Posted => PostedBy(d)
      /\ \A s \in Symbols :
            (\A d \in Clients : pc[d] \in Posted => call[d].symbol # s) => Matches(s)
  BY <1>1 DEF MatchInv, ApartNow, PostedBy
<1>3. \A d \in Clients : d # c /\ pc[d] # "idle" => call[d].symbol # sym
  BY <1>0, <1>1, <1>2 DEF ApartNow, KeptApart
<1>4. /\ pc'[c] # "trailingWrite"
      /\ pc'[c] # "idle" => call'[c].op = call[c].op /\ call'[c].symbol = call[c].symbol
      /\ \/ /\ UNCHANGED <<positions, trades>>
            /\ (pc'[c] \in Posted <=> pc[c] \in Posted)
            /\ pc'[c] \in Posted => call'[c].id = call[c].id /\ call'[c].qty = call[c].qty
         \/ SetPosition(c) \/ DeletePosition(c) \/ ProduceTrade(c) \/ TrailingWrite(c)
  BY <1>0, <1>2, FillEffects
<1>5. \A d \in Clients : pc'[d] # "idle" =>
            call'[d].op # "FLATTEN" /\ call'[d].symbol \in traffic'.reach[d]
  BY <1>0, <1>1, <1>2, <1>4
<1>6. ASSUME /\ \A x \in Symbols : x # sym => positions'[x] = positions[x]
             /\ \A s \in Symbols : s # sym => (Matches(s)' <=> Matches(s))
             /\ pc'[c] \in Posted => PostedBy(c)'
             /\ (/\ sym \in Symbols /\ pc'[c] \notin Posted
                 /\ (pc[c] \in Posted \/ Matches(sym))) => Matches(sym)'
      PROVE  MatchInv'
  <2>1. ASSUME NEW d \in Clients, pc'[d] = "trailingWrite"
        PROVE  call'[d].pos = positions'[call'[d].symbol]
    <3>1. d # c /\ pc[d] = "trailingWrite" /\ call'[d] = call[d] /\ call[d].symbol # sym
      BY <1>1, <1>3, <1>4, <2>1
    <3>2. call[d].symbol \in Symbols
      BY <3>1 DEF IInv, CallOK
    <3>3. QED
      BY <1>2, <1>6, <3>1, <3>2
  <2>2. ASSUME NEW d \in Clients, pc'[d] \in Posted PROVE PostedBy(d)'
    <3>1. CASE d = c
      BY <1>6, <2>2, <3>1
    <3>2. CASE d # c
      <4>1. pc[d] \in Posted /\ call'[d] = call[d]
        BY <1>1, <2>2, <3>2
      <4>2. call[d].symbol # sym /\ call[d].symbol \in Symbols
        BY <1>3, <3>2, <4>1 DEF Posted, IInv, CallOK, FillLabels
      <4>3. positions'[call[d].symbol] = positions[call[d].symbol]
        BY <1>6, <4>2
      <4>4. QED
        BY <1>2, <4>1, <4>3 DEF PostedBy, Held
    <3>3. QED
      BY <3>1, <3>2
  <2>3. ASSUME NEW s \in Symbols,
               \A d \in Clients : pc'[d] \in Posted => call'[d].symbol # s
        PROVE  Matches(s)'
    <3>1. CASE s # sym
      <4>1. \A d \in Clients : pc[d] \in Posted => call[d].symbol # s
        BY <1>1, <2>3, <3>1
      <4>2. QED
        BY <1>2, <1>6, <3>1, <4>1
    <3>2. CASE s = sym
      <4>1. pc'[c] \notin Posted
        BY <1>4, <2>3, <3>2 DEF Posted
      <4>2. pc[c] \notin Posted => \A d \in Clients : pc[d] \in Posted => call[d].symbol # s
        BY <1>3, <3>2 DEF Posted
      <4>3. QED
        BY <1>2, <1>6, <3>2, <4>1, <4>2
    <3>3. QED
      BY <3>1, <3>2
  <2>4. QED
    BY <1>5, <2>1, <2>2, <2>3 DEF MatchInv, PostedBy
<1>7. CASE /\ UNCHANGED <<positions, trades>>
           /\ (pc'[c] \in Posted <=> pc[c] \in Posted)
           /\ pc'[c] \in Posted => call'[c].id = call[c].id /\ call'[c].qty = call[c].qty
  <2>1. \A s : Matches(s)' <=> Matches(s)
    BY <1>7, MatchesNow, MatchesNext
  <2>2. pc'[c] \in Posted => PostedBy(c)'
    BY <1>2, <1>4, <1>7 DEF PostedBy, Held, Posted
  <2>3. QED
    BY <1>6, <1>7, <2>1, <2>2
<1>8. CASE SetPosition(c)
  <2>1. /\ pc[c] = "setPosition" /\ pc'[c] = "pushOrder" /\ UNCHANGED <<trades, call>>
        /\ positions' = [positions EXCEPT ![sym] =
                           [qty |-> call[c].qty, avg |-> call[c].fill,
                            trade_id |-> call[c].id, trailing |-> FALSE]]
    BY <1>0, <1>8 DEF SetPosition
  <2>2. call[c].op = "BUY" /\ sym \in Symbols
    BY <1>0, <2>1 DEF Locals, CallOK, Sides
  <2>3. PostedBy(c)'
    BY <1>0, <2>1, <2>2 DEF PostedBy
  <2>4. \A x \in Symbols : x # sym => positions'[x] = positions[x]
    BY <1>0, <2>1
  <2>5. \A s \in Symbols : s # sym => (Matches(s)' <=> Matches(s))
    BY <2>1, <2>4, MatchesNow, MatchesNext
  <2>6. pc'[c] \in Posted
    BY <2>1 DEF Posted
  <2>7. QED
    BY <1>6, <2>3, <2>4, <2>5, <2>6
<1>9. CASE DeletePosition(c)
  <2>1. /\ pc[c] = "deletePosition" /\ pc'[c] = "pushOrder" /\ UNCHANGED <<trades, call>>
        /\ positions' = [positions EXCEPT ![sym] = NoPosition]
    BY <1>0, <1>9 DEF DeletePosition
  <2>2. call[c].op = "SELL" /\ sym \in Symbols
    BY <1>0, <2>1 DEF Locals, CallOK, Selling, Sides
  <2>3. PostedBy(c)'
    BY <1>0, <2>1, <2>2 DEF PostedBy, Held, NoPosition
  <2>4. \A x \in Symbols : x # sym => positions'[x] = positions[x]
    BY <1>0, <2>1
  <2>5. \A s \in Symbols : s # sym => (Matches(s)' <=> Matches(s))
    BY <2>1, <2>4, MatchesNow, MatchesNext
  <2>6. pc'[c] \in Posted
    BY <2>1 DEF Posted
  <2>7. QED
    BY <1>6, <2>3, <2>4, <2>5, <2>6
<1>10. CASE ProduceTrade(c)
  <2>1. /\ pc[c] = "produceTrade" /\ pc'[c] = "idle" /\ positions' = positions
        /\ trades' = Append(trades, Filled(c)) /\ Filled(c) \in Fill
    <3>1. pc[c] \in FillLabels
      BY <1>10 DEF ProduceTrade, FillLabels
    <3>2. QED
      BY <1>0, <1>10, <3>1, FilledType DEF ProduceTrade, Return
  <2>2. /\ Filled(c).symbol = sym /\ Filled(c).op = call[c].op
        /\ Filled(c).id = call[c].id /\ Filled(c).qty = call[c].qty
    BY DEF Filled
  <2>3. \A s \in Symbols : s # sym => (Matches(s)' <=> Matches(s))
    <3> SUFFICES ASSUME NEW s \in Symbols, s # sym PROVE Matches(s)' <=> Matches(s)
      OBVIOUS
    <3>1. MatchedBy(trades', s, positions[s]) <=> MatchedBy(trades, s, positions[s])
      BY <1>0, <2>1, <2>2, MatchedAppend
    <3>2. QED
      BY <2>1, <3>1, MatchesNow, MatchesNext
  <2>4. PostedBy(c)
    BY <1>2, <2>1 DEF Posted
  <2>5. Matches(sym)'
    <3>1. MatchedBy(trades', sym, positions[sym]) <=>
             IF call[c].op = "BUY"
             THEN positions[sym].trade_id = call[c].id /\ positions[sym].qty = call[c].qty
             ELSE positions[sym].trade_id = 0
      BY <1>0, <2>1, <2>2, MatchedAppend
    <3>2. QED
      BY <2>1, <2>4, <3>1, MatchesNext DEF PostedBy, Held
  <2>6. pc'[c] \notin Posted
    BY <2>1 DEF Posted
  <2>7. QED
    BY <1>6, <2>1, <2>3, <2>5, <2>6
<1>11. CASE TrailingWrite(c)
  <2>1. /\ pc[c] = "trailingWrite" /\ pc'[c] = "idle" /\ UNCHANGED trades
        /\ positions' = [positions EXCEPT ![sym] = [call[c].pos EXCEPT !.trailing = TRUE]]
    BY <1>0, <1>11 DEF TrailingWrite, Return
  <2>2. /\ sym \in Symbols /\ call[c].pos = positions[sym]
    BY <1>0, <1>2, <2>1 DEF CallOK
  <2>3. positions'[sym].trade_id = positions[sym].trade_id
        /\ positions'[sym].qty = positions[sym].qty
    BY <1>0, <2>1, <2>2 DEF Position
  <2>4. \A x \in Symbols : x # sym => positions'[x] = positions[x]
    BY <1>0, <2>1
  <2>5. \A s \in Symbols : Matches(s)' <=> Matches(s)
    <3> SUFFICES ASSUME NEW s \in Symbols PROVE Matches(s)' <=> Matches(s)
      OBVIOUS
    <3>1. MatchedBy(trades, s, positions'[s]) <=> MatchedBy(trades, s, positions[s])
      BY <2>3, <2>4 DEF MatchedBy
    <3>2. QED
      BY <2>1, <3>1, MatchesNow, MatchesNext
  <2>6. pc'[c] \notin Posted /\ pc[c] \notin Posted
    BY <2>1 DEF Posted
  <2>7. QED
    BY <1>6, <2>2, <2>4, <2>5, <2>6
<1>12. QED
  BY <1>4, <1>7, <1>8, <1>9, <1>10, <1>11

LEMMA InvokeMatch ==
    ASSUME IInv, MatchInv, NEW c \in Clients, Invoke(c)
    PROVE  MatchInv'
<1> SUFFICES ASSUME ApartNow' PROVE MatchInv'
  BY DEF MatchInv, ApartNow
<1>0. /\ pc \in [Clients -> Labels] /\ call \in [Clients -> Call]
  BY DEF IInv, TypeOK
<1>1. ASSUME NEW label \in {"ensureInit", "trailingWrite"}, NEW locals,
             Begin(c, label, locals),
             label = "trailingWrite" => locals.pos = positions[locals.symbol]
      PROVE  MatchInv'
  <2>1. /\ pc' = [pc EXCEPT ![c] = label] /\ call' = [call EXCEPT ![c] = locals]
        /\ UNCHANGED <<positions, trades, aborts, traffic>>
        /\ pc[c] = "idle" /\ Disciplined(c, locals)
    BY <1>1 DEF Begin, Goto, ledger, journal
  <2>2. ApartNow
    BY <2>1 DEF ApartNow, KeptApart
  <2>3. locals.op # "FLATTEN" /\ locals.symbol \in traffic.reach[c]
    BY <2>1, <2>2 DEF Disciplined, ApartNow
  <2>4. \A s : Matches(s)' <=> Matches(s)
    BY <2>1, MatchesNow, MatchesNext
  <2>5. \A d \in Clients : /\ d # c => pc'[d] = pc[d] /\ call'[d] = call[d]
                           /\ d = c => pc'[d] = label /\ call'[d] = locals
    BY <1>0, <2>1
  <2>6. label \notin Posted /\ "idle" \notin Posted
    BY DEF Posted
  <2>7. /\ \A d \in Clients : pc'[d] # "idle" =>
              call'[d].op # "FLATTEN" /\ call'[d].symbol \in traffic'.reach[d]
        /\ \A d \in Clients : pc'[d] = "trailingWrite" =>
              call'[d].pos = positions'[call'[d].symbol]
    BY <1>1, <2>1, <2>2, <2>3, <2>5 DEF MatchInv, ApartNow
  <2>8. \A d \in Clients : pc'[d] \in Posted =>
              IF call'[d].op = "BUY"
              THEN /\ positions'[call'[d].symbol].trade_id = call'[d].id
                   /\ positions'[call'[d].symbol].qty = call'[d].qty
              ELSE ~Held(positions', call'[d].symbol)
    BY <2>1, <2>2, <2>5, <2>6 DEF MatchInv, ApartNow, Held
  <2>9. \A s \in Symbols :
              (\A d \in Clients : pc'[d] \in Posted => call'[d].symbol # s) => Matches(s)'
    BY <2>1, <2>2, <2>4, <2>5, <2>6 DEF MatchInv, ApartNow
  <2>10. QED
    BY <2>7, <2>8, <2>9 DEF MatchInv
<1>2. ASSUME NEW side \in Sides, NEW s \in Symbols, NEW q \in Quantities, NEW p \in Prices,
             Submit(c, side, s, q, p)
      PROVE  MatchInv'
  <2> DEFINE l == [NoCall EXCEPT !.op = side, !.symbol = s, !.qty = q,
                                 !.fill = FillPrice(side, p), !.id = nextId]
  <2>1. Begin(c, "ensureInit", l)
    BY <1>2 DEF Submit
  <2> HIDE DEF l
  <2>2. QED
    BY <1>1, <2>1
<1>3. CASE FlattenAll(c)
  <2> DEFINE l == [NoCall EXCEPT !.op = "FLATTEN"]
  <2>1. Begin(c, "ensureInit", l)
    BY <1>3 DEF FlattenAll
  <2> HIDE DEF l
  <2>2. QED
    BY <1>1, <2>1
<1>4. ASSUME NEW s \in Symbols, TrailingRead(c, s)
      PROVE  MatchInv'
  <2> DEFINE l == [NoCall EXCEPT !.op = "TRAIL", !.symbol = s, !.pos = positions[s]]
  <2>1. Begin(c, "trailingWrite", l) /\ l.pos = positions[l.symbol]
    BY <1>4 DEF TrailingRead, NoCall
  <2> HIDE DEF l
  <2>2. QED
    BY <1>1, <2>1
<1>5. CASE ResetDailyPnl(c)
  <2>1. UNCHANGED <<positions, trades, aborts, traffic, pc, call>>
    BY <1>5 DEF ResetDailyPnl, journal
  <2>2. \A s : Matches(s)' <=> Matches(s)
    BY <2>1, MatchesNow, MatchesNext
  <2>3. QED
    BY <2>1, <2>2 DEF MatchInv, KeptApart, Held
<1>6. QED
  BY <1>2, <1>3, <1>4, <1>5 DEF Invoke

LEMMA NextMatch == IInv /\ SerialInv /\ MatchInv /\ [Next]_vars => MatchInv'
<1> SUFFICES ASSUME IInv, SerialInv, MatchInv, [Next]_vars PROVE MatchInv'
  OBVIOUS
<1>1. ASSUME NEW c \in Clients, Invoke(c) PROVE MatchInv'
  BY <1>1, InvokeMatch
<1>2. ASSUME NEW c \in Clients, Proceed(c) PROVE MatchInv'
  BY <1>2, ProceedMatch
<1>3. ASSUME NEW c \in Clients, Abort(c) PROVE MatchInv'
  BY <1>3 DEF Abort, MatchInv, IInv, TypeOK
<1>4. CASE UNCHANGED vars
  <2>1. UNCHANGED <<positions, trades, aborts, traffic, pc, call>>
    BY <1>4 DEF vars
  <2>2. \A s : Matches(s)' <=> Matches(s)
    BY <2>1, MatchesNow, MatchesNext
  <2>3. QED
    BY <2>1, <2>2 DEF MatchInv, KeptApart, Held
<1>5. QED
  BY <1>1, <1>2, <1>3, <1>4 DEF Next

LEMMA InitMatch == Init => MatchInv
<1> SUFFICES ASSUME Init PROVE MatchInv
  OBVIOUS
<1>1. \A c \in Clients : pc[c] = "idle"
  BY DEF Init
<1>2. \A s : LastOf(<<>>, s) = 0
  BY DEF LastOf, SelectLastInSeq
<1>3. \A s \in Symbols : Matches(s)
  BY <1>2, MatchesNow DEF Init, MatchedBy, NoPosition
<1>4. QED
  BY <1>1, <1>3 DEF MatchInv, Posted

(* When no two clients share a symbol, between calls a symbol has a position
   exactly when its latest trade is a BUY, and the position is that trade's
   (broker.py:545-607): the gathered cycles of a loop do not disturb one
   another's positions, however their commands interleave. *)
THEOREM PositionsAlwaysMatch == Spec => []PositionsMatchTrades
<1>1. MatchInv => PositionsMatchTrades
  <2> SUFFICES ASSUME MatchInv, KeptApart, Undisturbed, NEW s \in Symbols
               PROVE  Matches(s)
    BY DEF PositionsMatchTrades, Matches
  <2>1. QED
    BY DEF MatchInv, Undisturbed, Quiescent, Posted
<1>2. QED
  BY <1>1, InitIInv, NextIInv, InitSerial, NextSerial, InitMatch, NextMatch, PTL DEF Spec
=============================================================================
