------------------------------- MODULE Ledger -------------------------------
(***************************************************************************)
(* What the paper broker promises a caller that has it to itself: every    *)
(* operation happens at once.                                              *)
(***************************************************************************)
EXTENDS Fills

CONSTANT Ids   \* the trade ids a BUY may stamp

VARIABLES cash, positions, dailyPnl

ledger == <<cash, positions, dailyPnl>>

Init ==
    /\ cash = InitialCash
    /\ positions = [s \in Symbols |-> NoPosition]
    /\ dailyPnl = 0

(* A BUY replaces whatever position the symbol had. *)
Buy(s, q, price, id) ==
    LET fill == FillPrice("BUY", price)
        bought == BuyQuantity(cash, fill, q)
    IN /\ cash' = cash - Cost(fill, bought)
       /\ positions' = [positions EXCEPT ![s] =
             [qty |-> bought, avg |-> fill, trade_id |-> id, trailing |-> FALSE]]
       /\ UNCHANGED dailyPnl

(* A SELL closes the symbol, whatever the quantity sold. *)
Sell(s, q, price) ==
    LET fill == FillPrice("SELL", price)
    IN /\ cash' = cash + Proceeds(fill, q)
       /\ dailyPnl' = dailyPnl + RealisedPnl(positions[s], fill, q)
       /\ positions' = [positions EXCEPT ![s] = NoPosition]

(* Every position closes at its entry price; the P&L does not move. *)
Flatten ==
    /\ cash' = cash + Credit(positions, HeldIn(positions))
    /\ positions' = [s \in Symbols |-> NoPosition]
    /\ UNCHANGED dailyPnl

MarkTrailing(s) ==
    /\ Held(positions, s)
    /\ positions' = [positions EXCEPT ![s].trailing = TRUE]
    /\ UNCHANGED <<cash, dailyPnl>>

ResetPnl ==
    /\ dailyPnl' = 0
    /\ UNCHANGED <<cash, positions>>

Next ==
    \/ \E s \in Symbols, q \in Quantities \ {0}, p \in Prices :
          (\E id \in Ids : Buy(s, q, p, id)) \/ Sell(s, q, p)
    \/ Flatten
    \/ \E s \in Symbols : MarkTrailing(s)
    \/ ResetPnl

Spec == Init /\ [][Next]_ledger
=============================================================================
