------------------------------- MODULE Fills -------------------------------
(***************************************************************************)
(* Fill arithmetic of PaperBroker._paper_fill (src/execution/broker.py)    *)
(* and the shape of a position, shared by the abstract Ledger and by the   *)
(* detailed PaperBroker.                                                   *)
(*                                                                         *)
(* Money, prices and quantities are integers.  Rates are parts of Scale    *)
(* (0.0005 and 0.001 in the code), and a product with a rate rounds down.  *)
(***************************************************************************)
EXTENDS Integers, FiniteSetsExt

CONSTANTS Symbols, Prices, Quantities,
          InitialCash,                        \* _INITIAL_CASH
          SlippageRate, CommissionRate, Scale

ASSUME FillsAssumption ==
    /\ IsFiniteSet(Symbols)
    /\ Prices \subseteq Nat \ {0}
    /\ Quantities \subseteq Nat
    /\ InitialCash \in Nat
    /\ Scale \in Nat \ {0}
    /\ SlippageRate \in 0..(Scale - 1)
    /\ CommissionRate \in 0..Scale

Sides == {"BUY", "SELL"}

(* A position; trade_id 0 marks a symbol without a field in the hash. *)
Position == [qty : Nat, avg : Nat, trade_id : Nat, trailing : BOOLEAN]
NoPosition == [qty |-> 0, avg |-> 0, trade_id |-> 0, trailing |-> FALSE]
Held(book, s) == book[s].trade_id # 0

Slippage(price) == (price * SlippageRate) \div Scale
FillPrice(side, price) ==
    IF side = "BUY" THEN price + Slippage(price) ELSE price - Slippage(price)

Commission(value) == (value * CommissionRate) \div Scale
Cost(fill, q) == fill * q + Commission(fill * q)
Proceeds(fill, q) == fill * q - Commission(fill * q)

(* A BUY that costs more than the cash on hand is cut to 95% of that cash,
   commission included. *)
Affordable(available, fill) ==
    (95 * Scale * available) \div (100 * fill * (Scale + CommissionRate))
BuyNeverCut(available, fill, q) == q   \* faulty variant, for the mutation runs
BuyQuantity(available, fill, q) ==
    IF Cost(fill, q) > available THEN Affordable(available, fill) ELSE q

(* P&L of a SELL: against the entry price of the position found, or against
   the fill itself when there is none. *)
EntryPrice(pos, fill) == IF pos.trade_id # 0 THEN pos.avg ELSE fill
GrossPnl(pos, fill, q) == (fill - EntryPrice(pos, fill)) * q   \* faulty variant
RealisedPnl(pos, fill, q) == Proceeds(fill, q) - EntryPrice(pos, fill) * q

(* The symbols with a position, and what closing some of them at their entry
   prices brings in. *)
HeldIn(book) == {s \in Symbols : Held(book, s)}
Credit(book, closed) ==
    MapThenSumSet(LAMBDA s : Proceeds(book[s].avg, book[s].qty), closed)
=============================================================================
