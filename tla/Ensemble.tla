------------------------------ MODULE Ensemble ------------------------------
(***************************************************************************)
(* The ensemble back-test (backtesting/ensemble.py): the bars of a tape    *)
(* are shown one by one to the trading cycle, and what it decides is       *)
(* traded in a book of its own, long or short, with a stop 3% and a        *)
(* target 6% away.  The cycle is the live one (Cycle.tla); here it answers *)
(* anything it can answer, or raises.  The API keeps the latest state of   *)
(* the job, which is what a poll returns.                                  *)
(*                                                                         *)
(* Money is in cents, quantities in thousandths, all rounded down.         *)
(***************************************************************************)
LOCAL INSTANCE Integers
LOCAL INSTANCE Sequences

CONSTANTS
    InitialCash

ASSUME EnsembleAssumption ==
    InitialCash \in Nat

VARIABLES
    bars,      \* the bars [close, high, low] loaded, in order of time
    index,     \* bars processed
    book,      \* [cash, position, sold, fees]: what is held, and the trades closed
    curve,     \* total equity after each bar
    status     \* of the job, as a poll sees it

ensembleVars == <<bars, index, book, curve, status>>

None == [direction |-> "none"]
Decisions == [direction : {"LONG", "SHORT"}, approved : BOOLEAN]
                \cup {[direction |-> "NEUTRAL", approved |-> FALSE]}

Slip(price, up) == IF up THEN price + price \div 2000 ELSE price - price \div 2000
Value(quantity, price) == (quantity * price) \div 1000
NetOfFee(value) == value - value \div 1000

(***************************************************************************)
(* Exits.  The stop is looked at before the target.                        *)
(***************************************************************************)
Hit(p, bar) ==
    CASE p.direction = "LONG" /\ bar.low <= p.stop -> "stop"
      [] p.direction = "LONG" /\ bar.low > p.stop /\ bar.high >= p.target -> "target"
      [] p.direction = "SHORT" /\ bar.high >= p.stop -> "stop"
      [] p.direction = "SHORT" /\ bar.high < p.stop /\ bar.low <= p.target -> "target"
      [] OTHER -> "no"

\* faulty variant: a short is sold as a long one
ProceedsAsLong(p, fill) == NetOfFee(Value(p.quantity, fill))

\* A short is sold back at twice its entry less the price, so that it gains what the
\* price has lost.
Proceeds(p, fill) ==
    IF p.direction = "LONG" THEN NetOfFee(Value(p.quantity, fill))
                            ELSE NetOfFee(Value(p.quantity, 2 * p.entry - fill))

\* At the level that was hit, with slippage against the trade.
ExitFill(p, reason) ==
    Slip(IF reason = "stop" THEN p.stop ELSE p.target, p.direction = "SHORT")

CloseAt(b, i, proceeds, reason) ==
    LET p == b.position
    IN  [b EXCEPT !.cash = @ + proceeds, !.position = None,
                  !.sold = Append(@, [direction |-> p.direction, from |-> p.at, to |-> i,
                                      reason |-> reason, entry |-> p.entry,
                                      quantity |-> p.quantity,
                                      pnl |-> proceeds - Value(p.quantity, p.entry)])]

CheckExit(b, i, bar) ==
    LET reason == IF b.position = None THEN "no" ELSE Hit(b.position, bar)
    IN  IF reason = "no" THEN b
        ELSE CloseAt(b, i, Proceeds(b.position, ExitFill(b.position, reason)), reason)

(***************************************************************************)
(* Entries: a tenth of the cash, the commission on top of it.              *)
(***************************************************************************)
Bracket(direction, fill) ==
    IF direction = "LONG" THEN [stop |-> (fill * 97) \div 100, target |-> (fill * 106) \div 100]
                          ELSE [stop |-> (fill * 103) \div 100, target |-> (fill * 94) \div 100]

EnterPosition(b, i, bar, decision) ==
    LET fill == Slip(bar.close, decision.direction = "LONG")
        quantity == (1000 * (b.cash \div 10)) \div fill
        value == Value(quantity, fill)
    IN  IF b.position # None \/ ~decision.approved THEN b
        ELSE [b EXCEPT !.cash = @ - value - value \div 1000, !.fees = @ + value \div 1000,
                       !.position = [direction |-> decision.direction, entry |-> fill,
                                     quantity |-> quantity, at |-> i,
                                     stop |-> Bracket(decision.direction, fill).stop,
                                     target |-> Bracket(decision.direction, fill).target]]

\* A position is worth its quantity at the price, a short one too.
Equity(b, price) ==
    b.cash + (IF b.position = None THEN 0 ELSE Value(b.position.quantity, price))

(***************************************************************************)
(* The job.  fees, what entries have cost, is for the properties.          *)
(***************************************************************************)
EnsembleInit(Tapes) ==
    /\ bars \in Tapes
    /\ index = 0 /\ curve = <<>> /\ status = "pending"
    /\ book = [cash |-> InitialCash, position |-> None, sold |-> <<>>, fees |-> 0]

\* There are no bars, or the query for them raised.
LoadFails ==
    /\ status = "pending"
    /\ status' = "failed"
    /\ UNCHANGED <<bars, index, book, curve>>

\* One turn of the loop: exit, ask the cycle, enter, mark to market.  A cycle that
\* raised decides nothing.
Replay(decision) ==
    /\ status \in {"pending", "running"} /\ index < Len(bars)
    /\ LET bar == bars[index + 1]
       IN  /\ book' = EnterPosition(CheckExit(book, index + 1, bar), index + 1, bar, decision)
           /\ curve' = Append(curve, Equity(book', bar.close))
    /\ index' = index + 1
    /\ status' = "running"
    /\ UNCHANGED bars

\* What is still open is sold at the last close, a short one as if it were long.
Complete ==
    /\ status = "running" /\ index = Len(bars)
    /\ LET last == bars[index].close
           b == IF book.position = None THEN book
                ELSE CloseAt(book, index, NetOfFee(Value(book.position.quantity, last)),
                             "end_of_data")
       IN  /\ book' = b
           /\ curve' = [curve EXCEPT ![index] = IF book.position = None THEN @ ELSE b.cash]
    /\ status' = "complete"
    /\ UNCHANGED <<bars, index>>
=============================================================================
