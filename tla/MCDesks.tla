------------------------------ MODULE MCDesks -------------------------------
(***************************************************************************)
(* The casts and the small worlds of Desks that the runs check.            *)
(***************************************************************************)
EXTENDS Desks

Everyone == {"cycle", "cycles", "desk", "learning"}
DeskOnly == {"desk"}
TwoOpinions == {[direction |-> "LONG", confidence |-> 900],
                [direction |-> "SHORT", confidence |-> 200]}
TwoConvictions == {[direction |-> "LONG", confidence |-> 700],
                   [direction |-> "NEUTRAL", confidence |-> 700]}
=============================================================================
