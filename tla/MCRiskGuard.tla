---------------------------- MODULE MCRiskGuard -----------------------------
(***************************************************************************)
(* The casts of RiskGuard that the runs check.                             *)
(***************************************************************************)
EXTENDS RiskGuard

KindOf == [s \in {"SPY", "CL", "PEPE"} |-> CASE s = "SPY" -> "equity"
                                             [] s = "CL" -> "commodity"
                                             [] OTHER -> "exotic"]
Trading == {"desk", "monitor", "settings", "operator"}
Sweeping == {"settings", "risk", "operator"}
Deciding == {"settings", "sizing"}
Separately == {Trading, Sweeping, Deciding}
SweepOnly == {Sweeping}

Losses == {-50}
Books == {{"SPY", "CL"}}
WeightOf == [s \in {"SPY", "CL", "PEPE"} |-> IF s = "SPY" THEN 90 ELSE 200]
Caps == [m \in {"COMMANDER", "YOLO"} |->
           IF m = "YOLO" THEN [daily |-> 120, gross |-> 3000, single |-> 200]
           ELSE [daily |-> 50, gross |-> 1500, single |-> 100]]
Pairs == {{"SPY", "CL"}}
SignalSet == {[symbol |-> "SPY", direction |-> "LONG", confidence |-> 800, price |-> 10,
               vol |-> 100, volume |-> 0],
              [symbol |-> "CL", direction |-> "LONG", confidence |-> 800, price |-> 10,
               vol |-> 50, volume |-> 9000]}
=============================================================================
