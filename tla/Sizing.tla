------------------------------- MODULE Sizing -------------------------------
(***************************************************************************)
(* The arithmetic that decides how large a trade is: the risk-parity sizer *)
(* of src/execution/position_sizer.py and the caps of                      *)
(* src/agents/portfolio_constructor.py.  Rates are in thousandths, money   *)
(* in whole units rounded down, and a size is its notional value (quantity *)
(* times price), so the price matters only where the code tests it.        *)
(***************************************************************************)
EXTENDS Integers, FiniteSets, FiniteSetsExt

CONSTANTS MaxRisk,         \* settings.max_risk_per_trade
          Limits           \* settings.autonomy_mode_limits, one record per mode

Unit == 1000

ASSUME SizingAssumption ==
    /\ MaxRisk \in 0..Unit
    /\ "COMMANDER" \in DOMAIN Limits
    /\ \A m \in DOMAIN Limits : Limits[m] \in [daily : Nat, gross : Nat, single : Nat]

AtMost(x, y) == IF x < y THEN x ELSE y
AtLeast(x, y) == IF x > y THEN x ELSE y

\* settings.max_risk_per_trade weighted by a confidence within 0 and 1
TargetRisk(confidence) == (MaxRisk * AtMost(AtLeast(confidence, 0), Unit)) \div Unit

\* size for a risk at a volatility, between a floor of 0.1% and 3 times it
Bracket(value, risk, vol) ==
    AtLeast(value \div 1000,
            AtMost((value * risk) \div AtLeast(vol, 10), (3 * value * risk) \div Unit))

\* _apply_liquidity_cap: 1% of the day's volume, where one is known
LiquidityCap(notional, volume) ==
    IF volume > 0 THEN AtMost(notional, volume \div 100) ELSE notional

\* VolatilityPositionSizer.calculate_size
CalculateSize(value, price, vol, volume) ==
    IF price <= 0 THEN 0 ELSE LiquidityCap(Bracket(value, MaxRisk, vol), volume)

\* PositionSizer.size
Size(direction, confidence, price, value, vol, volume) ==
    IF direction \notin {"LONG", "SHORT"} \/ price <= 0 \/ value <= 0 THEN 0
    ELSE LiquidityCap(Bracket(value, TargetRisk(confidence), vol), volume)

\* _limits_for_mode: an unknown mode gets the caps of COMMANDER
LimitsForMode(mode) == IF mode \in DOMAIN Limits THEN Limits[mode]
                       ELSE Limits["COMMANDER"]

\* 1 / (1 + n) of the size for n correlated positions, at least a quarter
ForOverlap(notional, n) == notional \div AtMost(1 + n, 4)

(***************************************************************************)
(* PortfolioConstructorAgent._build_decision after the snapshot: s is the  *)
(* snapshot (value, pnl, gross exposure, held: the notional held in this   *)
(* symbol, overlap: correlated positions), in the order of the code.       *)
(***************************************************************************)
Rejected(why) == [approved |-> FALSE, notional |-> 0, reason |-> why]

SymbolCap(s, limits) == (s.value * limits.single) \div Unit

\* (faulty) what is held already is not counted
DownsizeNewOnly(s, limits, sized) == AtMost(sized, SymbolCap(s, limits))
Downsize(s, limits, sized) ==
    IF sized + s.held > SymbolCap(s, limits)
    THEN AtLeast(0, SymbolCap(s, limits) - s.held) ELSE sized

Decide(s, mode, blackout, direction, confidence, price, vol, volume) ==
    LET limits == LimitsForMode(mode)
        sized == Size(direction, confidence, price, s.value, vol, volume)
        allowed == Downsize(s, limits, sized)
    IN CASE blackout -> Rejected("blackout_window")
         [] ~blackout /\ s.value > 0 /\ s.pnl < 0
            /\ -s.pnl * Unit >= limits.daily * s.value -> Rejected("daily_loss_cap")
         [] OTHER ->
            IF s.value > 0 /\ s.gross * Unit >= limits.gross * s.value
            THEN Rejected("gross_exposure_cap")
            ELSE IF sized <= 0 THEN Rejected("sizer_returned_zero")
            ELSE IF allowed <= 0 THEN Rejected("symbol_already_at_cap")
            ELSE [approved |-> TRUE, notional |-> ForOverlap(allowed, s.overlap),
                  reason |-> "approved"]
=============================================================================
