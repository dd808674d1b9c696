SPECIFICATION Spec
CONSTANTS
  Symbols = {"SPY", "CL", "PEPE"}
  Kind <- KindOf
  Casts <- SweepOnly
  Opening <- Books
  MaxOrders = 2
  MaxChanges = 2
  InitialCash = 1000
  Worths = {1000, 950}
  Sales <- Losses
  MaxDailyLoss = 50
  Weight <- WeightOf
  LimitPct = 6
  MaxDay = 2
  MaxCrashes = 1
  MaxRisk = 20
  Limits <- Caps
  CacheTtl = 1
  MaxClock = 1
  MaxCycles = 2
  Correlated <- Pairs
  Signals <- SignalSet
  Modes = {"COMMANDER", "YOLO"}
CHECK_DEADLOCK FALSE
INVARIANT UnreadableTrips
