SPECIFICATION Spec
CONSTANTS
  Clients = {"cycleA", "cycleB"}
  Traffic <- AllTraffic
  Symbols = {"A", "B"}
  Prices = {100}
  Quantities = {2, 4}
  InitialCash = 300
  SlippageRate = 1
  CommissionRate = 1
  Scale = 100
  OrdersCap = 1
  Seeded = FALSE
  MaxCalls = 3
  MaxAborts = 1
CHECK_DEADLOCK FALSE
INVARIANTS
  TypeOK
  CashReconciles
  BooksBalance
  PositionsMatchTrades
PROPERTY ImplementsLedger
