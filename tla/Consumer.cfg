SPECIFICATION FairSpec
CONSTANTS
  Consumers = {"w1", "w2"}
  Count = 2
  MaxLen = 2
  Kinds <- EveryKind
  MaxEntries = 3
  MaxStops = 1
  MaxFaults = 1
  MaxOutages = 1
CHECK_DEADLOCK FALSE
INVARIANT TypeOK
INVARIANT OneHandler
INVARIANT LossIsVisible
PROPERTY ValidStored
PROPERTY ImplementsDelivery
