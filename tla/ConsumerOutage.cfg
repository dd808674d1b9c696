SPECIFICATION FairSpec
CONSTANTS
  Consumers = {"w1"}
  Count = 2
  MaxLen = 4
  Kinds = {"valid"}
  MaxEntries = 2
  MaxStops = 0
  MaxFaults = 0
  MaxOutages = 1
CHECK_DEADLOCK FALSE
PROPERTY RetriedAfterOutage
