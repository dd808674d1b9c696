SPECIFICATION FairSpec
CONSTANTS
  Symbols = {"A", "B"}
  PaperLoops = {"crypto"}
  Runners = {"runner"}
  Operators = {"op"}
  Deployments <- Safely
INVARIANT TypeOK
INVARIANT ReportedOnce
INVARIANT ExecutedAtMostOnce
INVARIANT LoopsSuspended
INVARIANT NoPositionLost
INVARIANT SoldOnce
INVARIANT ExitsReported
PROPERTY RejectedStaysRejected
PROPERTY KillDrains
