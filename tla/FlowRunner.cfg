SPECIFICATION Spec
CONSTANTS
  Symbols = {"A"}
  PaperLoops = {"crypto"}
  Runners = {"runner"}
  Operators = {"op"}
  Deployments <- Scheduled1
INVARIANT OrdersSuspended
