SPECIFICATION Spec
CONSTANTS
  Symbols = {"A", "B"}
  PaperLoops = {"crypto"}
  Runners = {"runner"}
  Operators = {"op"}
  Deployments <- Unattended1
INVARIANT OutcomesAttributed
