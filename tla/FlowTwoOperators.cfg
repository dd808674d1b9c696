SPECIFICATION Spec
CONSTANTS
  Symbols = {"A"}
  PaperLoops = {"crypto"}
  Runners = {"runner"}
  Operators = {"op1", "op2"}
  Deployments <- TwoApprovals1
INVARIANT ExecutedAtMostOnce
