SPECIFICATION Spec
CONSTANTS
    Casts <- Everyone
    Markets <- ThreeMarkets
    Reports <- ReportsOf
    MacroScores <- TwoScores
    Predictions <- TwoPredictions
    Weights <- TwoWeights
    VolumeWindow = 1
    MaxVoices = 2
    MaxCycles = 2
    MaxMishaps = 1
    Jobs <- SomeJobs
    InitialEquity = 1000000
    MinPerWindow = 10
    MinSegment = 5
    TrainPct = 50
    Sharpes <- SharpesSet
    Cutoff = 8
    Fast = 1
    Slow = 2
    Period = 2
    Lookback = 3
    Tapes <- ShortTapes
    InitialCash = 1000000
INVARIANTS
    WeighedOnce
    WindowsApart
    RobustEarnedUnseen
    ExitsPayAsNamed
CHECK_DEADLOCK FALSE
