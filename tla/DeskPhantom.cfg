SPECIFICATION Spec
CONSTANTS
    Casts <- DeskOnly
    Cycles = {c1, c2}
    Opinions <- TwoOpinions
    MaxFaults = 1
    Convictions <- TwoConvictions
    BatchSize = 2
    Lifetime = 1
    MaxPackets = 3
    MaxTime = 2
    MaxRestarts = 1
    MaxErrors = 1
    Callers = {k1, k2}
    Regimes = {"CALM"}
    Window = 2
    LossStreak = 2
    Few = 2
    MinSignals = 2
    SuppressFor = 1
    MaxSignals = 3
INVARIANT
    OpenWasExecuted
CHECK_DEADLOCK FALSE
