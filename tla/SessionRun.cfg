SPECIFICATION Spec
CONSTANTS
    p1 = p1
    p2 = p2
    Callers <- TwoCallers
    MaxQueue = 1
    MaxRetries = 2
    MaxContinue = 1
    MaxTurns = 1
    MaxCalls = 1
    AuthAwaits = FALSE
SYMMETRY Symmetry
INVARIANTS
    IdleMeansNoRun
    AbortReachesRun
    NoSplitPairs
    NothingHeldWhileIdle
    BoundedFailures
CHECK_DEADLOCK FALSE
