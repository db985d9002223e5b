CONSTANTS
    MaxTasks = 3
    MaxPending = 2
    MaxClock = 1
    RestartLimit = 1
    Abandonable = {1}
    Plans <- PairsAndTriples
SPECIFICATION Spec
CHECK_DEADLOCK FALSE
INVARIANTS
    NoWaitCycle
    AbandonedNeverRuns
    NothingForgotten
PROPERTIES
    AbortBottomUp
    KeepsTaskPromise
