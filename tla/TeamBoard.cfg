CONSTANTS
    p1 = p1
    p2 = p2
    NoOne = NoOne
    Empty = Empty
    Procs <- TwoProcs
    MaxAttempts = 2
    MaxCrashes = 1
    MaxTasks = 2
    MaxOps = 1
SPECIFICATION FairSpec
CHECK_DEADLOCK FALSE
INVARIANTS
    AtomicUnlessStolen
PROPERTIES
    MutationsReturn
    DeadOwnersGiveWay
