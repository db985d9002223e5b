CONSTANTS
    d1 = d1
    NoKey = NoKey
    Entries = {2}
    Docs <- OneDoc
    MaxJobs = 3
    MaxWaiting = 1
    MAX_OUTSTANDING = 3
SPECIFICATION Spec
CHECK_DEADLOCK FALSE
INVARIANTS
    SerialReads
    OkMatchesStorage
    CrashLeavesPrefix
    DurableReads
    CleanCloseStoresAll
    NoOneIsStranded
