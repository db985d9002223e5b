CONSTANTS
    c1 = c1
    c2 = c2
    c3 = c3
    real = real
    link = link
    other = other
    None = None
    Calls <- ThreeCalls
    Paths <- ThreePaths
    Canonical <- OneFileTwice
SPECIFICATION FairSpec
CHECK_DEADLOCK FALSE
INVARIANTS
    OneRunsPerQueue
PROPERTIES
    CallsEnd
