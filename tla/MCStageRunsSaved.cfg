SPECIFICATION FairSpec
CONSTANTS
    t1 = t1
    t2 = t2
    c1 = c1
    n1 = n1
    Free = Free
    None = None
    Threads <- TwoThreads
    Copies <- OneCopy
    Names <- OneName
    MaxRuns = 1
    MaxSteps = 1
    PermitLimit = 1
INVARIANT SavedDataAreWhole
PROPERTY CallsReturn
CHECK_DEADLOCK FALSE
