SPECIFICATION Spec
CONSTANTS
    t1 = t1
    t2 = t2
    c1 = c1
    n1 = n1
    Free = Free
    None = None
    Threads <- TwoThreads
    Copies <- NoCopies
    Names <- NoNames
    MaxRuns = 1
    MaxSteps = 2
    PermitLimit = 2
PROPERTY FailureEndsRun
