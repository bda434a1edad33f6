SPECIFICATION Spec
CONSTANTS
    t1 = t1
    t2 = t2
    Threads <- TwoThreads
    Durations <- TwoDurations
    StopReasons <- OneReason
    MaxTraceRecords = 1
    MaxEpoch = 2
    MaxCalls = 2
    MaxExecutions = 2
SYMMETRY ThreadSymmetry
INVARIANTS
    TracesWithinCap
    CallsAccountedFor
PROPERTIES
    EpochsOnlyGrow
CHECK_DEADLOCK FALSE
