SPECIFICATION Spec
CONSTANTS
    t1 = t1
    t2 = t2
    s1 = s1
    s2 = s2
    Watchdog = Watchdog
    Free = Free
    None = None
    NoDeadline = NoDeadline
    Threads <- TwoThreads
    States <- TwoStates
    Deadlines <- SoonLateNever
    MaximumWait = 1
    MaxTime = 2
SYMMETRY Symmetry
INVARIANTS NoLostWakeup NoStaleEntry CallbackOwnerIsThere
CHECK_DEADLOCK FALSE
