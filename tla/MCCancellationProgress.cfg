SPECIFICATION FairSpec
CONSTANTS
    t1 = t1
    t2 = t2
    s1 = s1
    s2 = s2
    Watchdog = Watchdog
    Free = Free
    None = None
    NoDeadline = NoDeadline
    Threads <- TwoThreads
    States <- OneState
    Deadlines <- LateOrNever
    MaximumWait = 1
    MaxTime = 2
CHECK_DEADLOCK FALSE
PROPERTIES DeadlineStops CallsReturn ImplementsFairPromise
