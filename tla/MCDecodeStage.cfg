SPECIFICATION Spec
CONSTANTS
    None = None
    Lanes <- TwoLanes
    Tokens <- ThreeWords
    Eos <- TwoStops
    Samples <- OneStops
    Prompts <- TwoPrompts
    Layout <- Pictured
    Cursored = TRUE
    Requests <- ThreeOrFour
    TokenLimit = 3
    MaxSequence = 4
    MaxCache = 2
    MaxFailures = 1
INVARIANTS CacheFollowsRun PositionsIncrease FinishedLanesStayFinished WithinSequenceLimit
PROPERTIES RunsStopWhenDone
CHECK_DEADLOCK FALSE
