SPECIFICATION Spec
CONSTANTS
    t1 = t1
    t2 = t2
    t3 = t3
    transition = transition
    generation = generation
    s1 = s1
    Free = Free
    NoSource = NoSource
    Threads <- ThreeThreads
    Kinds <- TwoKinds
    Sources <- OneSource
    GlobalLimit = 2
    KindLimit <- OneTransition
    Acquisitions <- AnyAcquisition
    Failing <- ThreeThreads
SYMMETRY ThreadSymmetry
INVARIANTS
    LimitsRespected
    WorkConserving
    PermitAccounting
PROPERTIES
    GrantsOldestEligible
    OutcomeAgrees
