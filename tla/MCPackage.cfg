SPECIFICATION Spec
CONSTANTS
    LowerForm <- Capitals
    ControlNames <- FirstControl
    UnsafeNames <- Reserved
    Documents <- ThreePipelines
    Requests <- AllLoads
    ProviderNames <- Spellings
    AvailableProviders <- EveryProvider
    RegisteredProviders <- EveryProvider
    MaxPasses <- PassesOf
INVARIANTS SessionsRunWherePlaced StagesAlwaysOrdered EveryInputHasASource InputsOfThisPass GeneratedFromThisPass PlanIsHonest
CHECK_DEADLOCK FALSE
