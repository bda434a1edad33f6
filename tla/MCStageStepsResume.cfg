SPECIFICATION Spec
CONSTANTS
    None = None
    Order <- TwoComponents
    Feeds <- EncoderFirst
    Conditioned <- EncoderOnly
    Positioned <- DenoiserOnly
    LatentOrder <- OneLatent
    Predictor <- ByDenoiser
    Iterative = TRUE
    Multistep = TRUE
    SolverOrder = 2
    LowerOrderFinal = TRUE
    StepChoices <- ThreeSteps
    GuidedChoices <- Either
    Bindings <- AllOrNothing
    Stages <- BothStages
    Stage = "denoise"
    ReleaseAfter <- AfterDecode
    MaxUpdates = 3
    MaxFailures = 2
PROPERTY ResumedRunsPerformTheRest
CHECK_DEADLOCK FALSE
