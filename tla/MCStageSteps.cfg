SPECIFICATION Spec
CONSTANTS
    None = None
    Order <- TwoComponents
    Feeds <- EncoderFirst
    Conditioned <- EncoderOnly
    Positioned <- DenoiserOnly
    LatentOrder <- TwoLatents
    Predictor <- ByDenoiser
    Iterative = TRUE
    Multistep = TRUE
    SolverOrder = 2
    LowerOrderFinal = FALSE
    StepChoices <- TwoSteps
    GuidedChoices <- Either
    Bindings <- Everything
    Stages <- BothStages
    Stage = "denoise"
    ReleaseAfter <- SoundEarlier
    MaxUpdates = 3
    MaxFailures = 1
INVARIANTS ScratchIsInvisible HistoryFollowsLatent UpdatesAccountedFor SigmasInRange
PROPERTIES UpdatesUseTheirPrediction ImplementsSinglePass
CHECK_DEADLOCK FALSE
