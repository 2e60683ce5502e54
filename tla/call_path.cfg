CONSTANTS
    Throws = Throws
    Exception = Throws
    IntMin <- Lowest
    IntMax <- Highest
    StaticData <- MCStaticData
    Variables <- MCVariables
    Inputs <- MCInputs
    Callers <- MCCallers
    MaxFailures = 1
SPECIFICATION FairSpec
INVARIANTS FrameAlive CallerWakes SuccessIsValue WorkerDiesOnlyOfUndefined FailureHasCause NothingLeftBehind
PROPERTY ClientAnswered
CHECK_DEADLOCK FALSE
