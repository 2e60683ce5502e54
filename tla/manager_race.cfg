CONSTANTS
    Throws = Throws
    Exception = Throws
    r1 = r1
    r2 = r2
    r3 = r3
    Requests <- TwoRequests
    Graph <- SumAndSize
    Rejected <- None
    RaceOutcomes <- AnyOutcome
    StaticData <- MCStaticData
    CalculateTaskImpl <- Term
    PipeHwm = 2
    MaxDuplicates = 0
    MaxManagerRestarts = 0
SPECIFICATION Spec
INVARIANT ManagerSurvives
