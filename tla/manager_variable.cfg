CONSTANTS
    Throws = Throws
    Exception = Throws
    r1 = r1
    r2 = r2
    r3 = r3
    Requests <- TwoRequests
    Graph <- SumAndVariable
    Rejected <- None
    RaceOutcomes <- OnlyFound
    StaticData <- MCStaticData
    CalculateTaskImpl <- Term
    PipeHwm = 2
    MaxDuplicates = 0
    MaxManagerRestarts = 0
SPECIFICATION FairSpec
PROPERTY EveryRequestAnswered
