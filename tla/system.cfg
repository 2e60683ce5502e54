CONSTANTS
    Throws = Throws
    Exception = Throws
    r1 = r1
    r2 = r2
    w1 = w1
    Requests <- TwoRequests
    Graph <- MCGraph
    Rejected <- None
    RaceOutcomes <- OnlyFound
    StaticData <- MCStaticData
    CalculateTaskImpl <- Term
    Workers <- OneWorker
    CoreCount <- MCCoreCount
    Tasks <- MCTasks
    PipeHwm = 1
    PubHwm = 3
    SubscribeFirst = TRUE
SPECIFICATION Spec
INVARIANT NoMutualWait
PROPERTY AnswersAreValues
