CONSTANTS
    Throws = Throws
    Exception = Throws
    r1 = r1
    r2 = r2
    r3 = r3
    Requests <- ThreeRequests
    Graph <- WithConstant
    Rejected <- None
    RaceOutcomes <- OnlyFound
    StaticData <- MCStaticData
    CalculateTaskImpl <- Term
    PipeHwm = 1
    MaxDuplicates = 0
    MaxManagerRestarts = 0
SPECIFICATION FairSpec
INVARIANTS TypeOK ProcessingIsInFlight OperandsReady NoResidue
PROPERTY ImplementsCalculator
