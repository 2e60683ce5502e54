CONSTANTS
    Throws = Throws
    Exception = Throws
    r1 = r1
    r2 = r2
    r3 = r3
    Requests <- TwoRequests
    Graph <- QuotientAndSum
    Rejected <- None
    RaceOutcomes <- AnyOutcome
    StaticData <- MCStaticData
    CalculateTaskImpl <- Term
    PipeHwm = 2
    MaxDuplicates = 1
    MaxManagerRestarts = 1
SPECIFICATION Spec
INVARIANTS SyncDataAlive NoLostWakeup CorrectUnlessRestarted ManagerEndHasCause
CHECK_DEADLOCK FALSE
