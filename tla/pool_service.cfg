CONSTANTS
    w1 = w1
    w2 = w2
    Throws = Throws
    Exception = Throws
    Workers <- OneWorker
    CoreCount <- OneWorkerThreeCores
    Tasks <- ThreeTasks
    StaticData <- MCStaticData
    CalculateTaskImpl <- MCCalculate
    PipeHwm = 2
    PubHwm = 3
    SubscribeFirst = TRUE
    MaxRestarts = 0
SPECIFICATION FairSpec
INVARIANTS PoolNeverFull QueuedTaskHasAwakeThread NoCoreLeak ExactlyOnce
PROPERTIES NoIdleCoreWhileQueued ImplementsTaskService EveryTaskAnswered
