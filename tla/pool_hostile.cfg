CONSTANTS
    w1 = w1
    w2 = w2
    Throws = Throws
    Exception = Throws
    Workers <- TwoWorkers
    CoreCount <- TwoByTwoCores
    Tasks <- FaultyTasks
    StaticData <- MCStaticData
    CalculateTaskImpl <- MCCalculate
    PipeHwm = 2
    PubHwm = 1
    SubscribeFirst = FALSE
    MaxRestarts = 1
SPECIFICATION Spec
SYMMETRY WorkerSymmetry
INVARIANTS TypeOK OwnTasksOnly NoOvercommit BrokerEndHasCause
PROPERTY LossHasCause
CHECK_DEADLOCK FALSE
