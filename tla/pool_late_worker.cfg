CONSTANTS
    w1 = w1
    w2 = w2
    Throws = Throws
    Exception = Throws
    Workers <- TwoWorkers
    CoreCount <- OneAndTwoCores
    Tasks <- OneTask
    StaticData <- MCStaticData
    CalculateTaskImpl <- MCCalculate
    PipeHwm = 1
    PubHwm = 1
    SubscribeFirst = TRUE
    MaxRestarts = 0
SPECIFICATION FairSpec
PROPERTY EveryTaskAnswered
