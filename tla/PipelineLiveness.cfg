SPECIFICATION FairSpec
CONSTANTS
    p1 = p1
    p2 = p2
    Producers <- OneProducer
    Capacity = 2
    BatchSize = 2
    MaxRetries = 1
    MaxEvents = 3
    MaxStarts = 1
PROPERTY StopReturns
PROPERTY RunningWorkerDelivers
CHECK_DEADLOCK FALSE
