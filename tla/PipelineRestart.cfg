SPECIFICATION Spec
CONSTANTS
    p1 = p1
    p2 = p2
    Producers <- TwoProducers
    Capacity = 2
    BatchSize = 2
    MaxRetries = 1
    MaxEvents = 3
    MaxStarts = 2
PROPERTY RunningWorkerWaits
CHECK_DEADLOCK FALSE
