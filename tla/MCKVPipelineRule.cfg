CONSTANTS
    Nodes <- MCNodes
    Keys <- MCOneKey
    MaxBatch = 2
    MaxVersion = 3
    QueueCap = 2
    MaxCrashes = 0
    ReadFaults = FALSE
    Lossy = FALSE
    CounterFaults = FALSE
SPECIFICATION Spec
PROPERTY
    NewerWritesAccepted
CHECK_DEADLOCK FALSE
