CONSTANTS
    Nodes <- MCNodes
    Keys <- MCOneKey
    MaxBatch = 2
    MaxVersion = 3
    QueueCap = 2
    MaxCrashes = 1
    ReadFaults = TRUE
    Lossy = TRUE
    CounterFaults = TRUE
SPECIFICATION Spec
INVARIANTS
    TypeOK
    VersionsNeverReused
    FilterIsTotalOrder
PROPERTIES
    AcceptOnlyAgainstStoredDigest
CHECK_DEADLOCK FALSE
