CONSTANTS
    c1 = c1
    c2 = c2
    Channels <- MCChannels
    IndexChannels = {c1}
    Indexed = {c1}
    Density = 2
    Batches <- MCBatches
    MaxSubmits = 3
    QueueCap = 2
    LookupFaults = FALSE
    WriteFaults = FALSE
SPECIFICATION Spec
INVARIANTS
    IndexMatchesData
CHECK_DEADLOCK FALSE
