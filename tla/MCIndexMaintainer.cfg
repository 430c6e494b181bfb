CONSTANTS
    c1 = c1
    c2 = c2
    Channels <- MCChannels
    IndexChannels = {c1}
    Indexed = {c1}
    Density = 2
    Batches <- MCBatches
    MaxSubmits = 4
    QueueCap = 2
    LookupFaults = TRUE
    WriteFaults = FALSE
SPECIFICATION Spec
PROPERTIES
    IndexIsAtomic
CHECK_DEADLOCK FALSE
