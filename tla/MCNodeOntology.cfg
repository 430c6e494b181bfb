CONSTANTS
    n1 = n1
    n2 = n2
    n3 = n3
    Nodes <- MCNodes
    Initial <- MCInitial
    MaxWriteFaults = 2
SPECIFICATION Spec
INVARIANTS
    TypeOK
PROPERTIES
    EventuallyMirrored
