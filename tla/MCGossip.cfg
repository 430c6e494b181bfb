CONSTANTS
    Nodes <- MCNodes
    Up <- MCUp
    Initiators <- MCUp
    InitView <- MCInitView
    MaxRounds = 1
    MaxFaults = 1
SPECIFICATION Spec
INVARIANTS
    NoOneAheadOfOwner
PROPERTIES
    ImplementsMembership
    Disseminates
CHECK_DEADLOCK FALSE
