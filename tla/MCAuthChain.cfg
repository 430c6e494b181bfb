CONSTANTS
    MaxChain = 3
SPECIFICATION Spec
INVARIANTS
    HashersFailClosed
CHECK_DEADLOCK FALSE
