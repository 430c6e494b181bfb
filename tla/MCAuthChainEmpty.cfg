CONSTANTS
    MaxChain = 3
SPECIFICATION Spec
INVARIANTS
    MultiFailsClosed
CHECK_DEADLOCK FALSE
