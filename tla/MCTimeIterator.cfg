CONSTANTS
    Stamps <- MCStamps
    Times <- MCTimes
    Spans <- MCSpans
    Faults = TRUE
SPECIFICATION Spec
INVARIANTS
    TypeOK
    MovesRefreshView
PROPERTIES
    SetBoundsAllOrNothing
CHECK_DEADLOCK FALSE
