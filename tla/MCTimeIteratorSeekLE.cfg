CONSTANTS
    Stamps <- MCStamps
    Times <- MCTimes
    Spans <- MCSpans
    Faults = FALSE
SPECIFICATION Spec
INVARIANTS
    SeekLERefreshesView
CHECK_DEADLOCK FALSE
