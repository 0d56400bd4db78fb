SPECIFICATION Spec
CONSTANTS
    MaxRequests = 2
    MaxStops = 1
    ThenCalls = TRUE
CHECK_DEADLOCK FALSE
INVARIANTS
    AnsweredInOrder
