SPECIFICATION FairSpec
CONSTANTS
    MaxRequests = 4
    MaxStops = 3
    ThenCalls = FALSE
CHECK_DEADLOCK FALSE
INVARIANTS
    AnsweredInOrder
    DrivenOnce
    OneWaker
PROPERTIES
    EveryRequestAnswered
