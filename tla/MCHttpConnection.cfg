CONSTANTS
    MaxExchanges = 3
    MaxFlushes = 2
SPECIFICATION HttpSpec
INVARIANTS
    HttpTypeOK
    PendingIsGuarded
PROPERTIES
    AnswersInOrder
    ConnectionEnds
CHECK_DEADLOCK FALSE
