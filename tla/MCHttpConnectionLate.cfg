CONSTANTS
    MaxExchanges = 3
    MaxFlushes = 2
SPECIFICATION HttpSpec
PROPERTY TimeoutHitsItsOperation
CHECK_DEADLOCK FALSE
