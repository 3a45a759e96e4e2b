SPECIFICATION BreakerSpec
CONSTANTS
    Threshold = 3
    Recovery = 4
    Timeout = 2
CHECK_DEADLOCK FALSE
INVARIANT
    FailingPrimaryRests
