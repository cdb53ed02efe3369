SPECIFICATION MCSpec
CONSTANTS
    c1 = c1
    c2 = c2
    Calls = {c1, c2}
    Unit = 2
    Requests <- MCRequests
    BalanceLists <- MCBalanceLists
    MaxRetries = 2
CHECK_DEADLOCK FALSE
PROPERTIES
    ImplementsLedger
    EveryCallSettles
