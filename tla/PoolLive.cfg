CONSTANTS
    Callers = {h1, h2}
    Free = free
    MaxConns = 2
    OtherAddresses = FALSE
    MaxFired = 2
SPECIFICATION FairSpec
PROPERTIES IdleIsClosed EveryCallReturns
CHECK_DEADLOCK FALSE
