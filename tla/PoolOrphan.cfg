CONSTANTS
    Callers = {h1, h2}
    Free = free
    MaxConns = 2
    OtherAddresses = TRUE
    MaxFired = 2
SPECIFICATION Spec
INVARIANTS NoOrphan
CHECK_DEADLOCK FALSE
