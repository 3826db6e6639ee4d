CONSTANTS
    Callers = {h1, h2, h3}
    Free = free
    MaxConns = 2
    OtherAddresses = TRUE
    MaxFired = 2
SPECIFICATION Spec
SYMMETRY Symmetry
INVARIANTS TypeOK RefCounted TeardownUnheld IdleHasTimer
PROPERTIES LeavesByItsOwnDeath
CHECK_DEADLOCK FALSE
