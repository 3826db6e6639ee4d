SPECIFICATION Spec
CONSTANTS
    SeqSpace = 8
    Half = 4
    First = 6
    ParkWindow = 2
    SeenMax = 3
    AckEvery = 2
    ControlSeqs = {}
    SendWindow = 2
    MaxAge = 3
    Total = 9
CHECK_DEADLOCK FALSE
INVARIANTS TypeOK NoHole AckedWasDelivered ParkedAhead
PROPERTY ImplementsOrderedDelivery
