SPECIFICATION FairSpec
CONSTANTS
    SeqSpace = 6
    Half = 3
    First = 4
    ParkWindow = 1
    SeenMax = 2
    AckEvery = 1
    ControlSeqs = {}
    SendWindow = 2
    MaxAge = 2
    Total = 3
CHECK_DEADLOCK FALSE
PROPERTIES EverythingDelivered EverythingAcknowledged
