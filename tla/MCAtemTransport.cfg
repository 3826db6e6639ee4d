\* The switcher falls silent once, and one of each other thing goes wrong.
CONSTANTS
    MaxSessions = 5
    MaxQuiet = 1
    MaxLost = 1
    MaxRefused = 1
    MaxNoMode = 1
    MaxStragglers = 1
    MaxCmds = 1
    Retries = 1
    MaxWaiting = 2
    Lags = FALSE
    \* The numbers of AtemSend wrap once; its buffer holds half of them.
    SeqSpace = 8
    Window = 4
    Burst = 2
    Ahead = 3
    MaxAge = 3
    Total = 9
SPECIFICATION TransportSpec
INVARIANTS TypeOK ReplacedIsGone TakenOnce StillHeld InOrder
PROPERTIES SessionReadyAgain EverythingTaken
CHECK_DEADLOCK FALSE
