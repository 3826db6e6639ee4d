\* As TransferLaneLive, but a caller gives up.
CONSTANTS
    Downloads = {d1}
    Uploads = {}
    Clears = {c}
    Macros = {}
    None = none
    Attempts = 1
    MaxTurns = 1
    MaxRefusals = 0
    MaxTimeouts = 1
    MaxSessions = 1
SPECIFICATION FairSpec
PROPERTIES QueueMoves
CHECK_DEADLOCK FALSE
