\* Nobody gives up; the session may die once.
CONSTANTS
    Downloads = {d1, d2}
    Uploads = {}
    Clears = {}
    Macros = {}
    None = none
    Attempts = 1
    MaxTurns = 1
    MaxRefusals = 1
    MaxTimeouts = 0
    MaxSessions = 2
SPECIFICATION FairSpec
PROPERTIES QueueMoves
CHECK_DEADLOCK FALSE
