\* Two callers give up: a download's, then a clear's.
CONSTANTS
    Downloads = {d1}
    Uploads = {}
    Clears = {c}
    Macros = {}
    None = none
    Attempts = 1
    MaxTurns = 1
    MaxRefusals = 0
    MaxTimeouts = 2
    MaxSessions = 1
SPECIFICATION Spec
INVARIANTS ReturnsOnceSent
CHECK_DEADLOCK FALSE
