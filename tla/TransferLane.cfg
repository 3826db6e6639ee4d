\* A still download, a macro upload and a clear.
CONSTANTS
    Downloads = {d1}
    Uploads = {u}
    Clears = {c}
    Macros = {u}
    None = none
    Attempts = 1
    MaxTurns = 1
    MaxRefusals = 1
    MaxTimeouts = 1
    MaxSessions = 1
SPECIFICATION Spec
INVARIANTS TypeOK HeadIsTransfer DoneWasServed NoLockLeft
CHECK_DEADLOCK FALSE
