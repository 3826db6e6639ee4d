\* The switcher may run past the park window of the receive path; its unreliable frames
\* carry number 5, and its packets 7, 0, 1 and 2.
CONSTANTS
    \* AtemReceive
    SeqSpace = 8
    Half = 4
    First = 6
    ParkWindow = 1
    SeenMax = 2
    AckEvery = 1
    ControlSeqs = {5}
    SendWindow = 3
    MaxAge = 3
    Total = 4
    \* Videohub
    Keys = {route, label}
    MaxChanges = 2
    MaxSessions = 2
    MaxTimeouts = 1
    \* Hyperdeck
    MaxCalls = 3
    MaxConnects = 2
    MaxNotes = 3
    MaxStrays = 1
    Backlog = 2
    \* HyperdeckUpload
    Chunks = 2
    Volumes = {1, 2}
    \* NetworkSetup
    Addresses = {"a", "b"}
    Masks = {"m", "n"}
    Leased = "l"
    Keeps = {"on", "off"}
    \* Ultimatte
    Presets = {1, 2}
    AckLen = 3
    \* Controls
    GroupNames = {"onair", "base", "luma", "chroma", "picker", "pattern", "dve",
                  "dsk_air", "dsk_base", "dsk", "settings", "mix", "dip", "wipe",
                  "dve_tr", "stinger", "master", "strip", "band", "compressor",
                  "limiter", "expander", "master_band", "master_compressor",
                  "master_limiter", "audio_input", "audio_master", "audio_monitor",
                  "program", "preview", "aux", "color", "ftb", "hyperdeck", "box",
                  "art", "window", "multiview"}
    MaxAsks = 1
    \* Profile
    SavedMEs = 3
    LiveMEs = 2
    Options <- MCOptions
    MaxOutbox = 2
SPECIFICATION PartsSpec
INVARIANTS
    OnlyForward ShowsWhatTheHubHad CatchesUp AnswerIsOwn NotesKept EndIsTrue EndIsTold
    RestoredIsArchived LiveComesLast ShownAsAsked TwinSavesTheSame LandsAsSaved
PROPERTIES NeverShowsOlder CutsLast
CHECK_DEADLOCK FALSE
