CONSTANTS
    Keys = {route, label}
    MaxChanges = 3
    MaxSessions = 2
    MaxTimeouts = 1
SPECIFICATION HubSpec
PROPERTIES ReturnsOnlyIfTaken
CHECK_DEADLOCK FALSE
