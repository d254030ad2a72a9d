CONSTANTS
    Platforms = {"native"}
    FirstItems = 1
    MaxItems = 2
    MaxAttempts = 1
    MaxContexts = 2
    MaxSessions = 2
    None = None
SPECIFICATION Spec
PROPERTIES PlaceKept
CHECK_DEADLOCK FALSE
