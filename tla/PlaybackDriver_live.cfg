CONSTANTS
    Platforms = {"native", "js"}
    FirstItems = 1
    MaxItems = 1
    MaxAttempts = 2
    MaxContexts = 2
    MaxSessions = 2
    None = None
SPECIFICATION FairSpec
PROPERTIES PlaybackSettles
CHECK_DEADLOCK FALSE
