CONSTANTS
    Platforms = {"js"}
    FirstItems = 1
    MaxItems = 1
    MaxAttempts = 1
    MaxContexts = 2
    MaxSessions = 2
    None = None
SPECIFICATION FairSpec
PROPERTIES PlayNotStuck
CHECK_DEADLOCK FALSE
