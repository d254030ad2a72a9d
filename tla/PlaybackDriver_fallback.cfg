CONSTANTS
    Platforms = {"native"}
    FirstItems = 1
    MaxItems = 1
    MaxAttempts = 1
    MaxContexts = 2
    MaxSessions = 2
    None = None
SPECIFICATION Spec
INVARIANTS FallbackAudible
CHECK_DEADLOCK FALSE
