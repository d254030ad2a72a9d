SPECIFICATION Spec
CONSTANTS
    Tracks = {1, 2, 3, 4}
    Volatile = {2}
    Unprepared = {4}
    Segments <- TwoLengths
    Kinds = {"search", "likes", "shuffle"}
    Requests = {r1, r2}
    PageSize = 1
    PageLimit = 3
    MinFuture = 2
    TailSegments = 1
    TailDuration = 2
    MaxPage = 2
    Msn = {1}
    NoRequest = NoRequest
INVARIANTS TypeOK QueueInOrder NothingSkipped TimelineContiguous
           PlaylistExact
PROPERTIES ImplementsEvent
CHECK_DEADLOCK FALSE
