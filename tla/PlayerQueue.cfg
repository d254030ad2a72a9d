CONSTANTS
    Tracks = {1, 2, 3, 4}
    Lists <- TwoLists
    Removals = {{4}, {1, 3, 4}}
    PageSize = 1
    HistoryLimit = 1
    FuturePersist = 1
    PrefetchDistance = 1
    ShuffleDistance = 1
    MaxContexts = 3
    Anchors = {2}
    None = None
SPECIFICATION Spec
INVARIANTS TypeOK NothingSkipped WholeCycle WaitHasAnswer
PROPERTIES NoRepeat AnswersAdvanceOnce TrackKept
