SPECIFICATION FairSpec
CONSTANTS
    Tracks = {t1}
    Assets = {a1, a2}
    Jobs = {j1, j2}
    Sessions = {s1}
    Workers = {w1}
    MaxAttempts = 2
    Faults = {}
    NoTrack = NoTrack
    NoAsset = NoAsset
    NoJob = NoJob
PROPERTIES BackfillEnds DeletionEnds RetiredReclaimed
CHECK_DEADLOCK FALSE
