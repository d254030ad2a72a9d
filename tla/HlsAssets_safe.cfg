SPECIFICATION Spec
CONSTANTS
    Tracks = {t1}
    Assets = {a1, a2}
    Jobs = {j1, j2, j3}
    Sessions = {s1}
    Workers = {w1, w2}
    MaxAttempts = 2
    Faults = {"commit_ack"}
    NoTrack = NoTrack
    NoAsset = NoAsset
    NoJob = NoJob
SYMMETRY Symmetry
INVARIANTS TypeOK OneCurrentAsset ReadyStored PinnedStored
CHECK_DEADLOCK FALSE
