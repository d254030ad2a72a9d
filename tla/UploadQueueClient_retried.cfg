SPECIFICATION Spec
CONSTANTS
    Users = {u1}
    NewIds = {i1}
    Sessions = {s1}
    Contents = {f1}
    Slots = {r1, r2}
    MaxUnmounts = 0
    NoUser = NoUser
    NoSession = NoSession
    NoFile = NoFile
    NoSlot = NoSlot
SYMMETRY Symmetry
INVARIANTS RetriedNotCancelled
CHECK_DEADLOCK FALSE
