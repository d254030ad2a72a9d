SPECIFICATION Spec
CONSTANTS
    Users = {u1, u2}
    NewIds = {i1}
    Sessions = {s1}
    Contents = {f1, f2}
    Slots = {r1, r2}
    MaxUnmounts = 1
    NoUser = NoUser
    NoSession = NoSession
    NoFile = NoFile
    NoSlot = NoSlot
SYMMETRY Symmetry
INVARIANTS TypeOK OneAtATime NoStuckRow ProcessingTrue
PROPERTIES NothingForgotten
CHECK_DEADLOCK FALSE
