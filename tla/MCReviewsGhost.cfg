SPECIFICATION Spec
CONSTANTS
    Users = {u1, u2}
    NoUser = NoUser
    MaxReviews = 2
    MaxDepth = 1
    Worlds <- GhostWorlds
INVARIANTS
    ListedIsStored
CHECK_DEADLOCK TRUE
