SPECIFICATION FairSpec
CONSTANTS
    Users = {u1, u2}
    NoUser = NoUser
    MaxReviews = 3
    MaxDepth = 2
    Worlds <- AllWorlds
INVARIANTS
    ListIsTheQuery
    HintIffEmpty
PROPERTIES
    AgainOnlyIfWithdrawn
    VisibleIsListed
CHECK_DEADLOCK TRUE
