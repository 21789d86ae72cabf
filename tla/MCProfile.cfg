SPECIFICATION ProfileSpec
CONSTANTS
    Users = {u1, u2}
    NoUser = NoUser
    Attempts = {a1, a2}
    Blobs = {b1, b2}
    NoBlob = NoBlob
    Pages = {p1, p2}
    NoPage = NoPage
SYMMETRY Symmetry
INVARIANTS
    LoadedPageUncovered
    DocImageStored
PROPERTIES
    SpinnerLiftsForAProfile
    AccountLifeSpec
CHECK_DEADLOCK TRUE
