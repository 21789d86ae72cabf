SPECIFICATION FairSpec
CONSTANTS
    Users = {u1, u2}
    NoUser = NoUser
    Attempts = {a1, a2}
    Blobs = {b1, b2}
    NoBlob = NoBlob
PROPERTIES
    LoginLeavesForAReason
    AttemptsEnd
