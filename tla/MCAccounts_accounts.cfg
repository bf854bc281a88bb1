SPECIFICATION Spec
CONSTANTS
    Users = {"ada", "bob", "cyd"}
    AtStart <- Founders
    Tokens = {"t1"}
    Requests = {r1, r2}
    Changes <- Bodies
    Lives = {1, None}
    Second = 2
    Ttl = 2
    MaxTime = 4
    MaxEdits = 4
    None = None
SYMMETRY Symmetric
INVARIANTS
    SignedInStaysIn
    RevokedStaysOut
CHECK_DEADLOCK FALSE
