SPECIFICATION Spec
CONSTANTS
    Keys = {"k"}
    Attempts = {a1, a2}
    MaxAttempts = 3
    Lockout = 2
    Window = 4
    Patience = 1
    MaxTime = 9
    MaxMistakes = 8
    None = None
SYMMETRY Symmetric
INVARIANTS
    LockedOnlyForCause
    FailuresBounded
CHECK_DEADLOCK FALSE
