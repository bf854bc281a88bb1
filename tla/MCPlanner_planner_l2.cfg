SPECIFICATION Spec
CONSTANTS
    Links <- OneLink
    Intents <- Stretched
    MaxTroubles = 0
INVARIANTS
    NothingRefused
