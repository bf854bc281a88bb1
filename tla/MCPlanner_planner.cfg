SPECIFICATION FairSpec
CONSTANTS
    Links <- TwoLinks
    Intents <- Routed
    MaxTroubles = 2
INVARIANTS
    NothingRefused
    CleanAfterPush
PROPERTIES
    ForeignUntouched
    MakeBeforeBreak
    EventuallyConverged
