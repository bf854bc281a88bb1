SPECIFICATION FairSpec
CONSTANTS
    MaxOps = 5
    ChunkSize = 2
    MaxOlder = 2
    Faults <- Survivable
INVARIANTS
    TypeOK
    LockoutIsTemporary
PROPERTIES
    PushOnlyProtected
    ImplementsContract
    LockoutHeals
