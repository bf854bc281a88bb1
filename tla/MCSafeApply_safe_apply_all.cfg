SPECIFICATION FairSpec
CONSTANTS
    MaxOps = 5
    ChunkSize = 2
    MaxOlder = 2
    Faults <- Everything
INVARIANTS
    FailureIsAccountedFor
    
    CommitRowsAreTrue
PROPERTIES
    EventuallySettled
