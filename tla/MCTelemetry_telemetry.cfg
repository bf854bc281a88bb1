SPECIFICATION Spec
CONSTANTS
    Ends = {"e1"}
    SiteOf <- OneSite
    Groups = {"g1"}
    CoverAtStart <- Covered
    Sla <- Limits
    Latencies = {1, 2}
    Bucket = 2
    Retention = 2
    Sweeps = {s1, s2}
    MaxTime = 3
    JobTimeout = 2
    MaxMishaps = 2
    None = None
SYMMETRY Symmetric
INVARIANTS
    TypeOK
    OneRowPerBucket
    EpisodesCountedOnce
    SamplesAreJudged
    TelemetryGoesOn
CHECK_DEADLOCK FALSE
