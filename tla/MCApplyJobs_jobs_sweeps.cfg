SPECIFICATION FairSpec
CONSTANTS
    Sites = {s1}
    Jobs = {j1, j2}
    Clients = {c1}
    Sweepers = {w1, w2}
    Drifters = {}
    Cancellers = {}
    Benchers = {}
    Dues = {"never", "before", "open"}
    Faults = {}
    NoJob = NoJob
    NoSite = NoSite
INVARIANTS
    PushedOnceUndisputed
PROPERTIES
    EveryJobIsDecided
