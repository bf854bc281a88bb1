SPECIFICATION Spec
CONSTANTS
    Sites = {s1}
    Jobs = {j1, j2}
    Clients = {c1, c2}
    Sweepers = {}
    Drifters = {d1}
    Cancellers = {x1}
    Benchers = {b1}
    Dues = {"never"}
    Faults = {"crash", "dbDrop"}
    NoJob = NoJob
    NoSite = NoSite
SYMMETRY Symmetric
INVARIANTS
    TypeOK
    OnePushPerDevice
    OneActiveApply
