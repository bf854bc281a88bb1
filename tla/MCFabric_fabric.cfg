SPECIFICATION Spec
CONSTANTS
    Fabrics = {"f1", "f2"}
    Sites = {"hq", "br1", "br2", "new"}
    Wans = {1, 2, 3, 4}
    SiteOf <- OneEach
    Legacy = {}
    Addresses = {"a1", "a2", "a3"}
    Transports = {"ipsec_gre", "wireguard"}
    Pools <- BothPools
    Loopbacks = {1, 2, 3}
    SiteLoopback <- OwnLoopback
    Ports = {1, 2, 3, 4}
    Sessions = {r1, r2}
    WanRows <- Rows
    WansAtStart <- AtStart
    SitesAtStart <- HubAndSpokes
    FabricRows <- Choices
    FabricsAtStart <- Two
    Rosters = {{}, {"hq", "new"}}
    Documents <- Exports
    MaxEdits = 2
    None = None
SYMMETRY Symmetric
INVARIANTS
    TypeOK
    SubnetsDisjoint
    PortsDisjoint
    LoopbacksDistinct
    KeysMatchTransport
PROPERTIES
    AssignmentsStable
    ExpansionConverges
CHECK_DEADLOCK FALSE
