SPECIFICATION EnrollmentSpec
CONSTANTS
    Fabrics = {"f1"}
    Sites = {"hq", "br", "new"}
    Wans = {1, 2, 3, 4, 5, 6}
    SiteOf <- TwoEach
    Legacy = {}
    Addresses = {"a1", "a2"}
    Transports = {"wireguard"}
    Pools <- TwoPools
    Loopbacks = {1, 2, 3}
    SiteLoopback <- NoLoopback
    Ports = {1, 2, 3}
    Sessions = {r1}
    WanRows <- Rows
    WansAtStart <- AtStart
    SitesAtStart <- HubAndSpoke
    FabricRows <- Choices
    FabricsAtStart <- One
    Rosters = {{}}
    Documents = {}
    MaxEdits = 3
    None = None
    Tokens = {t1}
    Calls = {c1, c2}
    Devices <- Routers
    Unread = {{}, {"members"}}
PROPERTIES
    SpentOnce
CHECK_DEADLOCK FALSE
