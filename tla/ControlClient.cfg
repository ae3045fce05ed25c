SPECIFICATION CFairSpec
CONSTANTS
    x = x  y = y  c1 = c1  c2 = c2
    Namespaces = {"a"}
    MaxVN = 1
    Specs <- MCSpecs
    Patterns <- MCPatterns
    PatternsOf <- MCPatternsOf
    BadSpecs = {}
    Unbuildable = {}
    AllowedTiers = {"unstable", "vN", "stable"}
    Reasons = {}
    NoReason = NoReason
    NoSlot = NoSlot
    Ids = {1, 2, 3, 4, 5}
    Addrs = {x, y}
    Requests <- MCRequests
    BootSpecs = {}
    TTL = 1
    Boot = Boot
    NoConn = NoConn
    NoReg = NoReg
    Idle = Idle
    NotBuilt = NotBuilt
    Clients = {c1, c2}
    AddrOf <- Separate
    RequestOf <- Conflicting
    NoId = NoId
    MaxFaults = 2
CHECK_DEADLOCK FALSE
INVARIANT OkMeansServed
PROPERTIES Recovers OrphansEvicted
