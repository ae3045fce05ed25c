SPECIFICATION Spec
CONSTANTS
    Namespaces = {"a"}
    MaxVN = 2
    Specs <- MCSpecs
    Patterns <- MCPatterns
    PatternsOf <- MCPatternsOf
    BadSpecs <- MCBadSpecs
    Unbuildable <- MCUnbuildable
    AllowedTiers = {"vN", "stable"}
    Reasons = {r}
    NoReason = NoReason
    NoSlot = NoSlot
    Ids = {i1, i2, i3}
    Addrs = {x, y}
    Requests <- RequestsVN
    BootSpecs <- MCBootSpecs
    TTL = 0
    Boot = Boot
    NoConn = NoConn
    NoReg = NoReg
    Idle = Idle
    NotBuilt = NotBuilt
SYMMETRY MCSymmetry
INVARIANTS SlotsBacked ConnRefsExact ServedSchemaFresh ChannelClaimsDisjoint
PROPERTIES AllOrNothing VersionLocked
