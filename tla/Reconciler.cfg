SPECIFICATION FairSpec
CONSTANTS
    Namespaces = {"a"}
    MaxVN = 2
    Specs <- MCSpecs
    Patterns <- MCPatterns
    PatternsOf <- MCPatternsOf
    BadSpecs = {}
    Unbuildable = {}
    AllowedTiers = {"unstable", "vN", "stable"}
    Reasons = {}
    NoReason = NoReason
    NoSlot = NoSlot
    Gateways = {"g1"}
    Addrs = {"x"}
    Rids <- MCRids
    ValueOf <- MCValueOf
    Regs <- MCRegs
    RidsOf <- MCRidsOf
    HomeOf <- MCHomeOf
    MaxBeats = 1
    MaxCrashes = 2
    Idle = Idle
CHECK_DEADLOCK FALSE
INVARIANTS IndexMirrorsBucket
PROPERTY GoneIsUnserved
