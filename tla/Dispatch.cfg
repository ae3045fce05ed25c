CONSTANTS
    NoReplica = NoReplica
    Calls = {c1, c2, c3}
    AtStart = 2
    MaxReplicas = 3
    MaxLeaves = 1
    MaxEnds = 1
    Hints = {0, 1}
    ServiceCap = 2
    InstanceCap = 1
    EjectAfter = 2
    MaxAttempts = 2
SPECIFICATION Spec
SYMMETRY CallSymmetry
CHECK_DEADLOCK FALSE
INVARIANTS SlotsExact DeliveredOnce
