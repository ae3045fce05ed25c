SPECIFICATION Spec
CONSTANTS
    Consumers = {c1, c2, c3}
    Keys = {k1, k2}
    EndpointOf <- SameEndpoint
    MaxDials = 2
    MaxFrames = 1
    Nobody = Nobody
SYMMETRY Symmetry
CHECK_DEADLOCK FALSE
INVARIANTS NoLostSocket TerminatedSeesEnd
