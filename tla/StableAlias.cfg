SPECIFICATION FairSpec
CONSTANTS
    Gateways = {g1}
    MaxVN = 2
    MaxAttempts = 2
    MaxRegisters = 3
    MaxRetracts = 1
    MaxFailures = 1
    MaxRestarts = 1
CHECK_DEADLOCK FALSE
INVARIANT GatewaysFollowBucket
PROPERTY AliasCatchesUp
