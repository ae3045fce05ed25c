SPECIFICATION FairSpec
CONSTANTS
    Gateways = {"a", "b"}
    Formed = {"a"}
    Buckets <- TwoBuckets
    MaxReplicas = 2
    MaxQueue = 1
    MaxFailures = 2
    MaxCrashes = 1
    MaxLapses = 1
    MaxForgets = 1
    Idle = Idle
    Ready = Ready
CHECK_DEADLOCK FALSE
PROPERTIES LiveFollowsUp ReplicasCatchUp
