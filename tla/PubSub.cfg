SPECIFICATION Either
CONSTANTS
    Consumers = {c1, c2, c3}
    Publishers = {p1}
    Capacity = 1
    MaxFailures = 1
    MaxDrops = 1
    SignalCap = 1
    na = na  nb = nb  ea = ea  va = va  vb = vb
    Nodes = {na, nb}
    PeersOf <- Mutual
    MeshKey <- OneKey
    NoKey = ""
    BusPublishers = {ea}
    PublisherAt <- OnFirst
    Notices <- TwoNotices
    Viewers = {va, vb}
    ViewerAt <- OneEach
    Wants <- Patterns
    Guarded = {nb}
    Closers = {na}
    QueueDepth = 1
    PeerQueueDepth = 1
    FailThresh = 1
    Cooldown = 1
    Skew = 0
    MaxPublished = 2
    MaxClock = 1
CHECK_DEADLOCK FALSE
INVARIANTS OneSubscription PublishedOnce EventsOnce SubscriptionsWhole
