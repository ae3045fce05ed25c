CONSTANTS
    c1 = c1  c2 = c2  p1 = p1  p2 = p2
    Conns = {c1, c2}
    IPs = {p1, p2}
    Deployments <- Capped2
    Ids = {"a", "b"}
    KindOf <- BothKinds
    Streams = {1, 2}
    NoStream = NoStream
    Trusted = {p2}
    MaxPerIP = 1  Burst = 1  Rate = 1
    MaxTime = 1
    Handlers = {h1}
    Declared <- SomeLengths
    FileLen = 3
    MaxChunk = 2
    Limit = 3
    MaxLost = 3
    MaxFaults = 0
    Operations <- SomeOperations
    EchoComplete = FALSE
SPECIFICATION Either
CHECK_DEADLOCK FALSE
INVARIANTS CapsKept UploadIntact StreamFrames
PROPERTIES SlotsReturned StreamsEnd
