CONSTANTS
    r1 = r1  r2 = r2  r3 = r3  r4 = r4  t1 = t1  t2 = t2
    Requests = {r1, r2, r3, r4}
    Tokens = {t1, t2}
    TokenOf <- Mixed
    Nobody = nobody
    MaxTime = 2
    TTL = 1  MaxTTL = 1  NegativeTTL = 1  AuthTimeout = 1
    Hints = {0, 2}
    Grants = {0, 1, 3}
    Windows = {0, 1}
    MaxBlockSize = 2  MaxValidUntil = 1
    EmergencyPermits = 1  EmergencyTTL = 1
    QuotaEnforce = FALSE
    Retries = 2
    Skew = 1  MaxCachedTokens = 1  ExpiresIn = {0, 2}  ExchangeTime = 1
    Setups <- EachGate
    SignatureOf <- Signatures  Secrets = {"k1"}  SkewWindow = 1
    Postures <- SomePostures  Senders = {p1}  Watchers = {p2}
    Subjects <- SomeSubjects  Asked <- SomeAsked  Kids = {"", "k"}  Callers_ = {"signer", "other"}
    Owners = {"s", "r"}  BindingsOf <- SomeBindings  Declares <- SomeDeclares  Bodies = {{}, {"T"}}
    TokenSkew = 0  MaxSigned = 2  MaxTicks = 1
    Homes = {"a", "b"}  Durable = {"a"}  SeedOf <- Seeds  NoConfig = NoConfig  BadConfig = BadConfig
    Visits = {"v1", "v2"}  Scenes <- SomeScenes  Services <- SomeServices  CASAttempts = 2  MaxDrawn = 2
SPECIFICATION Either
CHECK_DEADLOCK FALSE
INVARIANTS StaleIdentityBounded PermitsAccounted AccessGuarded
PROPERTY Settles
