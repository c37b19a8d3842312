\* One instance of each component of MCStores.
SPECIFICATION StoresSpec
CONSTANTS
    u1 = u1  u2 = u2  c1 = c1  c2 = c2  c3 = c3
    Threads = {u1, u2}
    Fds = {1, 2, 3, 5}
    InitSize = 2
    NsStreams = {c1, c2}
    NsHandlers = {u1, u2}
    NsInfos <- SomeInfos
    NsMaxReqs = 2
    LbItems = {"i", "j"}
    LbSize = 2
    LbWeights = {2}
    LbCalls = {u1, u2}
    LbMaxTime = 2
    LbPerSecond = 1
    LbUint = 256
    MyUsers = {u1, u2}
    MyConns = {c1, c2, c3}
    MyPoolSize = 2
    HpUsers = {u1, u2}
    HpConns = {c1, c2, c3}
    HpMaxRequest = 2
    HpMaxReqs = 3
    BaBase = 2
    BaByte = 4
    BaWide = 2
    BaBits = 8
    BaItems <- SomeItems
    BaJunk = {3}
    BaMaxPos = 5
    BaMaxOps = 2
    CcKeys = {1, 2}
    CcVals = {"x", "y"}
    CcDelays = {1, 2}
    CcMaxSize = 1
    CcElasticity = 1
    CcMaxTime = 2
    WsMaxSize = 3
    WsLens = {0, 1, 2}
    WsMaxFrames = 3
    BmV = 3
    BmByte = 2
    BmGroup = 2
    BmSizes = {5, 8}
    BmMaxOps = 4
    HfBodies <- SomeBodies
    HfChunked <- SomeChunks
    HfBuf = 8
    HfMaxMsgs = 2
    FcThreads = {"a", "b", "m"}
    FcHooked = {"a", "b"}
    FcFds = {1, 2}
    FcTimes = {1}
    FcMaxSocks = 3
    FcMaxOps = 2
SYMMETRY StoresSymmetry
CHECK_DEADLOCK FALSE
INVARIANTS
    InRange CancelFinds NsExact LbWindow MyClean HpOwnAnswer BaRoundTrip CcAgree WsDelivers
    BmIsSet HfFramed FcExact
PROPERTY BaIsFlat
