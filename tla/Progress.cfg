\* One instance of each component of MCProgress.
SPECIFICATION ProgressSpec
CONSTANTS
    Timeout = 2
    MaxCalls = 3
    OneThread = FALSE
    EpollCanFail = TRUE
    s1 = s1  s2 = s2  s3 = s3  k1 = k1
    Submitters = {s1, s2, s3}
    Closers = {k1}
    BatchSize = 2
    MaxJobs = 5
    MayThrow = TRUE
    SlMaxBreaks = 3
    SlMaxFails = 3
    SdHosts = {"a"}
    SdSelf = "self"
    SdMaxChanges = 1
    SdMaxExpiry = 1
    NcDomains = {"d", "e"}
    NcCalls = {"c1", "c2"}
    NcMaxChanges = 1
    NcMaxSets = 1
    NcMaxFaults = 1
    TpWorkers = {"w1", "w2", "w3"}
    TpInit0 = {"w1"}
    TpMax = 3
    TpQueueMax = 2
    TpMaxTasks = 4
    TpUint = 8
    FxCmds = {"a", "b"}
    FxPipeSize = 1
    FxMaxConnects = 2
    FxMaxStops = 1
CHECK_DEADLOCK FALSE
INVARIANTS NoEarlyTimeout CleanReturn SlOrderly SdConsistent FxSafe
PROPERTIES TimedCallsReturn WaitAllReturns SlRecovers DiscoverySettles NcSettles TpDestroyed FxReturns
