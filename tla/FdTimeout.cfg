\* One socket made under hooks, and a timeout set on it.
SPECIFICATION FcSpec
CONSTANTS
    FcThreads = {"a"}
    FcHooked = {"a"}
    FcFds = {1}
    FcTimes = {1}
    FcMaxSocks = 1
    FcMaxOps = 2
CHECK_DEADLOCK FALSE
INVARIANT FcTimeoutKnown
