\* One thread, epoll_ctl may fail.
SPECIFICATION Spec
CONSTANTS
    Timeout = 2
    MaxCalls = 2
    OneThread = TRUE
    EpollCanFail = TRUE
CHECK_DEADLOCK FALSE
INVARIANT ConnectHonest
