\* Two workers of a pool, work pinned to the first and to nobody.
SPECIFICATION LiveSpec
CONSTANTS
    t1 = t1  t2 = t2  c1 = c1  c2 = c2
    Threads = {t1, t2}
    NoThread = NoThread
    Root = NoThread
    Tasks = {c1, c2}
    None = None
    AnyThread = AnyThread
    Pins <- PinnedToFirst
    MaxYields = 1
CHECK_DEADLOCK FALSE
INVARIANTS OverlapOnlyEarly ActiveCount
PROPERTIES TasksFinishBeforeStop StopReturnsUnlessPinned
