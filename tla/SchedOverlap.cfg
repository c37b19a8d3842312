\* Two workers; is a coroutine ever on two stacks?
SPECIFICATION Spec
CONSTANTS
    t1 = t1  t2 = t2  c1 = c1  c2 = c2
    Threads = {t1, t2}
    NoThread = NoThread
    Root = NoThread
    Tasks = {c1, c2}
    None = None
    AnyThread = AnyThread
    Pins <- Unpinned
    MaxYields = 2
SYMMETRY PoolSymmetry
CHECK_DEADLOCK FALSE
INVARIANT NoOverlap
