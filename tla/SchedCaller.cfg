\* The creating thread alone runs the tasks (use_caller, one thread).
SPECIFICATION Spec
CONSTANTS
    t1 = t1  t2 = t2  c1 = c1  c2 = c2
    Threads = {t1}
    NoThread = NoThread
    Root = t1
    Tasks = {c1, c2}
    None = None
    AnyThread = AnyThread
    Pins <- PinnedToFirst
    MaxYields = 2
CHECK_DEADLOCK FALSE
INVARIANTS CleanStop
