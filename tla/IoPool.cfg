\* A socket used in both directions by two coroutines, two idle threads.
SPECIFICATION LiveSpec
CONSTANTS
    w1 = w1  w2 = w2  p1 = p1  p2 = p2
    Fds = {7}
    Waiters = {w1, w2}
    Pollers = {p1, p2}
    None = None
    OneThread = FALSE
CHECK_DEADLOCK FALSE
INVARIANT WaitAccounted
PROPERTIES CloseCleans ReadyWakes
