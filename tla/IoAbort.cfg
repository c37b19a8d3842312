\* A socket used in both directions, two idle threads.
SPECIFICATION Spec
CONSTANTS
    w1 = w1  w2 = w2  p1 = p1  p2 = p2
    Fds = {7}
    Waiters = {w1, w2}
    Pollers = {p1, p2}
    None = None
    OneThread = FALSE
SYMMETRY CoSymmetry
CHECK_DEADLOCK FALSE
INVARIANT NoTriggerAbort
