\* Two threads, two timers; the clock is set back at most once.
SPECIFICATION Spec
CONSTANTS
    x1 = x1  x2 = x2  t1 = t1  t2 = t2
    Timers = {x1, x2}
    Threads = {t1, t2}
    Delays <- ShortDelays
    MaxNow = 2
    MaxTimeout = 2
    IntRange = 16
    Hour = 1
    ClockBacks <- ClockSteps
SYMMETRY TimerSymmetry
CHECK_DEADLOCK FALSE
INVARIANTS NoOversleep OneShotOnce
VIEW LiveState
