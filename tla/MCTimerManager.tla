--------------------------- MODULE MCTimerManager ---------------------------
(* Small instances of the timers for TLC. *)
EXTENDS TimerManager, TLC

CONSTANTS x1, x2, t1, t2

\* Below and above MAX_TIMEOUT.
ShortDelays == {1, 3}
\* By two: more than an "hour" of one, or not, depending on when the clock was
\* read last.
ClockSteps == {2}
\* The deadline and the interval of a timer that is not in the set are never
\* read again.
LiveState == <<now, setBack, timers, [x \in timers |-> <<next[x], ms[x]>>],
               recurring \cap timers, hasCb, created, runs, cancelled, tickled,
               previous, notify, pipe, pc, left, sawPipe, nowMs>>
TimerSymmetry == Permutations({x1, x2}) \cup Permutations({t1, t2})
=============================================================================
