---------------------------- MODULE MCScheduler ----------------------------
(* Small instances of the scheduler for TLC. *)
EXTENDS Scheduler, TLC

CONSTANTS t1, t2, c1, c2

\* Pins of the runs: unpinned work only, or work pinned to the first thread too.
Unpinned == {AnyThread}
PinnedToFirst == {AnyThread, t1}

\* The workers of an IOManager pool are interchangeable, and so are the tasks.
PoolSymmetry == Permutations({t1, t2}) \cup Permutations({c1, c2})
=============================================================================
