---------------------------- MODULE TimerManager ----------------------------
(***************************************************************************)
(* The timers (src/src/io/timer.cpp) and the epoll_wait timeout of         *)
(* IOManager::idle that serves them (src/src/io/iomanager.cpp): adding,    *)
(* cancelling, refreshing and resetting timers, the m_tickled flag, the    *)
(* tickle pipe, and the threads that sleep until the earliest deadline.    *)
(*                                                                         *)
(* Time is discrete.  `now' is the wall clock (gettimeofday), which may be *)
(* set back; a sleeping thread counts its timeout down independently.      *)
(***************************************************************************)
EXTENDS Integers, FiniteSets

CONSTANTS
    Timers,      \* the timer objects
    Threads,     \* the threads of the IOManager
    Delays,      \* the intervals that callers use
    MaxNow,      \* bound: the last instant
    MaxTimeout,  \* MAX_TIMEOUT of idle()
    IntRange,    \* 2^32: the range of the int that epoll_wait takes
    Hour,        \* 60 * 60 * 1000: what counts as a rolled-back clock
    ClockBacks   \* by how much the clock may be set back

ASSUME TimerAssumption ==
    /\ Threads # {} /\ Delays \subseteq Nat /\ MaxNow \in Nat /\ MaxTimeout \in Nat
    /\ IntRange \in Nat \ {0} /\ Hour \in Nat /\ ClockBacks \subseteq Nat

VARIABLES
    now,        \* TimeUtil::NowToMS()
    setBack,    \* the clock has been set back
    timers,     \* m_timers
    next,       \* Timer::m_next
    ms,         \* Timer::m_ms
    recurring,  \* the timers with m_recurring
    hasCb,      \* the timers whose m_cb is set
    created,    \* the timers that were added
    runs,       \* one-shot timers: how often the callback was handed out
    cancelled,  \* one-shot timers whose cancel() returned true
    tickled,    \* m_tickled
    previous,   \* m_previouseTime
    notify,     \* an onTimerInsertedAtFront() call is due
    pipe,       \* the tickle pipe: empty, a new edge, or an edge already seen
    pc,         \* where a thread is
    left,       \* what remains of its epoll_wait timeout; negative: for ever
    sawPipe,    \* its epoll_wait reported the pipe
    nowMs       \* the clock it read in listExpiredCb

clock == <<now, setBack>>
timerVars == <<timers, next, ms, recurring, hasCb, created, runs, cancelled>>
threadVars == <<pc, left, sawPipe, nowMs>>
vars == <<clock, timerVars, tickled, previous, notify, pipe, threadVars>>

Init ==
    /\ now = 0
    /\ setBack = FALSE
    /\ timers = {}
    /\ next = [x \in Timers |-> 0]
    /\ ms = [x \in Timers |-> 0]
    /\ recurring = {}
    /\ hasCb = {}
    /\ created = {}
    /\ runs = [x \in Timers |-> 0]
    /\ cancelled = {}
    /\ tickled = FALSE
    /\ previous = 0
    /\ notify = FALSE
    /\ pipe = "empty"
    /\ pc = [t \in Threads |-> "busy"]
    /\ left = [t \in Threads |-> 0]
    /\ sawPipe = [t \in Threads |-> FALSE]
    /\ nowMs = [t \in Threads |-> 0]

-----------------------------------------------------------------------------
(* Time.                                                                   *)

\* A sleeper whose timeout is over is woken before time goes on.
Tick ==
    /\ now < MaxNow
    /\ \A t \in Threads : pc[t] = "sleep" => left[t] # 0
    /\ now' = now + 1
    /\ left' = [t \in Threads |->
                  IF pc[t] = "sleep" /\ left[t] > 0 THEN left[t] - 1 ELSE left[t]]
    /\ UNCHANGED <<setBack, timerVars, tickled, previous, notify, pipe, pc, sawPipe, nowMs>>

\* gettimeofday is set back; at most once, which bounds the behaviours.
SetClockBack(d) ==
    /\ ~setBack /\ d <= now
    /\ setBack' = TRUE
    /\ now' = now - d
    /\ UNCHANGED <<timerVars, tickled, previous, notify, pipe, threadVars>>

-----------------------------------------------------------------------------
(* Operations on timers, each under m_mutex.                               *)

\* addTimer(val, lock): m_timers is ordered by m_next and then by address; a
\* timer at the front is announced, once per getNextTimer().
Insert(x, n) ==
    LET others == timers \ {x} IN
    /\ timers' = timers \cup {x}
    /\ next' = [next EXCEPT ![x] = n]
    /\ \/ /\ \A y \in others : n <= next[y]
          /\ tickled' = TRUE
          /\ notify' = (notify \/ ~tickled)
       \/ /\ \E y \in others : next[y] <= n
          /\ UNCHANGED <<tickled, notify>>

\* addTimer(ms, cb, recurring).  The constructor reads the clock before the lock
\* is taken: a wait for the lock is a shorter delay.
AddTimer(x, d, rec) ==
    /\ x \notin created
    /\ created' = created \cup {x}
    /\ ms' = [ms EXCEPT ![x] = d]
    /\ recurring' = IF rec THEN recurring \cup {x} ELSE recurring
    /\ hasCb' = hasCb \cup {x}
    /\ Insert(x, now + d)
    /\ UNCHANGED <<clock, runs, cancelled, previous, pipe, threadVars>>

\* Mistake for the mutation tests: the timer stays in the set.
CancelKeeps(x) ==
    /\ x \in hasCb
    /\ hasCb' = hasCb \ {x}
    /\ cancelled' = IF x \in timers \ recurring THEN cancelled \cup {x} ELSE cancelled
    /\ UNCHANGED <<clock, timers, next, ms, recurring, created, runs,
                   tickled, previous, notify, pipe, threadVars>>

\* Timer::cancel(): true iff the timer had a callback and was in the set.
Cancel(x) ==
    /\ x \in hasCb
    /\ hasCb' = hasCb \ {x}
    /\ timers' = timers \ {x}
    /\ cancelled' = IF x \in timers \ recurring THEN cancelled \cup {x} ELSE cancelled
    /\ UNCHANGED <<clock, next, ms, recurring, created, runs, tickled, previous,
                   notify, pipe, threadVars>>

\* Timer::refresh(): reinserted directly, without an announcement.
Refresh(x) ==
    /\ x \in hasCb \cap timers
    /\ next' = [next EXCEPT ![x] = now + ms[x]]
    /\ UNCHANGED <<clock, timers, ms, recurring, hasCb, created, runs, cancelled,
                   tickled, previous, notify, pipe, threadVars>>

\* Timer::reset(d, from_now)
Reset(x, d, fromNow) ==
    /\ d # ms[x] \/ fromNow
    /\ x \in hasCb \cap timers
    /\ ms' = [ms EXCEPT ![x] = d]
    /\ Insert(x, (IF fromNow THEN now ELSE next[x] - ms[x]) + d)
    /\ UNCHANGED <<clock, recurring, hasCb, created, runs, cancelled, previous,
                   pipe, threadVars>>

-----------------------------------------------------------------------------
(* tickle() and the pipe.                                                  *)

\* The pcs at which run() counts the thread in m_idleThreadCount.
IdlePcs == {"idle", "sleep", "woken", "list", "drain"}
HasIdleThreads == \E t \in Threads : pc[t] \in IdlePcs

\* onTimerInsertedAtFront() -> IOManager::tickle(), after m_mutex is released.
Notify ==
    /\ notify
    /\ notify' = FALSE
    /\ pipe' = IF HasIdleThreads THEN "edge" ELSE pipe
    /\ UNCHANGED <<clock, timerVars, tickled, previous, threadVars>>

-----------------------------------------------------------------------------
(* A thread.  Its locals are reset to their initial value when they go out *)
(* of scope.                                                               *)

\* run() finds no task (++m_idleThreadCount).
GoIdle(t) ==
    /\ pc[t] = "busy"
    /\ pc' = [pc EXCEPT ![t] = "idle"]
    /\ UNCHANGED <<clock, timerVars, tickled, previous, notify, pipe, left,
                   sawPipe, nowMs>>

\* (int)n
CInt(n) == IF n % IntRange < IntRange \div 2 THEN n % IntRange
           ELSE (n % IntRange) - IntRange

\* The argument of epoll_wait for the time n to the next timer: the test for
\* MAX_TIMEOUT is made on (int)n, and so is the call.
EpollTimeout(n) == IF CInt(n) > MaxTimeout THEN MaxTimeout ELSE CInt(n)

NextTimer == CHOOSE n \in {next[x] : x \in timers} : \A x \in timers : n <= next[x]
TimeToNext == IF NextTimer <= now THEN 0 ELSE NextTimer - now

\* Mistake for the mutation tests: getNextTimer() leaves m_tickled set.
SleepKeepsTickled(t) ==
    /\ pc[t] = "idle"
    /\ left' = [left EXCEPT ![t] = IF timers = {} THEN MaxTimeout
                                   ELSE EpollTimeout(TimeToNext)]
    /\ pc' = [pc EXCEPT ![t] = "sleep"]
    /\ UNCHANGED <<clock, timerVars, tickled, previous, notify, pipe, sawPipe, nowMs>>

\* stopping(next_timeout), which calls getNextTimer(), then epoll_wait.
Sleep(t) ==
    /\ pc[t] = "idle"
    /\ tickled' = FALSE
    /\ left' = [left EXCEPT ![t] = IF timers = {} THEN MaxTimeout
                                   ELSE EpollTimeout(TimeToNext)]
    /\ pc' = [pc EXCEPT ![t] = "sleep"]
    /\ UNCHANGED <<clock, timerVars, previous, notify, pipe, sawPipe, nowMs>>

\* epoll_wait returns: the timeout, the pipe, or some other fd.  The pipe is
\* registered edge-triggered: one thread sees an edge.
Wake(t) ==
    /\ pc[t] = "sleep"
    /\ sawPipe' = [sawPipe EXCEPT ![t] = (pipe = "edge")]
    /\ pipe' = IF pipe = "edge" THEN "seen" ELSE pipe
    /\ left' = [left EXCEPT ![t] = 0]
    /\ pc' = [pc EXCEPT ![t] = "woken"]
    /\ UNCHANGED <<clock, timerVars, tickled, previous, notify, nowMs>>

\* listExpiredCb reads the clock before it takes the lock.
ReadClock(t) ==
    /\ pc[t] = "woken"
    /\ nowMs' = [nowMs EXCEPT ![t] = now]
    /\ pc' = [pc EXCEPT ![t] = "list"]
    /\ UNCHANGED <<clock, timerVars, tickled, previous, notify, pipe, left, sawPipe>>

RolledBack(n) == n < previous /\ n < previous - Hour

\* The timers up to lower_bound(now_ms) and the ones equal to it; all of them
\* when the clock was set back.
Expired(n) == {x \in timers : RolledBack(n) \/ next[x] <= n}

\* listExpiredCb under the write lock, and schedule(cbs).  The callback of a
\* one-shot timer is taken out of it, a recurring timer starts anew.
ListExpired(t) ==
    LET n == nowMs[t]
        out == Expired(n) IN
    /\ pc[t] = "list"
    /\ previous' = IF timers = {} THEN previous ELSE n
    /\ timers' = timers \ (out \ recurring)
    /\ hasCb' = hasCb \ (out \ recurring)
    /\ next' = [x \in Timers |-> IF x \in out \cap recurring THEN n + ms[x]
                                 ELSE next[x]]
    /\ runs' = [x \in Timers |-> IF x \in out \ recurring THEN runs[x] + 1
                                 ELSE runs[x]]
    /\ nowMs' = [nowMs EXCEPT ![t] = 0]
    /\ pc' = [pc EXCEPT ![t] = "drain"]
    /\ UNCHANGED <<clock, ms, recurring, created, cancelled, tickled, notify, pipe,
                   left, sawPipe>>

\* The epoll results are processed: the pipe is read until it is empty.  Then
\* the idle coroutine swaps out (--m_idleThreadCount).
Drain(t) ==
    /\ pc[t] = "drain"
    /\ pipe' = IF sawPipe[t] THEN "empty" ELSE pipe
    /\ sawPipe' = [sawPipe EXCEPT ![t] = FALSE]
    /\ pc' = [pc EXCEPT ![t] = "busy"]
    /\ UNCHANGED <<clock, timerVars, tickled, previous, notify, left, nowMs>>

-----------------------------------------------------------------------------
TimerOp(x) ==
    \/ \E d \in Delays, rec \in BOOLEAN : AddTimer(x, d, rec)
    \/ Cancel(x)
    \/ Refresh(x)
    \/ \E d \in Delays, fromNow \in BOOLEAN : Reset(x, d, fromNow)

Thread(t) ==
    \/ GoIdle(t) \/ Sleep(t) \/ Wake(t)
    \/ ReadClock(t) \/ ListExpired(t) \/ Drain(t)

Next ==
    \/ Tick
    \/ \E d \in ClockBacks : SetClockBack(d)
    \/ \E x \in Timers : TimerOp(x)
    \/ Notify
    \/ \E t \in Threads : Thread(t)

Spec == Init /\ [][Next]_vars

-----------------------------------------------------------------------------
(* Properties.                                                             *)

\* The type of every variable; a timer in the set has a callback, which
\* listExpiredCb hands out without a test.
TypeOK ==
    /\ now \in Nat /\ setBack \in BOOLEAN
    /\ timers \subseteq hasCb
    /\ next \in [Timers -> Nat]
    /\ ms \in [Timers -> Nat]
    /\ recurring \subseteq Timers
    /\ hasCb \subseteq Timers
    /\ created \subseteq Timers
    /\ runs \in [Timers -> Nat]
    /\ cancelled \subseteq Timers
    /\ tickled \in BOOLEAN
    /\ previous \in Nat
    /\ notify \in BOOLEAN
    /\ pipe \in {"empty", "edge", "seen"}
    /\ pc \in [Threads -> {"busy"} \cup IdlePcs]
    /\ left \in [Threads -> Int]
    /\ sawPipe \in [Threads -> BOOLEAN]
    /\ nowMs \in [Threads -> Nat]

\* When all threads sleep and no announcement is on its way, one of them wakes
\* no later than the earliest timer is due: the m_tickled flag, which saves
\* announcements, never saves one that is needed, whatever threads were awake
\* when the timer was added, moved or removed.  A clock that was set back is
\* excepted: refresh() then moves a timer forward, and announces nothing.
NoOversleep ==
    /\ ~setBack
    /\ \A t \in Threads : pc[t] = "sleep"
    /\ timers # {} /\ ~notify /\ pipe # "edge"
    => \E t \in Threads : 0 <= left[t] /\ left[t] <= TimeToNext

\* The callback of a one-shot timer is handed out at most once, and never if
\* cancel() returned true, although several threads list expired timers with
\* clocks read at different moments.
OneShotOnce ==
    \A x \in Timers : /\ runs[x] <= 1
                      /\ x \in cancelled => runs[x] = 0

=============================================================================
