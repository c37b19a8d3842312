----------------------------- MODULE ThreadPool -----------------------------
(***************************************************************************)
(* ThreadPool (src/include/io/thread_pool.hpp): workers that wait on a     *)
(* condition variable, submitters, and a destructor that waits until the   *)
(* last worker has left.  In MODE_CACHED a submit may add a worker and a   *)
(* worker that timed out may leave.  A step is one critical section of     *)
(* taskQueMtx_, or an update of idleThreadSize_ outside of it.             *)
(***************************************************************************)
EXTENDS Integers, FiniteSets

CONSTANTS
    TpWorkers,   \* thread ids that may be used
    TpInit0,     \* the ids of the threads start() makes
    TpMax,       \* threadMaxSize_
    TpQueueMax,  \* taskQueMaxSize_
    TpMaxTasks,  \* bound: calls of submitTask()
    TpUint       \* values of the unsigned counters

ASSUME ThreadPoolAssumption ==
    /\ TpInit0 \subseteq TpWorkers /\ TpInit0 # {} /\ IsFiniteSet(TpWorkers)
    /\ TpMax \in Nat /\ TpQueueMax \in Nat /\ TpMaxTasks \in Nat /\ TpUint \in Nat \ {0}

VARIABLES
    tpCached,   \* poolMode_ is MODE_CACHED
    tpRunning,  \* poolIsRunning_
    tpThreads,  \* threads_
    tpQueue,    \* taskQue_, its length; currentTaskSize_ too
    tpCur,      \* currentThreadSize_
    tpIdle,     \* idleThreadSize_
    tpAt,       \* a worker: none, loop, wait (on taskQueNotEmpty_), timed, took (a task), run, gone
    tpOld,      \* the workers whose last task is 60 seconds back
    tpDtor,     \* the destructor: no, flag (has cleared the flag), wait (on exitCond_), woken, done
    tpTasks,    \* calls of submitTask() so far
    tpLost      \* the last worker left without waking the destructor

tpVars == <<tpCached, tpRunning, tpThreads, tpQueue, tpCur, tpIdle, tpAt, tpOld, tpDtor, tpTasks, tpLost>>

TpInit ==
    /\ tpCached \in BOOLEAN
    /\ tpRunning = TRUE
    /\ tpThreads = TpInit0
    /\ tpQueue = 0 /\ tpTasks = 0
    /\ tpCur = Cardinality(TpInit0) /\ tpIdle = Cardinality(TpInit0)
    /\ tpAt = [w \in TpWorkers |-> IF w \in TpInit0 THEN "loop" ELSE "none"]
    /\ tpOld = {} /\ tpDtor = "no" /\ tpLost = FALSE

-----------------------------------------------------------------------------
\* notify_all() on taskQueNotEmpty_
TpNotified == [w \in TpWorkers |-> IF tpAt[w] = "wait" THEN "loop" ELSE tpAt[w]]

\* submitTask(): nothing is queued when the queue stays full for a second.
TpSubmit ==
    LET fresh == {w \in TpWorkers : tpAt[w] = "none"}
        grow == tpCached /\ tpQueue + 1 > tpIdle /\ tpCur < TpMax /\ fresh # {}
    IN  /\ tpDtor = "no" /\ tpTasks < TpMaxTasks
        /\ tpTasks' = tpTasks + 1
        /\ tpQueue < TpQueueMax
        /\ tpQueue' = tpQueue + 1
        /\ \/ /\ ~grow
              /\ tpAt' = TpNotified
              /\ UNCHANGED <<tpThreads, tpCur, tpIdle>>
           \/ /\ grow
              /\ LET w == CHOOSE w \in fresh : TRUE
                 IN  tpAt' = [TpNotified EXCEPT ![w] = "loop"] /\ tpThreads' = tpThreads \union {w}
              /\ tpCur' = tpCur + 1
              /\ tpIdle' = (tpIdle + 1) % TpUint
        /\ UNCHANGED <<tpCached, tpRunning, tpOld, tpDtor, tpLost>>

TpSubmitFull ==
    /\ tpDtor = "no" /\ tpTasks < TpMaxTasks /\ tpQueue >= TpQueueMax
    /\ tpTasks' = tpTasks + 1
    /\ UNCHANGED <<tpCached, tpRunning, tpThreads, tpQueue, tpCur, tpIdle, tpAt, tpOld, tpDtor, tpLost>>

\* threadFunc(), the locked part: take a task, or leave a pool that has stopped, or wait.
TpTake(w) ==
    /\ tpAt[w] = "loop" /\ tpQueue > 0
    /\ tpQueue' = tpQueue - 1
    /\ tpAt' = [(IF tpQueue > 1 THEN TpNotified ELSE tpAt) EXCEPT ![w] = "took"]
    /\ UNCHANGED <<tpCached, tpRunning, tpThreads, tpCur, tpIdle, tpOld, tpDtor, tpTasks, tpLost>>

\* exitCond_.notify_all()
TpWakeDtor == tpDtor' = IF tpDtor = "wait" THEN "woken" ELSE tpDtor

\* Mistake for the mutation tests: the worker that leaves wakes nobody.
TpLeaveQuietly(w) ==
    /\ tpAt[w] = "loop" /\ tpQueue = 0 /\ ~tpRunning
    /\ tpThreads' = tpThreads \ {w}
    /\ tpAt' = [tpAt EXCEPT ![w] = "gone"]
    /\ UNCHANGED <<tpCached, tpRunning, tpQueue, tpCur, tpIdle, tpOld, tpDtor, tpTasks, tpLost>>

TpLeave(w) ==
    /\ tpAt[w] = "loop" /\ tpQueue = 0 /\ ~tpRunning
    /\ tpThreads' = tpThreads \ {w}
    /\ tpAt' = [tpAt EXCEPT ![w] = "gone"]
    /\ TpWakeDtor
    /\ UNCHANGED <<tpCached, tpRunning, tpQueue, tpCur, tpIdle, tpOld, tpTasks, tpLost>>

TpWait(w) ==
    /\ tpAt[w] = "loop" /\ tpQueue = 0 /\ tpRunning
    /\ tpAt' = [tpAt EXCEPT ![w] = "wait"]
    /\ UNCHANGED <<tpCached, tpRunning, tpThreads, tpQueue, tpCur, tpIdle, tpOld, tpDtor, tpTasks, tpLost>>

\* wait_for() of one second ends; the mutex is not taken yet.
TpTimeout(w) ==
    /\ tpCached /\ tpAt[w] = "wait"
    /\ tpAt' = [tpAt EXCEPT ![w] = "timed"]
    /\ UNCHANGED <<tpCached, tpRunning, tpThreads, tpQueue, tpCur, tpIdle, tpOld, tpDtor, tpTasks, tpLost>>

\* Sixty seconds without a task.
TpAge(w) ==
    /\ tpCached /\ tpAt[w] = "wait" /\ w \notin tpOld
    /\ tpOld' = tpOld \union {w}
    /\ UNCHANGED <<tpCached, tpRunning, tpThreads, tpQueue, tpCur, tpIdle, tpAt, tpDtor, tpTasks, tpLost>>

\* After a timeout: an idle worker above the initial number leaves, without exitCond_; others go on.
TpReclaim(w) ==
    /\ tpAt[w] = "timed" /\ w \in tpOld /\ tpCur > Cardinality(TpInit0)
    /\ tpThreads' = tpThreads \ {w}
    /\ tpAt' = [tpAt EXCEPT ![w] = "gone"]
    /\ tpCur' = tpCur - 1
    /\ tpIdle' = (tpIdle - 1) % TpUint
    /\ tpLost' = (tpLost \/ (tpDtor = "wait" /\ tpThreads' = {}))
    /\ UNCHANGED <<tpCached, tpRunning, tpQueue, tpOld, tpDtor, tpTasks>>

TpGoOn(w) ==
    /\ tpAt[w] = "timed" /\ ~(w \in tpOld /\ tpCur > Cardinality(TpInit0))
    /\ tpAt' = [tpAt EXCEPT ![w] = "loop"]
    /\ UNCHANGED <<tpCached, tpRunning, tpThreads, tpQueue, tpCur, tpIdle, tpOld, tpDtor, tpTasks, tpLost>>

\* The counter and the task, outside of the mutex.
TpStartTask(w) ==
    /\ tpAt[w] = "took"
    /\ tpAt' = [tpAt EXCEPT ![w] = "run"]
    /\ tpIdle' = (tpIdle - 1) % TpUint
    /\ UNCHANGED <<tpCached, tpRunning, tpThreads, tpQueue, tpCur, tpOld, tpDtor, tpTasks, tpLost>>

TpEndTask(w) ==
    /\ tpAt[w] = "run"
    /\ tpAt' = [tpAt EXCEPT ![w] = "loop"]
    /\ tpIdle' = (tpIdle + 1) % TpUint
    /\ tpOld' = tpOld \ {w}
    /\ UNCHANGED <<tpCached, tpRunning, tpThreads, tpQueue, tpCur, tpDtor, tpTasks, tpLost>>

\* ~ThreadPool(): the flag first, then the mutex, the wake-up and the wait.
TpDestroy ==
    /\ tpDtor = "no"
    /\ tpRunning' = FALSE /\ tpDtor' = "flag"
    /\ UNCHANGED <<tpCached, tpThreads, tpQueue, tpCur, tpIdle, tpAt, tpOld, tpTasks, tpLost>>

TpDestroyWaits ==
    /\ tpDtor \in {"flag", "woken"}
    /\ tpDtor' = IF tpThreads = {} THEN "done" ELSE "wait"
    /\ tpAt' = IF tpDtor = "flag" THEN TpNotified ELSE tpAt
    /\ UNCHANGED <<tpCached, tpRunning, tpThreads, tpQueue, tpCur, tpIdle, tpOld, tpTasks, tpLost>>

TpWorker(w) ==
    \/ TpTake(w) \/ TpLeave(w) \/ TpWait(w) \/ TpReclaim(w) \/ TpGoOn(w)
    \/ TpStartTask(w) \/ TpEndTask(w)

TpNext ==
    \/ \E w \in TpWorkers : TpWorker(w) \/ TpTimeout(w) \/ TpAge(w)
    \/ TpSubmit \/ TpSubmitFull \/ TpDestroy \/ TpDestroyWaits

-----------------------------------------------------------------------------
\* The destructor returns, every accepted task having been run -- except that
\* a worker that timed out just before the destructor's wake-up and is the
\* last to go leaves by the idle path, which does not signal exitCond_.
TpDestroyed == (tpDtor = "flag") ~> (tpLost \/ (tpDtor = "done" /\ tpQueue = 0))
=============================================================================
