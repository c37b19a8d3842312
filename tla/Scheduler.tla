----------------------------- MODULE Scheduler -----------------------------
(***************************************************************************)
(* The N:M coroutine scheduler (src/src/io/scheduler.cpp) together with    *)
(* the state of the coroutines it runs (src/src/io/coroutine.cpp) and the  *)
(* part of IOManager::idle that decides when a worker may exit.            *)
(*                                                                         *)
(* A task is the coroutine that executes it: a callback entry is run by a  *)
(* coroutine that run() creates, or resets to INIT once it is TERM/EXCEPT, *)
(* so that it too is a fresh coroutine.  Every thread executes run(): pick *)
(* an entry under m_mutex, swapIn, body, swapOut, post-process, or idle.   *)
(* Each step below is one critical section, or one access to a shared      *)
(* word, of the code.                                                      *)
(***************************************************************************)
EXTENDS Integers, Sequences, FiniteSets

CONSTANTS
    Threads,    \* the threads that execute run()
    Root,       \* the caller's thread (use_caller), or NoThread
    NoThread,   \* m_rootThreadId = -1
    Tasks,      \* the coroutines
    None,       \* "no task" (task.reset())
    AnyThread,  \* threadId = -1: any thread may run the entry
    Pins,       \* the thread ids that callers pass to schedule()
    MaxYields   \* bound: how often a task gives up its thread

ASSUME SchedulerAssumption ==
    /\ IsFiniteSet(Threads) /\ Threads # {}
    /\ Root \in Threads \cup {NoThread} /\ NoThread \notin Threads
    /\ None \notin Tasks /\ AnyThread \notin Threads
    /\ Pins \subseteq Threads \cup {AnyThread}
    /\ MaxYields \in Nat

VARIABLES
    queue,      \* m_taskQueue
    state,      \* Coroutine::m_state of every task
    created,    \* the tasks that some caller has scheduled
    waiting,    \* tasks with an armed timer or a registered fd event
    pc,         \* where each thread is in run()
    cur,        \* the task a thread has in hand
    noWaits,    \* the value a thread has read of the first half of stopping()
    idleOver,   \* the thread's idle coroutine is TERM
    active,     \* m_activeThreadCount
    isRunning,  \* m_isRunning
    autoStop,   \* m_autoStop
    yields,     \* how often each task may still yield (bound)
    stopPc,     \* where the caller of stop() is
    early       \* history: tasks taken while a thread was still leaving them

threadVars == <<pc, cur, noWaits, idleOver>>
stopVars == <<isRunning, autoStop, stopPc>>
vars == <<queue, state, created, waiting, threadVars, active, yields, stopVars,
          early>>

-----------------------------------------------------------------------------
(* The types of the model. *)

States == {"INIT", "HOLD", "EXEC", "TERM", "READY", "EXCEPT"}
Over == {"TERM", "EXCEPT"}
Entry == [task : Tasks, tid : Threads \cup {AnyThread}]

\* off: run() not entered; pick: the task acquisition phase; dispatch: before
\* swapIn; body: inside the coroutine; hold: the waker is registered and
\* YieldToHold comes next; leave: m_state set, swapOut pending; left: back in
\* run(); post, setHold: after --m_activeThreadCount; idle, check, poll, wake:
\* inside the idle coroutine; exited: run() has returned.
Pcs == {"off", "pick", "dispatch", "body", "hold", "leave", "left", "post",
        "setHold", "idle", "check", "poll", "wake", "exited"}

\* The pcs at which a thread executes on the stack of its task.
OnStack == {"body", "hold", "leave"}
\* The pcs at which a thread counts in m_activeThreadCount.
Counted == {"dispatch", "body", "hold", "leave", "left"}

StopPcs == {"none", "called", "cleared", "root", "inRoot", "join", "done"}

Workers == Threads \ {Root}

Init ==
    /\ queue = <<>>
    /\ state = [c \in Tasks |-> "INIT"]
    /\ created = {}
    /\ waiting = {}
    /\ pc = [t \in Threads |-> "off"]
    /\ cur = [t \in Threads |-> None]
    /\ noWaits = [t \in Threads |-> FALSE]
    /\ idleOver = [t \in Threads |-> FALSE]
    /\ active = 0
    /\ isRunning = FALSE
    /\ autoStop = FALSE
    /\ yields = [c \in Tasks |-> MaxYields]
    /\ stopPc = "none"
    /\ early = {}

-----------------------------------------------------------------------------
(* schedule(): the entry goes to the back of the queue, under m_mutex.     *)
(* The tickle only shortens an epoll_wait that ends by itself after at     *)
(* most 3 s, so an idle thread may poll at any time.                       *)

Push(c, u) == queue' = Append(queue, [task |-> c, tid |-> u])

\* Another thread (a timer of a different pool, an accept loop, main) hands
\* over new work, before or after start() but not once stop() was called.
ScheduleNew(c, u) ==
    /\ stopPc = "none"
    /\ c \notin created
    /\ created' = created \cup {c}
    /\ Push(c, u)
    /\ UNCHANGED <<state, waiting, threadVars, active, yields, stopVars, early>>

\* start(): once, it creates the worker threads.
Start ==
    /\ stopPc = "none"
    /\ ~isRunning
    /\ isRunning' = TRUE
    /\ pc' = [t \in Threads |-> IF t \in Workers THEN "pick" ELSE pc[t]]
    /\ UNCHANGED <<queue, state, created, waiting, cur, noWaits, idleOver,
                   active, yields, autoStop, stopPc, early>>

-----------------------------------------------------------------------------
(* run(): task acquisition, under m_mutex.                                 *)

Eligible(t, e) ==
    /\ e.tid \in {AnyThread, t}
    /\ state[e.task] # "EXEC"

Candidates(t) == {i \in 1..Len(queue) : Eligible(t, queue[i])}

\* m_taskQueue.erase(it)
Erase(q, i) == [j \in 1..(Len(q) - 1) |-> IF j < i THEN q[j] ELSE q[j + 1]]

\* A thread is between the write of m_state in YieldTo...() and the end of the
\* post-processing in run(): a waker may already have queued the coroutine, and
\* nothing in the code keeps another thread from taking it early.  What two
\* threads do to a stack that they share is not followed any further than the
\* states and the positions below.
Leaving(c) == \E u \in Threads :
                 cur[u] = c /\ pc[u] \in {"leave", "left", "post", "setHold"}

\* The first eligible entry is taken.
PickTask(t) ==
    /\ pc[t] = "pick"
    /\ \E i \in Candidates(t) :
          /\ \A j \in Candidates(t) : i <= j
          /\ early' = early \cup {c \in {queue[i].task} : Leaving(c)}
          /\ cur' = [cur EXCEPT ![t] = queue[i].task]
          /\ queue' = Erase(queue, i)
    /\ active' = active + 1
    /\ pc' = [pc EXCEPT ![t] = "dispatch"]
    /\ UNCHANGED <<state, created, waiting, noWaits, idleOver, yields, stopVars>>

\* Nothing to run: leave run() if the idle coroutine has ended, else swap it in.
PickNone(t) ==
    /\ pc[t] = "pick"
    /\ Candidates(t) = {}
    /\ pc' = [pc EXCEPT ![t] = IF idleOver[t] THEN "exited" ELSE "idle"]
    /\ UNCHANGED <<queue, state, created, waiting, cur, noWaits, idleOver,
                   active, yields, stopVars, early>>

\* task.coroutine->swapIn(), unless the coroutine has already ended.
Dispatch(t) ==
    LET c == cur[t] IN
    /\ pc[t] = "dispatch"
    /\ IF state[c] \in Over
         THEN /\ active' = active - 1
              /\ cur' = [cur EXCEPT ![t] = None]
              /\ pc' = [pc EXCEPT ![t] = "pick"]
              /\ UNCHANGED state
         ELSE /\ state' = [state EXCEPT ![c] = "EXEC"]
              /\ pc' = [pc EXCEPT ![t] = "body"]
              /\ UNCHANGED <<active, cur>>
    /\ UNCHANGED <<queue, created, waiting, noWaits, idleOver, yields, stopVars, early>>

-----------------------------------------------------------------------------
(* What the running coroutine may do.                                      *)

SpendYield(c) == yields[c] > 0 /\ yields' = [yields EXCEPT ![c] = @ - 1]

\* YieldToReady(): m_state = READY, then swapOut.
YieldToReady(t) ==
    /\ pc[t] = "body"
    /\ SpendYield(cur[t])
    /\ state' = [state EXCEPT ![cur[t]] = "READY"]
    /\ pc' = [pc EXCEPT ![t] = "leave"]
    /\ UNCHANGED <<queue, created, waiting, cur, noWaits, idleOver, active,
                   stopVars, early>>

\* sleep(), do_io(), ...: the coroutine arms a timer or registers an fd event
\* that will schedule it, and only then yields.
ArmWait(t) ==
    /\ pc[t] = "body"
    /\ SpendYield(cur[t])
    /\ waiting' = waiting \cup {cur[t]}
    /\ pc' = [pc EXCEPT ![t] = "hold"]
    /\ UNCHANGED <<queue, state, created, cur, noWaits, idleOver, active,
                   stopVars, early>>

\* switchTo(u): schedule(self, u), then yield.
SwitchTo(t, u) ==
    /\ pc[t] = "body"
    /\ u \notin {AnyThread, t}
    /\ SpendYield(cur[t])
    /\ Push(cur[t], u)
    /\ pc' = [pc EXCEPT ![t] = "hold"]
    /\ UNCHANGED <<state, created, waiting, cur, noWaits, idleOver, active,
                   stopVars, early>>

\* YieldToHold(): m_state = HOLD while the coroutine still uses its stack.
YieldToHold(t) ==
    /\ pc[t] = "hold"
    /\ state' = [state EXCEPT ![cur[t]] = "HOLD"]
    /\ pc' = [pc EXCEPT ![t] = "leave"]
    /\ UNCHANGED <<queue, created, waiting, cur, noWaits, idleOver, active,
                   yields, stopVars, early>>

\* The running coroutine schedules a new task.
Spawn(t, c, u) ==
    /\ pc[t] = "body"
    /\ c \notin created
    /\ created' = created \cup {c}
    /\ Push(c, u)
    /\ UNCHANGED <<state, waiting, threadVars, active, yields, stopVars, early>>

\* MainFunc: the callback returned or threw.
Finish(t, s) ==
    /\ pc[t] = "body"
    /\ state' = [state EXCEPT ![cur[t]] = s]
    /\ pc' = [pc EXCEPT ![t] = "leave"]
    /\ UNCHANGED <<queue, created, waiting, cur, noWaits, idleOver, active,
                   yields, stopVars, early>>

-----------------------------------------------------------------------------
(* Back in run().                                                          *)

\* swapcontext: the thread leaves the coroutine's stack.
SwapOut(t) ==
    /\ pc[t] = "leave"
    /\ pc' = [pc EXCEPT ![t] = "left"]
    /\ UNCHANGED <<queue, state, created, waiting, cur, noWaits, idleOver,
                   active, yields, stopVars, early>>

\* Mistake for the mutation tests: --m_activeThreadCount is missing.
AfterSwapUncounted(t) ==
    /\ pc[t] = "left"
    /\ pc' = [pc EXCEPT ![t] = "post"]
    /\ UNCHANGED <<queue, state, created, waiting, cur, noWaits, idleOver,
                   active, yields, stopVars, early>>

\* --m_activeThreadCount comes before the state is looked at.
AfterSwap(t) ==
    /\ pc[t] = "left"
    /\ active' = active - 1
    /\ pc' = [pc EXCEPT ![t] = "post"]
    /\ UNCHANGED <<queue, state, created, waiting, cur, noWaits, idleOver,
                   yields, stopVars, early>>

\* Mistakes for the mutation tests: a coroutine that is not over is always
\* queued again; READY is treated like HOLD.
PostAlwaysRequeue(t) ==
    LET c == cur[t] IN
    /\ pc[t] = "post"
    /\ cur' = [cur EXCEPT ![t] = None]
    /\ pc' = [pc EXCEPT ![t] = "pick"]
    /\ IF state[c] \in Over THEN UNCHANGED queue ELSE Push(c, AnyThread)
    /\ UNCHANGED <<state, created, waiting, noWaits, idleOver, active, yields,
                   stopVars, early>>

PostNeverRequeue(t) ==
    LET c == cur[t] IN
    /\ pc[t] = "post"
    /\ IF state[c] \in Over
         THEN /\ cur' = [cur EXCEPT ![t] = None]
              /\ pc' = [pc EXCEPT ![t] = "pick"]
         ELSE /\ pc' = [pc EXCEPT ![t] = "setHold"]
              /\ UNCHANGED cur
    /\ UNCHANGED <<queue, state, created, waiting, noWaits, idleOver, active,
                   yields, stopVars, early>>

\* READY: schedule(coroutine), without the thread id it came with; over: drop
\* it; otherwise setState(HOLD), a separate write.
Post(t) ==
    LET c == cur[t] IN
    /\ pc[t] = "post"
    /\ IF state[c] \in Over \cup {"READY"}
         THEN /\ cur' = [cur EXCEPT ![t] = None]
              /\ pc' = [pc EXCEPT ![t] = "pick"]
         ELSE /\ pc' = [pc EXCEPT ![t] = "setHold"]
              /\ UNCHANGED cur
    /\ IF state[c] = "READY" THEN Push(c, AnyThread) ELSE UNCHANGED queue
    /\ UNCHANGED <<state, created, waiting, noWaits, idleOver, active, yields,
                   stopVars, early>>

SetHold(t) ==
    /\ pc[t] = "setHold"
    /\ state' = [state EXCEPT ![cur[t]] = "HOLD"]
    /\ cur' = [cur EXCEPT ![t] = None]
    /\ pc' = [pc EXCEPT ![t] = "pick"]
    /\ UNCHANGED <<queue, created, waiting, noWaits, idleOver, active, yields,
                   stopVars, early>>

-----------------------------------------------------------------------------
(* The idle coroutine.  IOManager::stopping() reads the timers and the     *)
(* event counter first and takes m_mutex for the rest afterwards.          *)

\* Scheduler::stopping(), evaluated under m_mutex.
Stopping == autoStop /\ queue = <<>> /\ ~isRunning /\ active = 0

\* timeout == ~0ull && m_pendingEventCount == 0
IdleReadWaits(t) ==
    /\ pc[t] = "idle"
    /\ noWaits' = [noWaits EXCEPT ![t] = (waiting = {})]
    /\ pc' = [pc EXCEPT ![t] = "check"]
    /\ UNCHANGED <<queue, state, created, waiting, cur, idleOver, active,
                   yields, stopVars, early>>

\* Mistake for the mutation tests: the timers and events are not consulted.
IdleCheckQueueOnly(t) ==
    /\ pc[t] = "check"
    /\ idleOver' = [idleOver EXCEPT ![t] = Stopping]
    /\ pc' = [pc EXCEPT ![t] = IF Stopping THEN "pick" ELSE "poll"]
    /\ UNCHANGED <<queue, state, created, waiting, cur, noWaits, active, yields,
                   stopVars, early>>

\* The idle coroutine ends (and run() takes one more look at the queue), or
\* goes on to epoll_wait.
IdleCheck(t) ==
    LET over == noWaits[t] /\ Stopping IN
    /\ pc[t] = "check"
    /\ idleOver' = [idleOver EXCEPT ![t] = over]
    /\ pc' = [pc EXCEPT ![t] = IF over THEN "pick" ELSE "poll"]
    /\ UNCHANGED <<queue, state, created, waiting, cur, noWaits, active, yields,
                   stopVars, early>>

\* epoll_wait or listExpiredCb yields a coroutine whose wait is over; the
\* thread takes it off the timers first and schedules it afterwards.
PollWake(t, c) ==
    /\ pc[t] = "poll"
    /\ c \in waiting
    /\ waiting' = waiting \ {c}
    /\ cur' = [cur EXCEPT ![t] = c]
    /\ pc' = [pc EXCEPT ![t] = "wake"]
    /\ UNCHANGED <<queue, state, created, noWaits, idleOver, active, yields,
                   stopVars, early>>

\* schedule(cbs) or triggerEvent.
Wake(t) ==
    /\ pc[t] = "wake"
    /\ Push(cur[t], AnyThread)
    /\ cur' = [cur EXCEPT ![t] = None]
    /\ pc' = [pc EXCEPT ![t] = "poll"]
    /\ UNCHANGED <<state, created, waiting, noWaits, idleOver, active, yields,
                   stopVars, early>>

\* The idle coroutine swaps out, back to the loop of run().
PollDone(t) ==
    /\ pc[t] = "poll"
    /\ pc' = [pc EXCEPT ![t] = "pick"]
    /\ UNCHANGED <<queue, state, created, waiting, cur, noWaits, idleOver,
                   active, yields, stopVars, early>>

-----------------------------------------------------------------------------
(* stop().                                                                 *)

StopCall ==
    /\ stopPc = "none"
    /\ autoStop' = TRUE
    /\ stopPc' = "called"
    /\ UNCHANGED <<queue, state, created, waiting, threadVars, active, yields,
                   isRunning, early>>

\* m_isRunning = false, on the quick path (no worker threads, the root
\* coroutine still INIT) and on the normal one.
StopClearRunning ==
    /\ stopPc = "called"
    /\ isRunning' = FALSE
    /\ stopPc' = IF Root = NoThread THEN "join" ELSE "cleared"
    /\ UNCHANGED <<queue, state, created, waiting, threadVars, active, yields,
                   autoStop, early>>

\* if (!stopping()) m_rootCoroutine->call(): the two reads of stopping().
StopReadWaits ==
    /\ stopPc = "cleared"
    /\ noWaits' = [noWaits EXCEPT ![Root] = (waiting = {})]
    /\ stopPc' = "root"
    /\ UNCHANGED <<queue, state, created, waiting, pc, cur, idleOver, active,
                   yields, isRunning, autoStop, early>>

StopCallRoot ==
    /\ stopPc = "root"
    /\ IF noWaits[Root] /\ Stopping
         THEN stopPc' = "join" /\ UNCHANGED pc
         ELSE stopPc' = "inRoot" /\ pc' = [pc EXCEPT ![Root] = "pick"]
    /\ UNCHANGED <<queue, state, created, waiting, cur, noWaits, idleOver,
                   active, yields, isRunning, autoStop, early>>

\* The root coroutine's run() has returned to stop().
StopRootBack ==
    /\ stopPc = "inRoot"
    /\ pc[Root] = "exited"
    /\ stopPc' = "join"
    /\ UNCHANGED <<queue, state, created, waiting, threadVars, active, yields,
                   isRunning, autoStop, early>>

\* Every worker thread that start() created is joined.
StopJoin ==
    /\ stopPc = "join"
    /\ \A t \in Workers : pc[t] \in {"off", "exited"}
    /\ stopPc' = "done"
    /\ UNCHANGED <<queue, state, created, waiting, threadVars, active, yields,
                   isRunning, autoStop, early>>

-----------------------------------------------------------------------------
Body(t) ==
    \/ YieldToReady(t)
    \/ ArmWait(t)
    \/ \E u \in Pins : SwitchTo(t, u)
    \/ YieldToHold(t)
    \/ \E c \in Tasks, u \in Pins : Spawn(t, c, u)
    \/ \E s \in Over : Finish(t, s)

Run(t) ==
    \/ PickTask(t) \/ PickNone(t) \/ Dispatch(t)
    \/ SwapOut(t) \/ AfterSwap(t) \/ Post(t) \/ SetHold(t)

Idle(t) ==
    \/ IdleReadWaits(t) \/ IdleCheck(t)
    \/ \E c \in Tasks : PollWake(t, c)
    \/ Wake(t) \/ PollDone(t)

ThreadStep(t) == Body(t) \/ Run(t) \/ Idle(t)

Stop ==
    \/ StopClearRunning \/ StopReadWaits \/ StopCallRoot
    \/ StopRootBack \/ StopJoin

Next ==
    \/ \E c \in Tasks, u \in Pins : ScheduleNew(c, u)
    \/ Start
    \/ StopCall
    \/ Stop
    \/ \E t \in Threads : ThreadStep(t)

Spec == Init /\ [][Next]_vars

\* Threads are scheduled by the OS, stop() is executed by a thread, and a
\* timer or an event that stays armed is eventually reported by epoll_wait.
Fairness ==
    /\ WF_vars(Stop)
    /\ \A t \in Threads : WF_vars(ThreadStep(t))
    /\ \A c \in Tasks : SF_vars(\E t \in Threads : PollWake(t, c))

LiveSpec == Spec /\ Fairness

-----------------------------------------------------------------------------
(* Properties.                                                             *)

\* The type of every variable of the scheduler.
TypeOK ==
    /\ queue \in Seq(Entry)
    /\ state \in [Tasks -> States]
    /\ created \subseteq Tasks
    /\ waiting \subseteq Tasks
    /\ pc \in [Threads -> Pcs]
    /\ cur \in [Threads -> Tasks \cup {None}]
    /\ noWaits \in [Threads -> BOOLEAN]
    /\ idleOver \in [Threads -> BOOLEAN]
    /\ active \in Nat
    /\ isRunning \in BOOLEAN
    /\ autoStop \in BOOLEAN
    /\ yields \in [Tasks -> 0..MaxYields]
    /\ stopPc \in StopPcs
    /\ early \subseteq Tasks

\* No two threads execute on the stack of one coroutine (the purpose of the
\* EXEC test in run() and of the state machine in Coroutine).
NoOverlap ==
    \A t, u \in Threads :
        pc[t] \in OnStack /\ pc[u] \in OnStack /\ cur[t] = cur[u] => t = u

\* The assertions of YieldToReady/YieldToHold (the running coroutine is EXEC)
\* and of swapIn (the coroutine to be resumed is not EXEC) for thread t.
StateAsserts(t) ==
    /\ pc[t] \in {"body", "hold"} => state[cur[t]] = "EXEC"
    /\ pc[t] = "dispatch" => state[cur[t]] # "EXEC"

\* There is only one way for two threads to get onto one stack, or for one of the
\* state assertions to fail: the coroutine was resumed from the queue while the
\* thread that it yielded on had not come out of run()'s post-processing.  Timers,
\* events, switchTo() and requeueing in any order never give it to two threads.
OverlapOnlyEarly ==
    \A t \in Threads :
        cur[t] \notin early =>
            /\ StateAsserts(t)
            /\ \A u \in Threads :
                  pc[t] \in OnStack /\ pc[u] \in OnStack /\ cur[t] = cur[u] => t = u

\* m_activeThreadCount is the number of threads between the pick and the
\* return from the coroutine: the size_t never wraps below zero and stopping()
\* cannot be kept from holding by a count that is too high.
ActiveCount == active = Cardinality({t \in Threads : pc[t] \in Counted})

Stopped == stopPc = "done" /\ \E t \in Threads : pc[t] = "exited"

\* When stop() has returned after a start(), every task that was scheduled has
\* run to its end, so that ~Coroutine's assertion on the state (TERM, INIT or
\* EXCEPT) holds for all of them when the scheduler is destroyed.
CleanStop == Stopped => \A c \in created : state[c] \in Over

Started == \E t \in Threads : pc[t] \notin {"off", "exited"}

\* A task that is scheduled runs to its end, however often it yields or waits,
\* as long as stop() is not called.  Excused is one that was resumed early.
TasksFinishBeforeStop ==
    \A c \in Tasks : (c \in created /\ Started)
                        ~> (state[c] \in Over \/ stopPc # "none" \/ c \in early)

\* stop() returns unless an entry is left for a thread that has already left
\* run(), or a task was resumed early: nothing else keeps the workers from leaving.
StopReturnsUnlessPinned ==
    (stopPc = "called") ~>
        \/ stopPc = "done"
        \/ \E i \in 1..Len(queue) :
              queue[i].tid \in Threads /\ pc[queue[i].tid] = "exited"
        \/ early # {}
=============================================================================
