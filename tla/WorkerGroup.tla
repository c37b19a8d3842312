---------------------------- MODULE WorkerGroup ----------------------------
(***************************************************************************)
(* WorkerGroup (src/src/io/worker.cpp) on a CoroutineSemaphore             *)
(* (src/src/io/lock.cpp): submitters hand callbacks to a scheduler, at     *)
(* most a batch at a time, and waitAll() takes all the permits to wait for *)
(* the callbacks to finish.  A coroutine that finds no permit joins the    *)
(* queue of waiters under the semaphore's mutex and yields; notify() hands *)
(* the permit to the first of them.                                        *)
(*                                                                         *)
(* Callbacks are alike, so they are counted.                               *)
(***************************************************************************)
EXTENDS Integers, Sequences, FiniteSets

CONSTANTS
    Submitters,  \* coroutines that call schedule()
    Closers,     \* coroutines that call waitAll()
    BatchSize,   \* m_batchSize
    MaxJobs,     \* bound: the callbacks that are submitted
    MayThrow     \* callbacks may end with an exception

ASSUME WorkerGroupAssumption ==
    /\ Submitters \cap Closers = {}
    /\ BatchSize \in Nat /\ MaxJobs \in Nat /\ MayThrow \in BOOLEAN

Coroutines == Submitters \cup Closers

VARIABLES
    concurrency,  \* m_concurrency of the semaphore
    waiters,      \* m_waiters
    finish,       \* m_finish
    wgPc,           \* a coroutine: outside, before wait(), waiting, granted, returned
    todo,         \* the permits that a closer still has to take
    asked,        \* the calls of schedule() so far
    queued,       \* callbacks in the scheduler's queue
    wgRunning,      \* callbacks being executed
    threw         \* callbacks that ended with an exception

wgVars == <<concurrency, waiters, finish, wgPc, todo, asked, queued, wgRunning, threw>>
jobVars == <<asked, queued, wgRunning, threw>>

WgInit ==
    /\ concurrency = BatchSize
    /\ waiters = <<>>
    /\ finish = FALSE
    /\ wgPc = [c \in Coroutines |-> "out"]
    /\ todo = [c \in Coroutines |-> 0]
    /\ asked = 0 /\ queued = 0 /\ wgRunning = 0 /\ threw = 0

-----------------------------------------------------------------------------
(* CoroutineSemaphore                                                      *)

\* wait(): a permit, or a place in the queue and YieldToHold.
SemWait(c) ==
    \/ /\ concurrency > 0
       /\ concurrency' = concurrency - 1
       /\ wgPc' = [wgPc EXCEPT ![c] = "granted"]
       /\ UNCHANGED waiters
    \/ /\ concurrency = 0
       /\ waiters' = Append(waiters, c)
       /\ wgPc' = [wgPc EXCEPT ![c] = "waiting"]
       /\ UNCHANGED concurrency

\* Mistake for the mutation tests: notify() only counts up.
SemNotifyNoWake ==
    /\ concurrency' = concurrency + 1
    /\ UNCHANGED <<waiters, wgPc>>

\* notify(): the first waiter is scheduled and has the permit.
SemNotify ==
    \/ /\ waiters # <<>>
       /\ waiters' = Tail(waiters)
       /\ wgPc' = [wgPc EXCEPT ![Head(waiters)] = "granted"]
       /\ UNCHANGED concurrency
    \/ /\ waiters = <<>>
       /\ concurrency' = concurrency + 1
       /\ UNCHANGED <<waiters, wgPc>>

-----------------------------------------------------------------------------
(* WorkerGroup                                                             *)

\* schedule(): m_sem.wait()
Schedule(s) ==
    /\ wgPc[s] = "out" /\ asked < MaxJobs
    /\ asked' = asked + 1
    /\ SemWait(s)
    /\ UNCHANGED <<finish, todo, queued, wgRunning, threw>>

\* schedule(): m_scheduler->schedule(doWork)
Submit(s) ==
    /\ wgPc[s] = "granted"
    /\ queued' = queued + 1
    /\ wgPc' = [wgPc EXCEPT ![s] = "out"]
    /\ UNCHANGED <<concurrency, waiters, finish, todo, asked, wgRunning, threw>>

\* The scheduler takes a callback: doWork(), cb()
StartWork ==
    /\ queued > 0
    /\ queued' = queued - 1
    /\ wgRunning' = wgRunning + 1
    /\ UNCHANGED <<concurrency, waiters, finish, wgPc, todo, asked, threw>>

\* doWork(): cb() has returned; m_sem.notify()
EndWork ==
    /\ wgRunning > 0
    /\ wgRunning' = wgRunning - 1
    /\ SemNotify
    /\ UNCHANGED <<finish, todo, asked, queued, threw>>

\* cb() throws: the exception leaves doWork() and ends the coroutine.
WorkThrows ==
    /\ MayThrow
    /\ wgRunning > 0
    /\ wgRunning' = wgRunning - 1
    /\ threw' = threw + 1
    /\ UNCHANGED <<concurrency, waiters, finish, wgPc, todo, asked, queued>>

\* waitAll(), and the destructor: m_finish is tested ...
WaitAll(k) ==
    /\ wgPc[k] = "out"
    /\ wgPc' = [wgPc EXCEPT ![k] = IF finish THEN "returned" ELSE "entered"]
    /\ UNCHANGED <<concurrency, waiters, finish, todo, jobVars>>

\* ... and set, without a lock.
SetFinish(k) ==
    /\ wgPc[k] = "entered"
    /\ finish' = TRUE
    /\ todo' = [todo EXCEPT ![k] = BatchSize]
    /\ wgPc' = [wgPc EXCEPT ![k] = "loop"]
    /\ UNCHANGED <<concurrency, waiters, jobVars>>

\* m_sem.wait(), BatchSize times
TakePermit(k) ==
    /\ wgPc[k] = "loop" /\ todo[k] > 0
    /\ SemWait(k)
    /\ UNCHANGED <<finish, todo, jobVars>>

GotPermit(k) ==
    /\ wgPc[k] = "granted"
    /\ todo' = [todo EXCEPT ![k] = @ - 1]
    /\ wgPc' = [wgPc EXCEPT ![k] = "loop"]
    /\ UNCHANGED <<concurrency, waiters, finish, jobVars>>

WaitAllDone(k) ==
    /\ wgPc[k] = "loop" /\ todo[k] = 0
    /\ wgPc' = [wgPc EXCEPT ![k] = "returned"]
    /\ UNCHANGED <<concurrency, waiters, finish, todo, jobVars>>

-----------------------------------------------------------------------------
Closer(k) ==
    WaitAll(k) \/ SetFinish(k) \/ TakePermit(k) \/ GotPermit(k) \/ WaitAllDone(k)

Worker == StartWork \/ EndWork \/ WorkThrows

WgNext ==
    \/ \E s \in Submitters : Schedule(s) \/ Submit(s)
    \/ \E k \in Closers : Closer(k)
    \/ Worker

WgSpec == WgInit /\ [][WgNext]_wgVars

-----------------------------------------------------------------------------
(* Properties.                                                             *)

\* The type of every variable; a waiter is in the queue once.
TypeOK ==
    /\ concurrency \in 0 .. BatchSize
    /\ waiters \in Seq(Coroutines)
    /\ finish \in BOOLEAN
    /\ wgPc \in [Coroutines ->
                 {"out", "waiting", "granted", "entered", "loop", "returned"}]
    /\ todo \in [Coroutines -> 0 .. BatchSize]
    /\ asked \in 0 .. MaxJobs /\ queued \in Nat /\ wgRunning \in Nat /\ threw \in Nat
    /\ \A c \in Coroutines :
          wgPc[c] = "waiting" <=> \E i \in DOMAIN waiters : waiters[i] = c

\* When a coroutine's waitAll() has returned, every callback that was submitted
\* has finished, and none is about to be.
AllFinished ==
    \A k \in Closers : wgPc[k] = "returned" =>
        queued + wgRunning = 0 /\ \A s \in Submitters : wgPc[s] # "granted"

\* waitAll() returns when AllFinished and not before -- unless a callback has
\* thrown: doWork() then keeps the permit that waitAll() waits for.
WaitAllReturns ==
    /\ []AllFinished
    /\ \A k \in Closers : wgPc[k] = "loop" ~> (wgPc[k] = "returned" \/ threw > 0)
=============================================================================
