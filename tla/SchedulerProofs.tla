-------------------------- MODULE SchedulerProofs --------------------------
(***************************************************************************)
(* Proofs about the scheduler, for any number of threads and tasks:        *)
(*  - TypeCorrect: the types, the active counter being a natural number    *)
(*    (the size_t never wraps);                                            *)
(*  - CountCorrect: m_activeThreadCount is exact;                          *)
(*  - OverlapOnlyEarlyCorrect: a coroutine is on the stack of two threads, *)
(*    or in the wrong state, only if it was resumed before the thread that *)
(*    it yielded on was done with it.                                      *)
(* The argument for the last one is that the right to resume a coroutine   *)
(* is unique: it lies in one queue entry, or with one armed timer/event,   *)
(* or with one waking thread, or with the thread that runs the coroutine;  *)
(*  - CleanStopCorrect: with the creating thread alone, stop() leaves no   *)
(*    task behind.                                                         *)
(***************************************************************************)
EXTENDS Scheduler, FiniteSetTheorems, TLAPS

-----------------------------------------------------------------------------
(* Facts about the queue.                                                  *)

\* The tasks that have an entry, and: no task has two, but for those in some set.
QTasks(q) == {q[i].task : i \in 1..Len(q)}
Distinct(q, but) ==
    \A i, j \in 1..Len(q) : q[i].task = q[j].task /\ q[i].task \notin but => i = j

\* What schedule() does to the set of queued tasks.
LEMMA AppendFacts ==
  ASSUME NEW q \in Seq(Entry), NEW e \in Entry, NEW but
  PROVE  /\ Append(q, e) \in Seq(Entry)
         /\ QTasks(Append(q, e)) = QTasks(q) \cup {e.task}
         /\ Distinct(q, but) /\ (e.task \in but \/ e.task \notin QTasks(q))
               => Distinct(Append(q, e), but)
<1>1. /\ Append(q, e) \in Seq(Entry)
      /\ Len(Append(q, e)) = Len(q) + 1
      /\ Len(q) \in Nat
      /\ \A i \in 1..Len(q) : Append(q, e)[i] = q[i]
      /\ Append(q, e)[Len(q) + 1] = e
  OBVIOUS
<1>2. QTasks(Append(q, e)) = QTasks(q) \cup {e.task}
  <2>1. ASSUME NEW x \in QTasks(Append(q, e))
        PROVE  x \in QTasks(q) \cup {e.task}
    <3>1. PICK i \in 1..(Len(q) + 1) : x = Append(q, e)[i].task
      BY <2>1, <1>1 DEF QTasks
    <3>2. i \in 1..Len(q) \/ i = Len(q) + 1
      BY <1>1
    <3> QED BY <3>1, <3>2, <1>1 DEF QTasks
  <2>2. ASSUME NEW x \in QTasks(q) \cup {e.task}
        PROVE  x \in QTasks(Append(q, e))
    <3>1. CASE x \in QTasks(q)
      <4>1. PICK i \in 1..Len(q) : x = q[i].task
        BY <3>1 DEF QTasks
      <4>2. i \in 1..Len(Append(q, e)) /\ x = Append(q, e)[i].task
        BY <4>1, <1>1
      <4> QED BY <4>2 DEF QTasks
    <3>2. CASE x = e.task
      <4>1. Len(q) + 1 \in 1..Len(Append(q, e))
        BY <1>1
      <4>2. x = Append(q, e)[Len(q) + 1].task
        BY <3>2, <1>1
      <4> QED BY <4>1, <4>2 DEF QTasks
    <3> QED BY <2>2, <3>1, <3>2
  <2> QED BY <2>1, <2>2
<1>3. ASSUME Distinct(q, but), e.task \in but \/ e.task \notin QTasks(q)
      PROVE  Distinct(Append(q, e), but)
  <2>1. \A i \in 1..Len(q) : e.task \in but \/ q[i].task # e.task
    BY <1>3 DEF QTasks
  <2> QED BY <1>1, <1>3, <2>1 DEF Distinct
<1> QED BY <1>1, <1>2, <1>3

\* What taking an entry out of the middle does to the set of queued tasks.
LEMMA EraseFacts ==
  ASSUME NEW q \in Seq(Entry), NEW i \in 1..Len(q), NEW but
  PROVE  /\ Erase(q, i) \in Seq(Entry)
         /\ QTasks(q) \ {q[i].task} \subseteq QTasks(Erase(q, i))
         /\ QTasks(Erase(q, i)) \subseteq QTasks(q)
         /\ Distinct(q, but) =>
               /\ Distinct(Erase(q, i), but)
               /\ q[i].task \notin but => QTasks(Erase(q, i)) = QTasks(q) \ {q[i].task}
<1> DEFINE r == Erase(q, i)
<1>1. /\ Len(q) \in Nat /\ Len(q) - 1 \in Nat
      /\ \A j \in 1..Len(q) : q[j] \in Entry
  OBVIOUS
<1>2. /\ r \in Seq(Entry)
      /\ Len(r) = Len(q) - 1
      /\ \A j \in 1..(Len(q) - 1) : r[j] = IF j < i THEN q[j] ELSE q[j + 1]
  BY <1>1 DEF Erase
<1> HIDE DEF r
<1>3. ASSUME NEW x \in QTasks(q) \ {q[i].task}
      PROVE  x \in QTasks(r)
  <2>1. PICK k \in 1..Len(q) : x = q[k].task
    BY <1>3 DEF QTasks
  <2>2. k # i
    BY <1>3, <2>1
  <2>3. PICK j \in 1..(Len(q) - 1) : r[j] = q[k]
    <3>1. CASE k < i
      <4>1. k \in 1..(Len(q) - 1)
        BY <3>1, <1>1
      <4> QED BY <4>1, <3>1, <1>2
    <3>2. CASE ~(k < i)
      <4>1. k - 1 \in 1..(Len(q) - 1) /\ ~(k - 1 < i) /\ (k - 1) + 1 = k
        BY <3>2, <2>2, <1>1
      <4> QED BY <4>1, <1>2
    <3> QED BY <3>1, <3>2
  <2> QED BY <2>1, <2>3, <1>2 DEF QTasks
<1>4. ASSUME NEW j \in 1..(Len(q) - 1)
      PROVE  \E k \in 1..Len(q) : k # i /\ r[j] = q[k]
  <2>1. CASE j < i
    BY <2>1, <1>1, <1>2
  <2>2. CASE ~(j < i)
    <3>1. j + 1 \in 1..Len(q) /\ j + 1 # i
      BY <2>2, <1>1
    <3> QED BY <3>1, <2>2, <1>2
  <2> QED BY <2>1, <2>2
<1>5. QTasks(r) \subseteq QTasks(q)
  BY <1>2, <1>4 DEF QTasks
<1>6. ASSUME Distinct(q, but)
      PROVE  Distinct(r, but) /\ (q[i].task \notin but => QTasks(r) = QTasks(q) \ {q[i].task})
  <2>1. ASSUME NEW x \in QTasks(r), q[i].task \notin but
        PROVE  x \in QTasks(q) \ {q[i].task}
    <3>1. PICK j \in 1..(Len(q) - 1) : x = r[j].task
      BY <2>1, <1>2 DEF QTasks
    <3>2. PICK k \in 1..Len(q) : k # i /\ r[j] = q[k]
      BY <1>4
    <3>3. q[k].task # q[i].task
      BY <2>1, <3>2, <1>6 DEF Distinct
    <3> QED BY <3>1, <3>2, <3>3 DEF QTasks
  <2>2. ASSUME NEW j \in 1..(Len(q) - 1), NEW k \in 1..(Len(q) - 1),
               r[j].task = r[k].task, r[j].task \notin but
        PROVE  j = k
    <3> DEFINE at(m) == IF m < i THEN m ELSE m + 1
    <3>1. at(j) \in 1..Len(q) /\ at(k) \in 1..Len(q) /\ (at(j) = at(k) => j = k)
      BY <1>1
    <3>2. r[j] = q[at(j)] /\ r[k] = q[at(k)]
      BY <1>2
    <3> HIDE DEF at
    <3> QED BY <3>1, <3>2, <2>2, <1>6 DEF Distinct
  <2>3. Distinct(r, but)
    BY <1>2, <2>2 DEF Distinct
  <2> QED BY <2>1, <2>3, <1>3
<1> USE DEF r
<1> QED BY <1>2, <1>3, <1>5, <1>6

-----------------------------------------------------------------------------
(* Type correctness and the active counter.                                *)

\* The pcs at which a thread has a task in hand.
InHand == {"dispatch", "body", "hold", "leave", "left", "post", "setHold", "wake"}

\* A thread has a task exactly between taking it and letting go of it; run()
\* has not been entered before start(), nor by the caller before stop() calls
\* the root coroutine.
ControlOK ==
    /\ \A t \in Threads : pc[t] \in InHand <=> cur[t] # None
    /\ stopPc = "none" /\ ~isRunning => \A t \in Threads : pc[t] = "off"
    /\ stopPc \in {"none", "called", "cleared", "root"} /\ Root \in Threads =>
          pc[Root] = "off"
    /\ stopPc \in {"cleared", "root", "inRoot"} => Root \in Threads

CountedThreads == {t \in Threads : pc[t] \in Counted}

\* active is not typed here: that it is a natural number is ActiveCount.
Types ==
    /\ queue \in Seq(Entry)
    /\ state \in [Tasks -> States]
    /\ created \subseteq Tasks
    /\ waiting \subseteq Tasks
    /\ pc \in [Threads -> Pcs]
    /\ cur \in [Threads -> Tasks \cup {None}]
    /\ noWaits \in [Threads -> BOOLEAN]
    /\ idleOver \in [Threads -> BOOLEAN]
    /\ isRunning \in BOOLEAN
    /\ autoStop \in BOOLEAN
    /\ yields \in [Tasks -> 0..MaxYields]
    /\ stopPc \in StopPcs
    /\ early \subseteq Tasks

TypeInv == Types /\ ControlOK

USE SchedulerAssumption

\* The scheduler starts in a well-formed state.
LEMMA TypeInit == Init => TypeInv
<1> SUFFICES ASSUME Init PROVE TypeInv
  OBVIOUS
<1>1. Types
  <2>1. queue \in Seq(Entry) /\ created \subseteq Tasks /\ waiting \subseteq Tasks
    BY DEF Init
  <2>2. state \in [Tasks -> States] /\ yields \in [Tasks -> 0..MaxYields]
    BY DEF Init, States
  <2>3. pc \in [Threads -> Pcs] /\ cur \in [Threads -> Tasks \cup {None}]
    BY DEF Init, Pcs
  <2>4. noWaits \in [Threads -> BOOLEAN] /\ idleOver \in [Threads -> BOOLEAN]
    BY DEF Init
  <2>5. isRunning \in BOOLEAN /\ autoStop \in BOOLEAN /\ stopPc \in StopPcs /\ early \subseteq Tasks
    BY DEF Init, StopPcs
  <2> QED BY <2>1, <2>2, <2>3, <2>4, <2>5 DEF Types
<1>2. ControlOK
  BY DEF Init, ControlOK, InHand
<1> QED BY <1>1, <1>2 DEF TypeInv

\* Every step of the scheduler keeps the state well-formed.
LEMMA TypeStep ==
  ASSUME TypeInv, [Next]_vars
  PROVE  TypeInv'
<1> USE DEF TypeInv, Types, ControlOK, InHand, States, Pcs, StopPcs, Over,
            vars, threadVars, stopVars, SpendYield
<1>0. ASSUME NEW c \in Tasks, NEW u \in Pins
      PROVE  Push(c, u) => queue' \in Seq(Entry)
  BY <1>0, AppendFacts DEF Push, Entry
<1>00. ASSUME NEW c \in Tasks
       PROVE  Push(c, AnyThread) => queue' \in Seq(Entry)
  BY <1>00, AppendFacts DEF Push, Entry
<1>1. ASSUME NEW c \in Tasks, NEW u \in Pins, ScheduleNew(c, u)
      PROVE  TypeInv'
  BY <1>1, <1>0 DEF ScheduleNew
<1>2. CASE Start
  BY <1>2 DEF Start, Workers
<1>3. CASE StopCall
  BY <1>3 DEF StopCall
<1>4. CASE StopClearRunning
  BY <1>4 DEF StopClearRunning
<1>5. CASE StopReadWaits
  BY <1>5 DEF StopReadWaits
<1>6. CASE StopCallRoot
  BY <1>6, SMTT(30) DEF StopCallRoot
<1>7. CASE StopRootBack
  BY <1>7 DEF StopRootBack
<1>8. CASE StopJoin
  BY <1>8 DEF StopJoin
<1>9. ASSUME NEW t \in Threads, Body(t)
      PROVE  TypeInv'
  <2>1. CASE YieldToReady(t)
    BY <2>1 DEF YieldToReady
  <2>2. CASE ArmWait(t)
    BY <2>2 DEF ArmWait
  <2>3. ASSUME NEW u \in Pins, SwitchTo(t, u)
        PROVE  TypeInv'
    BY <2>3, <1>0 DEF SwitchTo
  <2>4. CASE YieldToHold(t)
    BY <2>4 DEF YieldToHold
  <2>5. ASSUME NEW c \in Tasks, NEW u \in Pins, Spawn(t, c, u)
        PROVE  TypeInv'
    BY <2>5, <1>0 DEF Spawn
  <2>6. ASSUME NEW s \in Over, Finish(t, s)
        PROVE  TypeInv'
    BY <2>6 DEF Finish
  <2> QED BY <1>9, <2>1, <2>2, <2>3, <2>4, <2>5, <2>6 DEF Body
<1>10. ASSUME NEW t \in Threads, Run(t)
       PROVE  TypeInv'
  <2>1. CASE PickTask(t)
    <3>1. PICK i \in 1..Len(queue) :
             /\ cur' = [cur EXCEPT ![t] = queue[i].task]
             /\ queue' = Erase(queue, i)
             /\ early' = early \cup {c \in {queue[i].task} : Leaving(c)}
      BY <2>1 DEF PickTask, Candidates
    <3>2. queue' \in Seq(Entry)
      BY <3>1, EraseFacts
    <3>3. queue[i] \in Entry
      BY <3>1
    <3>4. queue[i].task \in Tasks
      BY <3>3 DEF Entry
    <3> QED BY <2>1, <3>1, <3>2, <3>4 DEF PickTask
  <2>2. CASE PickNone(t)
    BY <2>2 DEF PickNone
  <2>3. CASE Dispatch(t)
    <3>1. CASE state[cur[t]] \in Over
      BY <2>3, <3>1, ZenonT(30) DEF Dispatch
    <3>2. CASE state[cur[t]] \notin Over
      BY <2>3, <3>2, ZenonT(30) DEF Dispatch
    <3> QED BY <3>1, <3>2
  <2>4. CASE SwapOut(t)
    BY <2>4 DEF SwapOut
  <2>5. CASE AfterSwap(t)
    BY <2>5 DEF AfterSwap
  <2>6. CASE Post(t)
    <3>1. CASE state[cur[t]] = "READY"
      BY <2>6, <3>1, <1>00 DEF Post
    <3>2. CASE state[cur[t]] # "READY"
      BY <2>6, <3>2 DEF Post
    <3> QED BY <3>1, <3>2
  <2>7. CASE SetHold(t)
    BY <2>7 DEF SetHold
  <2> QED BY <1>10, <2>1, <2>2, <2>3, <2>4, <2>5, <2>6, <2>7 DEF Run
<1>11. ASSUME NEW t \in Threads, Idle(t)
       PROVE  TypeInv'
  <2>1. CASE IdleReadWaits(t)
    BY <2>1 DEF IdleReadWaits
  <2>2. CASE IdleCheck(t)
    BY <2>2 DEF IdleCheck, Stopping
  <2>3. ASSUME NEW c \in Tasks, PollWake(t, c)
        PROVE  TypeInv'
    BY <2>3 DEF PollWake
  <2>4. CASE Wake(t)
    BY <2>4, <1>00 DEF Wake
  <2>5. CASE PollDone(t)
    BY <2>5 DEF PollDone
  <2> QED BY <1>11, <2>1, <2>2, <2>3, <2>4, <2>5 DEF Idle
<1>12. CASE UNCHANGED vars
  BY <1>12
<1> QED BY <1>1, <1>2, <1>3, <1>4, <1>5, <1>6, <1>7, <1>8, <1>9, <1>10, <1>11,
           <1>12 DEF Next, Stop, ThreadStep

\* How the counter follows the threads: a step of thread t that enters, or
\* leaves, the counted section moves the count by one.
LEMMA CountEnter ==
  ASSUME TypeInv, ActiveCount, NEW t \in Threads, NEW p \in Counted,
         pc[t] \notin Counted, pc' = [pc EXCEPT ![t] = p], active' = active + 1
  PROVE  ActiveCount'
<1>1. CountedThreads' = CountedThreads \cup {t} /\ t \notin CountedThreads
  BY DEF CountedThreads, TypeInv, Types
<1>2. IsFiniteSet(CountedThreads)
  BY FS_Subset DEF CountedThreads
<1>3. Cardinality(CountedThreads') = Cardinality(CountedThreads) + 1
  BY <1>1, <1>2, FS_AddElement
<1> QED BY <1>3 DEF ActiveCount, CountedThreads

\* A thread that leaves the counted part of run() lowers the count by one.
LEMMA CountLeave ==
  ASSUME TypeInv, ActiveCount, NEW t \in Threads, NEW p, p \notin Counted,
         pc[t] \in Counted, pc' = [pc EXCEPT ![t] = p], active' = active - 1
  PROVE  ActiveCount'
<1>1. CountedThreads' = CountedThreads \ {t} /\ t \in CountedThreads
  BY DEF CountedThreads, TypeInv, Types
<1>2. IsFiniteSet(CountedThreads)
  BY FS_Subset DEF CountedThreads
<1>3. Cardinality(CountedThreads') = Cardinality(CountedThreads) - 1
  BY <1>1, <1>2, FS_RemoveElement
<1> QED BY <1>3 DEF ActiveCount, CountedThreads

\* A thread that moves within, or outside, the counted part leaves the count.
LEMMA CountSame ==
  ASSUME TypeInv, ActiveCount, active' = active,
         \A t \in Threads : pc'[t] \in Counted <=> pc[t] \in Counted
  PROVE  ActiveCount'
<1>1. CountedThreads' = CountedThreads
  BY DEF CountedThreads
<1> QED BY <1>1 DEF ActiveCount, CountedThreads

\* Every step keeps m_activeThreadCount exact.
LEMMA CountStep ==
  ASSUME TypeInv, ActiveCount, [Next]_vars
  PROVE  ActiveCount'
<1> USE DEF TypeInv, Types, ControlOK, Counted, vars, threadVars, stopVars
<1>1. ASSUME NEW c \in Tasks, NEW u \in Pins, ScheduleNew(c, u)
      PROVE  ActiveCount'
  BY <1>1, CountSame DEF ScheduleNew
<1>2. CASE Start
  BY <1>2, CountSame DEF Start, Workers
<1>3. CASE StopCall
  BY <1>3, CountSame DEF StopCall
<1>4. CASE Stop
  BY <1>4, CountSame DEF Stop, StopClearRunning, StopReadWaits, StopCallRoot,
                         StopRootBack, StopJoin
<1>5. ASSUME NEW t \in Threads, Body(t)
      PROVE  ActiveCount'
  BY <1>5, CountSame DEF Body, YieldToReady, ArmWait, SwitchTo, YieldToHold,
                         Spawn, Finish
<1>6. ASSUME NEW t \in Threads, Run(t)
      PROVE  ActiveCount'
  <2>1. CASE PickTask(t)
    BY <2>1, CountEnter DEF PickTask
  <2>2. CASE Dispatch(t)
    <3>1. CASE state[cur[t]] \in Over
      BY <2>2, <3>1, CountLeave DEF Dispatch
    <3>2. CASE state[cur[t]] \notin Over
      BY <2>2, <3>2, CountSame DEF Dispatch
    <3> QED BY <3>1, <3>2
  <2>3. CASE AfterSwap(t)
    BY <2>3, CountLeave DEF AfterSwap
  <2>4. CASE PickNone(t) \/ SwapOut(t) \/ Post(t) \/ SetHold(t)
    BY <2>4, CountSame DEF PickNone, SwapOut, Post, SetHold
  <2> QED BY <1>6, <2>1, <2>2, <2>3, <2>4 DEF Run
<1>7. ASSUME NEW t \in Threads, Idle(t)
      PROVE  ActiveCount'
  BY <1>7, CountSame DEF Idle, IdleReadWaits, IdleCheck, PollWake, Wake, PollDone
<1>8. CASE UNCHANGED vars
  BY <1>8, CountSame
<1> QED BY <1>1, <1>2, <1>3, <1>4, <1>5, <1>6, <1>7, <1>8 DEF Next, ThreadStep

\* No thread is counted before start().
LEMMA CountInit == Init => ActiveCount
<1> SUFFICES ASSUME Init PROVE ActiveCount
  OBVIOUS
<1>1. CountedThreads = {}
  BY DEF Init, CountedThreads, Counted
<1> QED BY <1>1, FS_EmptySet DEF Init, ActiveCount, CountedThreads

\* An exact count is a natural number: the size_t does not wrap.
LEMMA CountType ==
  ASSUME TypeInv, ActiveCount
  PROVE  TypeOK
<1>1. IsFiniteSet(CountedThreads)
  BY FS_Subset DEF CountedThreads
<1>2. active \in Nat
  BY <1>1, FS_CardinalityType DEF ActiveCount, CountedThreads
<1> QED BY <1>2 DEF TypeInv, Types, TypeOK

\* Types and count together are invariant.
LEMMA BaseInvariant == Spec => [](TypeInv /\ ActiveCount)
<1>1. Init => TypeInv /\ ActiveCount
  BY TypeInit, CountInit
<1>2. TypeInv /\ ActiveCount /\ [Next]_vars => (TypeInv /\ ActiveCount)'
  BY TypeStep, CountStep
<1> QED BY <1>1, <1>2, PTL DEF Spec

\* Every variable keeps its type; in particular m_activeThreadCount (a size_t)
\* never wraps, for any number of threads and tasks.
THEOREM TypeCorrect == Spec => []TypeOK
<1>1. TypeInv /\ ActiveCount => TypeOK
  BY CountType
<1> QED BY <1>1, BaseInvariant, PTL

\* m_activeThreadCount is exactly the number of threads that have taken an
\* entry and not yet come back from it: run() counts every path.
THEOREM CountCorrect == Spec => []ActiveCount
BY BaseInvariant, PTL

-----------------------------------------------------------------------------
(* The right to resume a coroutine is unique.                              *)

Holding == InHand \ {"wake"}

\* Somebody will resume c: an entry, an armed timer or event, or a thread that
\* has taken c off the timers and is about to schedule it.
Pending(c) ==
    \/ c \in QTasks(queue)
    \/ c \in waiting
    \/ \E t \in Threads : pc[t] = "wake" /\ cur[t] = c

\* At most one of the three, and at most one of each, for a task that was never
\* resumed early.
OnePending ==
    /\ Distinct(queue, early)
    /\ \A c \in Tasks \ early : ~(c \in QTasks(queue) /\ c \in waiting)
    /\ \A t \in Threads :
          pc[t] = "wake" /\ cur[t] \notin early =>
             cur[t] \notin QTasks(queue) /\ cur[t] \notin waiting
    /\ \A t, u \in Threads :
          pc[t] = "wake" /\ pc[u] = "wake" /\ cur[t] = cur[u] /\ cur[t] \notin early => t = u

\* At most one thread has the coroutine, and its state fits the thread's place.
OneHolder ==
    /\ \A t, u \in Threads :
          pc[t] \in Holding /\ pc[u] \in Holding /\ cur[t] = cur[u] /\ cur[t] \notin early
             => t = u
    /\ \A t \in Threads : cur[t] \notin early =>
          /\ pc[t] = "dispatch" => state[cur[t]] # "EXEC"
          /\ pc[t] \in {"body", "hold"} => state[cur[t]] = "EXEC"
          /\ pc[t] \in {"leave", "left", "post"} =>
                state[cur[t]] \in {"READY", "HOLD", "TERM", "EXCEPT"}
          /\ pc[t] = "setHold" => state[cur[t]] = "HOLD"

\* A coroutine that is held is pending only on its way to HOLD.
HeldPending ==
    \A t \in Threads : cur[t] \notin early =>
        /\ pc[t] \in {"dispatch", "body"} => ~Pending(cur[t])
        /\ pc[t] \in {"leave", "left", "post"} /\ Pending(cur[t]) =>
              state[cur[t]] = "HOLD"

\* Nothing is known of a task that nobody has scheduled.
CreatedOK ==
    \A c \in Tasks : Pending(c) \/ (\E t \in Threads : cur[t] = c) => c \in created

OwnerInv == OnePending /\ OneHolder /\ HeldPending /\ CreatedOK

\* Nobody owns a coroutine at the start.
LEMMA OwnerInit == Init => OwnerInv
<1> SUFFICES ASSUME Init PROVE OwnerInv
  OBVIOUS
<1>1. queue = <<>> /\ QTasks(queue) = {} /\ Distinct(queue, early)
  BY DEF Init, QTasks, Distinct
<1> QED BY <1>1 DEF Init, OwnerInv, OnePending, OneHolder, HeldPending,
                    CreatedOK, Pending, Holding, InHand

\* A new entry for a task that nobody is going to resume.
LEMMA PushFacts ==
  ASSUME TypeInv, OwnerInv, NEW c \in Tasks, NEW u \in Threads \cup {AnyThread},
         Push(c, u), c \in early \/ c \notin QTasks(queue), early' = early
  PROVE  QTasks(queue') = QTasks(queue) \cup {c} /\ Distinct(queue', early')
<1>1. [task |-> c, tid |-> u] \in Entry
  BY DEF Entry
<1> QED BY <1>1, AppendFacts DEF Push, TypeInv, Types, OwnerInv, OnePending

\* Every step keeps the ownership of the coroutines that were never resumed early.
LEMMA OwnerStep ==
  ASSUME TypeInv, OwnerInv, [Next]_vars
  PROVE  OwnerInv'
<1> USE DEF TypeInv, Types, ControlOK, Holding, InHand, Over
<1>1. ASSUME NEW c \in Tasks, NEW u \in Pins, ScheduleNew(c, u)
      PROVE  OwnerInv'
  <2>1. ~Pending(c) /\ \A t \in Threads : cur[t] # c
    BY <1>1 DEF ScheduleNew, OwnerInv, CreatedOK
  <2>2. QTasks(queue') = QTasks(queue) \cup {c} /\ Distinct(queue', early')
    BY <1>1, <2>1, PushFacts DEF ScheduleNew, Pending
  <2> QED BY <1>1, <2>1, <2>2 DEF ScheduleNew, threadVars, OwnerInv, OnePending,
                  OneHolder, HeldPending, CreatedOK, Pending
<1>2. CASE Start
  BY <1>2 DEF Start, Workers, OwnerInv, OnePending, OneHolder, HeldPending,
              CreatedOK, Pending
<1>3. CASE StopCall
  BY <1>3 DEF StopCall, threadVars, OwnerInv, OnePending, OneHolder, HeldPending,
              CreatedOK, Pending
<1>4. CASE Stop
  <2>1. CASE StopCallRoot
    <3>1. /\ UNCHANGED <<queue, state, created, waiting, cur, early>>
          /\ pc' = pc \/ (pc[Root] = "off" /\ Root \in Threads
                            /\ pc' = [pc EXCEPT ![Root] = "pick"])
      BY <2>1 DEF StopCallRoot
    <3>2. /\ \A t \in Threads : pc[t] \in InHand \/ pc'[t] \in InHand => pc'[t] = pc[t]
          /\ \A t \in Threads : pc'[t] = "wake" <=> pc[t] = "wake"
      BY <3>1
    <3> QED BY <3>1, <3>2 DEF OwnerInv, OnePending, OneHolder, HeldPending, CreatedOK,
                              Pending
  <2>2. CASE StopClearRunning \/ StopReadWaits \/ StopRootBack \/ StopJoin
    <3>1. UNCHANGED <<queue, state, created, waiting, cur, pc, early>>
      BY <2>2 DEF StopClearRunning, StopReadWaits, StopRootBack, StopJoin, threadVars
    <3> QED BY <3>1 DEF OwnerInv, OnePending, OneHolder, HeldPending, CreatedOK,
                        Pending
  <2> QED BY <1>4, <2>1, <2>2 DEF Stop
<1>5. ASSUME NEW t \in Threads, Body(t)
      PROVE  OwnerInv'
  <2>1. CASE YieldToReady(t)
    BY <2>1 DEF YieldToReady, OwnerInv, OnePending, OneHolder, HeldPending,
                CreatedOK, Pending
  <2>2. CASE ArmWait(t)
    BY <2>2 DEF ArmWait, OwnerInv, OnePending, OneHolder, HeldPending,
                CreatedOK, Pending
  <2>3. ASSUME NEW u \in Pins, SwitchTo(t, u)
        PROVE  OwnerInv'
    <3>1. cur[t] \in Tasks /\ (cur[t] \in early \/ ~Pending(cur[t]))
      BY <2>3 DEF SwitchTo, OwnerInv, HeldPending
    <3>2. QTasks(queue') = QTasks(queue) \cup {cur[t]} /\ Distinct(queue', early')
      BY <2>3, <3>1, PushFacts DEF SwitchTo, Pending
    <3> QED BY <2>3, <3>1, <3>2 DEF SwitchTo, OwnerInv, OnePending, OneHolder,
                HeldPending, CreatedOK, Pending
  <2>4. CASE YieldToHold(t)
    BY <2>4 DEF YieldToHold, OwnerInv, OnePending, OneHolder, HeldPending,
                CreatedOK, Pending
  <2>5. ASSUME NEW c \in Tasks, NEW u \in Pins, Spawn(t, c, u)
        PROVE  OwnerInv'
    <3>1. ~Pending(c) /\ \A v \in Threads : cur[v] # c
      BY <2>5 DEF Spawn, OwnerInv, CreatedOK
    <3>2. QTasks(queue') = QTasks(queue) \cup {c} /\ Distinct(queue', early')
      BY <2>5, <3>1, PushFacts DEF Spawn, Pending
    <3> QED BY <2>5, <3>1, <3>2 DEF Spawn, threadVars, OwnerInv, OnePending,
                OneHolder, HeldPending, CreatedOK, Pending
  <2>6. ASSUME NEW s \in Over, Finish(t, s)
        PROVE  OwnerInv'
    BY <2>6 DEF Finish, OwnerInv, OnePending, OneHolder, HeldPending,
                CreatedOK, Pending
  <2> QED BY <1>5, <2>1, <2>2, <2>3, <2>4, <2>5, <2>6 DEF Body
<1>6. ASSUME NEW t \in Threads, Run(t)
      PROVE  OwnerInv'
  <2>1. CASE PickTask(t)
    <3>1. PICK i \in 1..Len(queue) :
             /\ Eligible(t, queue[i])
             /\ early' = early \cup {d \in {queue[i].task} : Leaving(d)}
             /\ cur' = [cur EXCEPT ![t] = queue[i].task]
             /\ queue' = Erase(queue, i)
      BY <2>1 DEF PickTask, Candidates
    <3> DEFINE c == queue[i].task
    <3>2. queue[i] \in Entry
      BY <3>1
    <3>3. c \in Tasks /\ c \in QTasks(queue)
      BY <3>2 DEF Entry, QTasks
    <3>4. /\ Distinct(queue', early) /\ QTasks(queue') \subseteq QTasks(queue)
          /\ QTasks(queue) \ {c} \subseteq QTasks(queue')
          /\ c \notin early => QTasks(queue') = QTasks(queue) \ {c}
      BY <3>1, EraseFacts DEF OwnerInv, OnePending
    <3>5. /\ state[c] # "EXEC" /\ cur' = [cur EXCEPT ![t] = c]
          /\ early' = early \cup {d \in {c} : Leaving(d)}
      BY <3>1 DEF Eligible
    <3>6. /\ pc' = [pc EXCEPT ![t] = "dispatch"] /\ pc[t] = "pick"
          /\ UNCHANGED <<state, created, waiting>>
      BY <2>1 DEF PickTask
    <3> HIDE DEF c
    <3>7. Distinct(queue', early')
      BY <3>4, <3>5 DEF Distinct
    <3>8. CASE c \in early'
      BY <3>3, <3>4, <3>5, <3>6, <3>7, <3>8 DEF OwnerInv,
                OnePending, OneHolder, HeldPending, CreatedOK, Pending
    <3>9. CASE c \notin early'
      <4>1. c \notin early /\ early' = early /\ ~Leaving(c)
        BY <3>5, <3>9
      <4>2. \A u \in Threads : cur[u] = c => pc[u] \notin InHand
        BY <3>3, <3>5, <4>1 DEF Leaving, OwnerInv, OneHolder, HeldPending,
                                OnePending, Pending
      <4>3. c \notin waiting /\ \A u \in Threads : cur[u] # c
        BY <3>3, <4>1, <4>2 DEF OwnerInv, OnePending
      <4> QED BY <3>3, <3>4, <3>5, <3>6, <3>7, <4>1, <4>3 DEF OwnerInv,
                OnePending, OneHolder, HeldPending, CreatedOK, Pending
    <3> QED BY <3>8, <3>9
  <2>2. CASE PickNone(t)
    BY <2>2 DEF PickNone, OwnerInv, OnePending, OneHolder, HeldPending,
                CreatedOK, Pending
  <2>3. CASE Dispatch(t)
    <3>0. pc[t] = "dispatch" /\ UNCHANGED <<queue, created, waiting, early>>
      BY <2>3 DEF Dispatch
    <3>1. CASE state[cur[t]] \in Over
      <4>1. /\ state' = state
            /\ cur' = [cur EXCEPT ![t] = None] /\ pc' = [pc EXCEPT ![t] = "pick"]
        BY <2>3, <3>1 DEF Dispatch
      <4> QED BY <3>0, <4>1 DEF OwnerInv, OnePending, OneHolder, HeldPending,
                                CreatedOK, Pending
    <3>2. CASE state[cur[t]] \notin Over
      <4>1. /\ state' = [state EXCEPT ![cur[t]] = "EXEC"]
            /\ cur' = cur /\ pc' = [pc EXCEPT ![t] = "body"]
        BY <2>3, <3>2 DEF Dispatch
      <4> QED BY <3>0, <4>1 DEF OwnerInv, OnePending, OneHolder, HeldPending,
                                CreatedOK, Pending
    <3> QED BY <3>1, <3>2
  <2>4. CASE SwapOut(t)
    BY <2>4 DEF SwapOut, OwnerInv, OnePending, OneHolder, HeldPending,
                CreatedOK, Pending
  <2>5. CASE AfterSwap(t)
    BY <2>5 DEF AfterSwap, OwnerInv, OnePending, OneHolder, HeldPending,
                CreatedOK, Pending
  <2>6. CASE Post(t)
    <3>0. pc[t] = "post" /\ UNCHANGED <<state, created, waiting, early>>
      BY <2>6 DEF Post
    <3>1. CASE state[cur[t]] = "READY"
      <4>1. /\ cur[t] \in Tasks /\ (cur[t] \in early \/ ~Pending(cur[t]))
            /\ Push(cur[t], AnyThread)
        BY <2>6, <3>1 DEF Post, OwnerInv, HeldPending
      <4>3. cur' = [cur EXCEPT ![t] = None] /\ pc' = [pc EXCEPT ![t] = "pick"]
        BY <2>6, <3>1 DEF Post
      <4>2. QTasks(queue') = QTasks(queue) \cup {cur[t]} /\ Distinct(queue', early')
        BY <3>0, <4>1, PushFacts DEF Pending
      <4> QED BY <3>0, <4>1, <4>2, <4>3 DEF OwnerInv, OnePending, OneHolder,
                  HeldPending, CreatedOK, Pending
    <3>2. CASE state[cur[t]] \in Over
      <4>1. /\ queue' = queue
            /\ cur' = [cur EXCEPT ![t] = None] /\ pc' = [pc EXCEPT ![t] = "pick"]
        BY <2>6, <3>2 DEF Post
      <4> QED BY <3>0, <4>1 DEF OwnerInv, OnePending, OneHolder, HeldPending,
                                CreatedOK, Pending
    <3>3. CASE state[cur[t]] \notin Over \cup {"READY"}
      <4>1. queue' = queue /\ cur' = cur /\ pc' = [pc EXCEPT ![t] = "setHold"]
        BY <2>6, <3>3 DEF Post
      <4> QED BY <3>0, <3>3, <4>1 DEF OwnerInv, OnePending, OneHolder,
                  HeldPending, CreatedOK, Pending
    <3> QED BY <3>1, <3>2, <3>3
  <2>7. CASE SetHold(t)
    BY <2>7 DEF SetHold, OwnerInv, OnePending, OneHolder, HeldPending,
                CreatedOK, Pending
  <2> QED BY <1>6, <2>1, <2>2, <2>3, <2>4, <2>5, <2>6, <2>7 DEF Run
<1>7. ASSUME NEW t \in Threads, Idle(t)
      PROVE  OwnerInv'
  <2>1. CASE IdleReadWaits(t) \/ IdleCheck(t) \/ PollDone(t)
    <3>1. PICK p \in {"check", "pick", "poll"} : pc' = [pc EXCEPT ![t] = p]
      BY <2>1 DEF IdleReadWaits, IdleCheck, PollDone
    <3>2. /\ pc[t] \in {"idle", "check", "poll"}
          /\ UNCHANGED <<queue, state, created, waiting, cur, early>>
      BY <2>1 DEF IdleReadWaits, IdleCheck, PollDone
    <3> QED BY <3>1, <3>2 DEF OwnerInv, OnePending, OneHolder, HeldPending,
                              CreatedOK, Pending
  <2>2. ASSUME NEW c \in Tasks, PollWake(t, c)
        PROVE  OwnerInv'
    BY <2>2 DEF PollWake, OwnerInv, OnePending, OneHolder, HeldPending,
                CreatedOK, Pending
  <2>3. CASE Wake(t)
    <3>1. /\ cur[t] \in Tasks /\ (cur[t] \in early \/ cur[t] \notin QTasks(queue))
          /\ Push(cur[t], AnyThread) /\ early' = early
      BY <2>3 DEF Wake, OwnerInv, OnePending
    <3>2. QTasks(queue') = QTasks(queue) \cup {cur[t]} /\ Distinct(queue', early')
      BY <3>1, PushFacts
    <3> QED BY <2>3, <3>1, <3>2 DEF Wake, OwnerInv, OnePending, OneHolder,
                HeldPending, CreatedOK, Pending
  <2> QED BY <1>7, <2>1, <2>2, <2>3 DEF Idle
<1>8. CASE UNCHANGED vars
  BY <1>8 DEF vars, threadVars, OwnerInv, OnePending, OneHolder, HeldPending,
              CreatedOK, Pending
<1> QED BY <1>1, <1>2, <1>3, <1>4, <1>5, <1>6, <1>7, <1>8 DEF Next, ThreadStep

\* Two threads execute on the stack of one coroutine, or a state assertion of swapIn
\* or of YieldToReady/YieldToHold fails, only after the coroutine was resumed inside
\* the window that run() leaves open, for any number of threads and tasks.
THEOREM OverlapOnlyEarlyCorrect == Spec => []OverlapOnlyEarly
<1>1. Init => OwnerInv
  BY OwnerInit
<1>2. TypeInv /\ OwnerInv /\ [Next]_vars => OwnerInv'
  BY OwnerStep
<1>3. TypeInv /\ OwnerInv => OverlapOnlyEarly
  BY DEF TypeInv, Types, OwnerInv, OneHolder, Holding, InHand, OnStack,
         OverlapOnlyEarly, StateAsserts
<1> QED BY <1>1, <1>2, <1>3, BaseInvariant, PTL DEF Spec

-----------------------------------------------------------------------------
(* The creating thread alone runs the tasks.                               *)

\* No task gets lost, whatever it does: one that is not over is queued, armed or in
\* hand, and before it is let go of in HOLD its waker is there.
NoneLost ==
    /\ \A c \in created :
          state[c] \in Over \/ c \in QTasks(queue) \/ c \in waiting \/ cur[Root] = c
    /\ pc[Root] \in {"leave", "left", "post"} => state[cur[Root]] \in Over \cup {"READY", "HOLD"}
    /\ \/ pc[Root] \in {"hold", "setHold"}
       \/ pc[Root] \in {"leave", "left", "post"} /\ state[cur[Root]] = "HOLD"
       => cur[Root] \in QTasks(queue) \cup waiting

\* The idle coroutine ends when nothing is left, and then nothing can come.
OverForGood ==
    /\ pc[Root] = "check" /\ noWaits[Root] => waiting = {}
    /\ autoStop => stopPc # "none"
    /\ pc[Root] = "exited" => idleOver[Root]
    /\ idleOver[Root] =>
          /\ pc[Root] \in {"pick", "exited"} /\ stopPc # "none"
          /\ QTasks(queue) = {} /\ waiting = {}

CallerInv == NoneLost /\ OverForGood

\* With one thread between two reads of stopping() nothing moves, and a step that
\* lets go of a task leaves it where it will be found.
LEMMA CallerStep ==
  ASSUME TypeInv, CallerInv, [Next]_vars, Threads = {Root}
  PROVE  CallerInv'
<1> USE DEF TypeInv, Types, ControlOK, InHand, CallerInv, NoneLost, OverForGood, States, Over,
            vars, threadVars, stopVars, SpendYield
<1>0. ASSUME NEW c \in Tasks, NEW u \in Pins \cup {AnyThread}
      PROVE  Push(c, u) => QTasks(queue') = QTasks(queue) \cup {c}
  <2>1. [task |-> c, tid |-> u] \in Entry
    BY DEF Entry
  <2> QED BY <2>1, AppendFacts DEF Push
<1>1. ASSUME NEW c \in Tasks, NEW u \in Pins, ScheduleNew(c, u)
      PROVE  CallerInv'
  BY <1>1, <1>0 DEF ScheduleNew
<1>2. CASE Start
  BY <1>2 DEF Start, Workers
<1>3. CASE StopCall
  BY <1>3 DEF StopCall
<1>4. CASE StopClearRunning
  BY <1>4 DEF StopClearRunning
<1>5. CASE StopReadWaits
  BY <1>5 DEF StopReadWaits
<1>6. CASE StopCallRoot
  BY <1>6 DEF StopCallRoot
<1>7. CASE StopRootBack \/ StopJoin \/ UNCHANGED vars
  BY <1>7 DEF StopRootBack, StopJoin
<1>8. CASE Body(Root)
  <2>1. CASE YieldToReady(Root)
    BY <2>1 DEF YieldToReady
  <2>2. CASE ArmWait(Root)
    BY <2>2 DEF ArmWait
  <2>3. ASSUME NEW u \in Pins, SwitchTo(Root, u)
        PROVE  CallerInv'
    BY <2>3, <1>0 DEF SwitchTo
  <2>4. CASE YieldToHold(Root)
    BY <2>4 DEF YieldToHold
  <2>5. ASSUME NEW c \in Tasks, NEW u \in Pins, Spawn(Root, c, u)
        PROVE  CallerInv'
    BY <2>5, <1>0 DEF Spawn
  <2>6. ASSUME NEW s \in Over, Finish(Root, s)
        PROVE  CallerInv'
    BY <2>6 DEF Finish
  <2> QED BY <1>8, <2>1, <2>2, <2>3, <2>4, <2>5, <2>6 DEF Body
<1>9. CASE Run(Root)
  <2>1. CASE PickTask(Root)
    <3>1. PICK i \in 1..Len(queue) :
             /\ cur' = [cur EXCEPT ![Root] = queue[i].task]
             /\ queue' = Erase(queue, i)
      BY <2>1 DEF PickTask, Candidates
    <3>2. QTasks(queue) \ {queue[i].task} \subseteq QTasks(queue')
      BY <3>1, EraseFacts
    <3>3. queue[i].task \in QTasks(queue)
      BY DEF QTasks
    <3> QED BY <2>1, <3>1, <3>2, <3>3 DEF PickTask
  <2>2. CASE PickNone(Root)
    BY <2>2 DEF PickNone
  <2>3. CASE Dispatch(Root)
    <3>1. CASE state[cur[Root]] \in Over
      BY <2>3, <3>1 DEF Dispatch
    <3>2. CASE state[cur[Root]] \notin Over
      BY <2>3, <3>2 DEF Dispatch
    <3> QED BY <3>1, <3>2
  <2>4. CASE SwapOut(Root) \/ AfterSwap(Root)
    BY <2>4 DEF SwapOut, AfterSwap
  <2>5. CASE Post(Root)
    <3>1. CASE state[cur[Root]] = "READY"
      BY <2>5, <3>1, <1>0 DEF Post
    <3>2. CASE state[cur[Root]] # "READY"
      BY <2>5, <3>2 DEF Post
    <3> QED BY <3>1, <3>2
  <2>6. CASE SetHold(Root)
    BY <2>6 DEF SetHold
  <2> QED BY <1>9, <2>1, <2>2, <2>3, <2>4, <2>5, <2>6 DEF Run
<1>10. CASE Idle(Root)
  <2>1. CASE IdleReadWaits(Root)
    BY <2>1 DEF IdleReadWaits
  <2>2. CASE IdleCheck(Root)
    <3>1. queue = <<>> => QTasks(queue) = {}
      BY DEF QTasks
    <3>2. CASE noWaits[Root] /\ Stopping
      BY <2>2, <3>1, <3>2 DEF IdleCheck, Stopping
    <3>3. CASE ~(noWaits[Root] /\ Stopping)
      BY <2>2, <3>3 DEF IdleCheck
    <3> QED BY <3>2, <3>3
  <2>3. ASSUME NEW c \in Tasks, PollWake(Root, c)
        PROVE  CallerInv'
    BY <2>3 DEF PollWake
  <2>4. CASE Wake(Root)
    BY <2>4, <1>0 DEF Wake
  <2>5. CASE PollDone(Root)
    BY <2>5 DEF PollDone
  <2> QED BY <1>10, <2>1, <2>2, <2>3, <2>4, <2>5 DEF Idle
<1> QED BY <1>1, <1>2, <1>3, <1>4, <1>5, <1>6, <1>7, <1>8, <1>9, <1>10
        DEF Next, Stop, ThreadStep

\* A scheduler whose tasks the creating thread runs by itself leaves none of them
\* behind: when stop() has returned all of them are over, for any number of tasks.
\* (With two threads it may leave one, see the README.)
THEOREM CleanStopCorrect == Threads = {Root} => (Spec => []CleanStop)
<1> SUFFICES ASSUME Threads = {Root} PROVE Spec => []CleanStop
  OBVIOUS
<1>1. Init => CallerInv
  <2>1. ASSUME Init PROVE QTasks(queue) = {} /\ CallerInv
    BY <2>1 DEF Init, QTasks, CallerInv, NoneLost, OverForGood
  <2> QED BY <2>1
<1>2. TypeInv /\ CallerInv /\ [Next]_vars => CallerInv'
  BY CallerStep
<1>3. TypeInv /\ CallerInv => CleanStop
  <2> SUFFICES ASSUME TypeInv, CallerInv, Stopped, NEW c \in created PROVE state[c] \in Over
    BY DEF CleanStop
  <2>1. pc[Root] = "exited"
    BY DEF Stopped
  <2>2. cur[Root] # c /\ c \notin QTasks(queue) /\ c \notin waiting
    BY <2>1 DEF TypeInv, Types, ControlOK, InHand, CallerInv, OverForGood
  <2> QED BY <2>2 DEF CallerInv, NoneLost
<1> QED BY <1>1, <1>2, <1>3, BaseInvariant, PTL DEF Spec
=============================================================================
