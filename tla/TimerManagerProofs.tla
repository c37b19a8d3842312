------------------------- MODULE TimerManagerProofs -------------------------
(***************************************************************************)
(* Proofs about the timers, for every set of timers and of threads and     *)
(* every interval.                                                         *)
(***************************************************************************)
EXTENDS TimerManager, WellFoundedInduction, TLAPS

\* A timer's deadline is at least its interval, counted from when the clock was
\* zero; a timer in the set was created.
NextInv ==
    /\ \A x \in Timers : ms[x] <= next[x]
    /\ timers \subseteq created

\* A one-shot timer in the set was neither handed out nor cancelled, and one that
\* was is not put back.
ShotInv ==
    \A x \in Timers :
        /\ x \in timers \/ x \notin created => runs[x] = 0 /\ x \notin cancelled
        /\ runs[x] <= 1 /\ (x \in cancelled => runs[x] = 0)

\* As long as the clock is not set back no clock that was read lies ahead of it,
\* and no timer is due later than its interval from now.
ClockInv ==
    ~setBack =>
        /\ \A t \in Threads : nowMs[t] <= now
        /\ \A x \in timers : next[x] <= now + ms[x]
        /\ \A x \in timers : ms[x] \in Delays

\* Somebody will call getNextTimer() before long: an announcement is due or in the
\* pipe, or a thread is awake.
Stirring == notify \/ pipe = "edge" \/ \E t \in Threads : pc[t] # "sleep"

\* m_tickled promises no more than that.
TickledInv == tickled => Stirring

\* t sleeps no longer than until the first timer is due.
Guards(t) ==
    /\ pc[t] = "sleep" /\ 0 <= left[t]
    /\ \A x \in timers : left[t] = 0 \/ now + left[t] <= next[x]

\* Somebody is stirring, or a thread guards the timers.
GuardInv == ~setBack /\ timers # {} => Stirring \/ \E t \in Threads : Guards(t)

-----------------------------------------------------------------------------
\* The initial values have their types.
LEMMA TimerTypeInit == Init => TypeOK /\ NextInv
<1> SUFFICES ASSUME Init PROVE TypeOK /\ NextInv
  OBVIOUS
<1>1. /\ setBack \in BOOLEAN /\ tickled \in BOOLEAN /\ notify \in BOOLEAN
      /\ sawPipe \in [Threads -> BOOLEAN]
  BY Zenon DEF Init
<1>2. /\ now \in Nat /\ previous \in Nat /\ next \in [Timers -> Nat]
      /\ ms \in [Timers -> Nat] /\ runs \in [Timers -> Nat]
      /\ left \in [Threads -> Int] /\ nowMs \in [Threads -> Nat]
      /\ pc \in [Threads -> {"busy"} \cup IdlePcs]
  BY DEF Init
<1>3. NextInv
  BY DEF Init, NextInv
<1> QED
  BY <1>1, <1>2, <1>3 DEF Init, TypeOK

\* A non-empty set of natural numbers has a least element.
LEMMA LeastNat ==
  ASSUME NEW S \in SUBSET Nat, S # {}
  PROVE  \E m \in S : \A k \in S : m <= k
<1>1. PICK m \in S : \A k \in S : ~ (<<k, m>> \in OpToRel(<, Nat))
  BY NatLessThanWellFounded, WFMin
<1>2. \A k \in S : ~ (k < m)
  BY <1>1 DEF OpToRel
<1> QED
  BY <1>2

\* m_timers.begin() is a timer that is due first.
LEMMA LeastDeadline ==
  ASSUME TypeOK, timers # {}
  PROVE  /\ NextTimer \in Nat
         /\ \E x \in timers : NextTimer = next[x]
         /\ \A x \in timers : NextTimer <= next[x]
<1> DEFINE S == {next[x] : x \in timers}
<1>1. S \in SUBSET Nat /\ S # {}
  BY DEF TypeOK
<1>2. \E n \in S : \A k \in S : n <= k
  BY <1>1, LeastNat
<1>3. \E n \in S : \A x \in timers : n <= next[x]
  BY <1>2
<1>4. NextTimer \in S /\ \A x \in timers : NextTimer <= next[x]
  BY <1>3 DEF NextTimer
<1> QED
  BY <1>1, <1>4

\* Every step keeps the types.
LEMMA TimerTypeStep == TypeOK /\ NextInv /\ [Next]_vars => (TypeOK /\ NextInv)'
<1> SUFFICES ASSUME TypeOK, NextInv, [Next]_vars PROVE (TypeOK /\ NextInv)'
  OBVIOUS
<1> USE TimerAssumption DEF TypeOK, NextInv, IdlePcs, clock, timerVars, threadVars
<1>1. CASE Tick
  BY <1>1 DEF Tick
<1>2. ASSUME NEW d \in ClockBacks, SetClockBack(d) PROVE (TypeOK /\ NextInv)'
  BY <1>2 DEF SetClockBack
<1>3. ASSUME NEW x \in Timers, NEW d \in Delays, NEW rec \in BOOLEAN, AddTimer(x, d, rec) PROVE (TypeOK /\ NextInv)'
  <2>1. tickled' \in BOOLEAN /\ notify' \in BOOLEAN
    <3>1. Insert(x, now + d)
      BY <1>3 DEF AddTimer
    <3>2. CASE tickled' = TRUE /\ notify' = (notify \/ ~tickled)
      BY <3>2, Zenon
    <3>3. CASE UNCHANGED <<tickled, notify>>
      BY <3>3
    <3> QED
      BY <3>1, <3>2, <3>3 DEF Insert
  <2>2. /\ now + d \in Nat /\ d \in Nat
        /\ next' = [next EXCEPT ![x] = now + d] /\ timers' = timers \cup {x}
    BY <1>3 DEF AddTimer, Insert
  <2>3. next' \in [Timers -> Nat] /\ ms' \in [Timers -> Nat]
        /\ \A y \in Timers : ms'[y] <= next'[y]
    BY <1>3, <2>2 DEF AddTimer
  <2> QED
    BY <1>3, <2>1, <2>2, <2>3 DEF AddTimer
<1>4. ASSUME NEW x \in Timers, Cancel(x) PROVE (TypeOK /\ NextInv)'
  BY <1>4 DEF Cancel
<1>5. ASSUME NEW x \in Timers, Refresh(x) PROVE (TypeOK /\ NextInv)'
  BY <1>5 DEF Refresh
<1>6. ASSUME NEW x \in Timers, NEW d \in Delays, NEW fromNow \in BOOLEAN, Reset(x, d, fromNow) PROVE (TypeOK /\ NextInv)'
  <2>1. tickled' \in BOOLEAN /\ notify' \in BOOLEAN
    <3>1. Insert(x, (IF fromNow THEN now ELSE next[x] - ms[x]) + d)
      BY <1>6 DEF Reset
    <3>2. CASE tickled' = TRUE /\ notify' = (notify \/ ~tickled)
      BY <3>2, Zenon
    <3>3. CASE UNCHANGED <<tickled, notify>>
      BY <3>3
    <3> QED
      BY <3>1, <3>2, <3>3 DEF Insert
  <2> DEFINE n == (IF fromNow THEN now ELSE next[x] - ms[x]) + d
  <2>2. n \in Nat /\ d \in Nat /\ d <= n
    OBVIOUS
  <2> HIDE DEF n
  <2>3. next' = [next EXCEPT ![x] = n] /\ timers' = timers
    BY <1>6 DEF Reset, Insert, n
  <2>4. next' \in [Timers -> Nat] /\ ms' \in [Timers -> Nat]
        /\ \A y \in Timers : ms'[y] <= next'[y]
    BY <1>6, <2>2, <2>3 DEF Reset
  <2> QED
    BY <1>6, <2>1, <2>3, <2>4 DEF Reset
<1>7. CASE Notify
  BY <1>7 DEF Notify
<1>8. ASSUME NEW t \in Threads, GoIdle(t) PROVE (TypeOK /\ NextInv)'
  BY <1>8 DEF GoIdle
<1>9. ASSUME NEW t \in Threads, Sleep(t) PROVE (TypeOK /\ NextInv)'
  <2> DEFINE n == IF timers = {} THEN MaxTimeout ELSE EpollTimeout(TimeToNext)
  <2>1. n \in Int
    <3>1. timers # {} => TimeToNext \in Int
      <4>1. ASSUME timers # {} PROVE NextTimer \in Nat
        BY <4>1, LeastDeadline
      <4> QED
        BY <4>1 DEF TimeToNext
    <3>2. \A k \in Int : EpollTimeout(k) \in Int
      BY DEF EpollTimeout, CInt
    <3> QED
      BY <3>1, <3>2
  <2> HIDE DEF n
  <2>2. left' = [left EXCEPT ![t] = n]
    BY <1>9 DEF Sleep, n
  <2>3. left' \in [Threads -> Int]
    BY <2>1, <2>2
  <2> QED
    BY <1>9, <2>3 DEF Sleep
<1>10. ASSUME NEW t \in Threads, Wake(t) PROVE (TypeOK /\ NextInv)'
  <2>1. sawPipe' \in [Threads -> BOOLEAN]
    BY <1>10, Zenon DEF Wake
  <2> QED
    BY <1>10, <2>1 DEF Wake
<1>11. ASSUME NEW t \in Threads, ReadClock(t) PROVE (TypeOK /\ NextInv)'
  BY <1>11 DEF ReadClock
<1>12. ASSUME NEW t \in Threads, ListExpired(t) PROVE (TypeOK /\ NextInv)'
  BY <1>12 DEF ListExpired, Expired
<1>13. ASSUME NEW t \in Threads, Drain(t) PROVE (TypeOK /\ NextInv)'
  BY <1>13 DEF Drain
<1>14. CASE UNCHANGED vars
  BY <1>14 DEF vars
<1> QED
  BY <1>1, <1>2, <1>3, <1>4, <1>5, <1>6, <1>7, <1>8, <1>9, <1>10, <1>11, <1>12,
     <1>13, <1>14 DEF Next, TimerOp, Thread

\* A one-shot timer is handed out when it leaves the set, and does not return.
LEMMA ShotStep == TypeOK /\ NextInv /\ ShotInv /\ [Next]_vars => ShotInv'
<1> SUFFICES ASSUME TypeOK, NextInv, ShotInv, [Next]_vars PROVE ShotInv'
  OBVIOUS
<1> USE DEF TypeOK, NextInv, ShotInv, clock, timerVars, threadVars
<1>1. CASE Tick
  BY <1>1 DEF Tick
<1>2. ASSUME NEW d \in ClockBacks, SetClockBack(d) PROVE ShotInv'
  BY <1>2 DEF SetClockBack
<1>3. ASSUME NEW x \in Timers, NEW d \in Delays, NEW rec \in BOOLEAN, AddTimer(x, d, rec) PROVE ShotInv'
  BY <1>3 DEF AddTimer, Insert
<1>4. ASSUME NEW x \in Timers, Cancel(x) PROVE ShotInv'
  BY <1>4 DEF Cancel
<1>5. ASSUME NEW x \in Timers, Refresh(x) PROVE ShotInv'
  BY <1>5 DEF Refresh
<1>6. ASSUME NEW x \in Timers, NEW d \in Delays, NEW fromNow \in BOOLEAN, Reset(x, d, fromNow) PROVE ShotInv'
  BY <1>6 DEF Reset, Insert
<1>7. CASE Notify
  BY <1>7 DEF Notify
<1>8. ASSUME NEW t \in Threads, GoIdle(t) PROVE ShotInv'
  BY <1>8 DEF GoIdle
<1>9. ASSUME NEW t \in Threads, Sleep(t) PROVE ShotInv'
  BY <1>9 DEF Sleep
<1>10. ASSUME NEW t \in Threads, Wake(t) PROVE ShotInv'
  BY <1>10 DEF Wake
<1>11. ASSUME NEW t \in Threads, ReadClock(t) PROVE ShotInv'
  BY <1>11 DEF ReadClock
<1>12. ASSUME NEW t \in Threads, ListExpired(t) PROVE ShotInv'
  BY <1>12 DEF ListExpired, Expired
<1>13. ASSUME NEW t \in Threads, Drain(t) PROVE ShotInv'
  BY <1>13 DEF Drain
<1>14. CASE UNCHANGED vars
  BY <1>14 DEF vars
<1> QED
  BY <1>1, <1>2, <1>3, <1>4, <1>5, <1>6, <1>7, <1>8, <1>9, <1>10, <1>11, <1>12,
     <1>13, <1>14 DEF Next, TimerOp, Thread

-----------------------------------------------------------------------------
\* As long as the clock is not set back, no timer moves further away than its
\* interval.
LEMMA ClockStep == TypeOK /\ NextInv /\ ClockInv /\ [Next]_vars => ClockInv'
<1> SUFFICES ASSUME TypeOK, NextInv, ClockInv, [Next]_vars PROVE ClockInv'
  OBVIOUS
<1> USE TimerAssumption DEF TypeOK, NextInv, ClockInv, clock, timerVars, threadVars
<1>1. CASE Tick
  BY <1>1 DEF Tick
<1>2. ASSUME NEW d \in ClockBacks, SetClockBack(d) PROVE ClockInv'
  BY <1>2 DEF SetClockBack
<1>3. ASSUME NEW x \in Timers, NEW d \in Delays, NEW rec \in BOOLEAN, AddTimer(x, d, rec) PROVE ClockInv'
  BY <1>3 DEF AddTimer, Insert
<1>4. ASSUME NEW x \in Timers, Cancel(x) PROVE ClockInv'
  BY <1>4 DEF Cancel
<1>5. ASSUME NEW x \in Timers, Refresh(x) PROVE ClockInv'
  BY <1>5 DEF Refresh
<1>6. ASSUME NEW x \in Timers, NEW d \in Delays, NEW fromNow \in BOOLEAN, Reset(x, d, fromNow) PROVE ClockInv'
  BY <1>6 DEF Reset, Insert
<1>7. CASE Notify
  BY <1>7 DEF Notify
<1>8. ASSUME NEW t \in Threads, GoIdle(t) PROVE ClockInv'
  BY <1>8 DEF GoIdle
<1>9. ASSUME NEW t \in Threads, Sleep(t) PROVE ClockInv'
  BY <1>9 DEF Sleep
<1>10. ASSUME NEW t \in Threads, Wake(t) PROVE ClockInv'
  BY <1>10 DEF Wake
<1>11. ASSUME NEW t \in Threads, ReadClock(t) PROVE ClockInv'
  BY <1>11 DEF ReadClock
<1>12. ASSUME NEW t \in Threads, ListExpired(t) PROVE ClockInv'
  BY <1>12 DEF ListExpired, Expired
<1>13. ASSUME NEW t \in Threads, Drain(t) PROVE ClockInv'
  BY <1>13 DEF Drain
<1>14. CASE UNCHANGED vars
  BY <1>14 DEF vars
<1> QED
  BY <1>1, <1>2, <1>3, <1>4, <1>5, <1>6, <1>7, <1>8, <1>9, <1>10, <1>11, <1>12,
     <1>13, <1>14 DEF Next, TimerOp, Thread

\* m_tickled is only set while somebody is stirring, and who goes to sleep clears
\* it.
LEMMA TickledStep == TypeOK /\ TickledInv /\ [Next]_vars => TickledInv'
<1> SUFFICES ASSUME TypeOK, TickledInv, [Next]_vars PROVE TickledInv'
  OBVIOUS
<1> USE TimerAssumption DEF TypeOK, TickledInv, Stirring, clock, timerVars, threadVars
<1>1. CASE Tick
  BY <1>1 DEF Tick
<1>2. ASSUME NEW d \in ClockBacks, SetClockBack(d) PROVE TickledInv'
  BY <1>2 DEF SetClockBack
<1>3. ASSUME NEW x \in Timers, NEW d \in Delays, NEW rec \in BOOLEAN, AddTimer(x, d, rec) PROVE TickledInv'
  <2>1. CASE tickled' = TRUE /\ notify' = (notify \/ ~tickled)
    BY <1>3, <2>1 DEF AddTimer
  <2>2. CASE UNCHANGED <<tickled, notify>>
    BY <1>3, <2>2 DEF AddTimer
  <2> QED
    BY <1>3, <2>1, <2>2 DEF AddTimer, Insert
<1>4. ASSUME NEW x \in Timers, Cancel(x) PROVE TickledInv'
  BY <1>4 DEF Cancel
<1>5. ASSUME NEW x \in Timers, Refresh(x) PROVE TickledInv'
  BY <1>5 DEF Refresh
<1>6. ASSUME NEW x \in Timers, NEW d \in Delays, NEW fromNow \in BOOLEAN, Reset(x, d, fromNow) PROVE TickledInv'
  <2>1. CASE tickled' = TRUE /\ notify' = (notify \/ ~tickled)
    BY <1>6, <2>1 DEF Reset
  <2>2. CASE UNCHANGED <<tickled, notify>>
    BY <1>6, <2>2 DEF Reset
  <2> QED
    BY <1>6, <2>1, <2>2 DEF Reset, Insert
<1>7. CASE Notify
  BY <1>7 DEF Notify, HasIdleThreads, IdlePcs
<1>8. ASSUME NEW t \in Threads, GoIdle(t) PROVE TickledInv'
  BY <1>8 DEF GoIdle
<1>9. ASSUME NEW t \in Threads, Sleep(t) PROVE TickledInv'
  BY <1>9 DEF Sleep
<1>10. ASSUME NEW t \in Threads, Wake(t) PROVE TickledInv'
  BY <1>10 DEF Wake
<1>11. ASSUME NEW t \in Threads, ReadClock(t) PROVE TickledInv'
  BY <1>11 DEF ReadClock
<1>12. ASSUME NEW t \in Threads, ListExpired(t) PROVE TickledInv'
  BY <1>12 DEF ListExpired, Expired
<1>13. ASSUME NEW t \in Threads, Drain(t) PROVE TickledInv'
  BY <1>13 DEF Drain
<1>14. CASE UNCHANGED vars
  BY <1>14 DEF vars
<1> QED
  BY <1>1, <1>2, <1>3, <1>4, <1>5, <1>6, <1>7, <1>8, <1>9, <1>10, <1>11, <1>12,
     <1>13, <1>14 DEF Next, TimerOp, Thread

\* Every interval fits into the int that epoll_wait takes.
SmallDelays == \A d \in Delays : d < IntRange \div 2

\* Then the sleep of a thread that saw the timers ends when the first is due, or
\* before.
LEMMA SleepBound ==
  ASSUME SmallDelays, TypeOK, ClockInv, ~setBack, timers # {}
  PROVE  /\ EpollTimeout(TimeToNext) \in Int
         /\ 0 <= EpollTimeout(TimeToNext) /\ EpollTimeout(TimeToNext) <= TimeToNext
<1>1. PICK x \in timers : NextTimer = next[x]
  BY LeastDeadline
<1>2. /\ next[x] \in Nat /\ now \in Nat /\ ms[x] \in Nat
      /\ next[x] <= now + ms[x] /\ ms[x] < IntRange \div 2
  BY <1>1 DEF TypeOK, ClockInv, SmallDelays
<1>4. IntRange \in Nat /\ IntRange > 0 /\ IntRange \div 2 \in Nat /\ IntRange \div 2 <= IntRange
  BY TimerAssumption
<1>3. TimeToNext \in Nat /\ TimeToNext < IntRange \div 2
  BY <1>1, <1>2, <1>4 DEF TimeToNext
<1>5. TimeToNext % IntRange = TimeToNext
  BY <1>3, <1>4
<1>6. CInt(TimeToNext) = TimeToNext
  BY <1>3, <1>5 DEF CInt
<1> QED
  BY <1>3, <1>6, TimerAssumption DEF EpollTimeout

\* With such intervals every step leaves somebody stirring, or a guard.
LEMMA GuardStep ==
  ASSUME SmallDelays
  PROVE  TypeOK /\ NextInv /\ ClockInv /\ TickledInv /\ GuardInv /\ [Next]_vars => GuardInv'
<1> SUFFICES ASSUME TypeOK, NextInv, ClockInv, TickledInv, GuardInv, [Next]_vars PROVE GuardInv'
  OBVIOUS
<1> USE TimerAssumption DEF TypeOK, NextInv, clock, timerVars, threadVars
<1>1. CASE Tick
  <2>1. \A t \in Threads : Guards(t) => Guards(t)'
    BY <1>1 DEF Tick, Guards
  <2> QED
    BY <1>1, <2>1 DEF Tick, Stirring, GuardInv
<1>2. ASSUME NEW d \in ClockBacks, SetClockBack(d) PROVE GuardInv'
  BY <1>2 DEF SetClockBack, GuardInv
<1>3. ASSUME NEW x \in Timers, NEW d \in Delays, NEW rec \in BOOLEAN, AddTimer(x, d, rec) PROVE GuardInv'
  <2>1. CASE tickled' = TRUE /\ notify' = (notify \/ ~tickled)
    BY <1>3, <2>1 DEF AddTimer, TickledInv, Stirring, GuardInv
  <2>2. CASE (\E y \in timers \ {x} : next[y] <= now + d) /\ UNCHANGED <<tickled, notify>>
    BY <1>3, <2>2 DEF AddTimer, Insert, Stirring, GuardInv, Guards
  <2> QED
    BY <1>3, <2>1, <2>2 DEF AddTimer, Insert
<1>4. ASSUME NEW x \in Timers, Cancel(x) PROVE GuardInv'
  <2>1. \A t \in Threads : Guards(t) => Guards(t)'
    BY <1>4 DEF Cancel, Guards
  <2> QED
    BY <1>4, <2>1 DEF Cancel, Stirring, GuardInv
<1>5. ASSUME NEW x \in Timers, Refresh(x) PROVE GuardInv'
  <2> SUFFICES ASSUME ~setBack PROVE GuardInv'
    BY <1>5 DEF Refresh, GuardInv
  <2>1. next' = [next EXCEPT ![x] = now + ms[x]] /\ next[x] <= now + ms[x]
    BY <1>5 DEF Refresh, ClockInv
  <2>2. \A t \in Threads : Guards(t) => Guards(t)'
    BY <1>5, <2>1 DEF Refresh, Guards
  <2> QED
    BY <1>5, <2>2 DEF Refresh, Stirring, GuardInv
<1>6. ASSUME NEW x \in Timers, NEW d \in Delays, NEW fromNow \in BOOLEAN, Reset(x, d, fromNow) PROVE GuardInv'
  <2> DEFINE n == (IF fromNow THEN now ELSE next[x] - ms[x]) + d
  <2>0. n \in Nat
    OBVIOUS
  <2> HIDE DEF n
  <2>a. /\ Insert(x, n) /\ x \in timers
        /\ UNCHANGED <<clock, pipe, threadVars>>
    BY <1>6 DEF Reset, n
  <2>1. CASE tickled' = TRUE /\ notify' = (notify \/ ~tickled)
    BY <2>a, <2>1 DEF TickledInv, Stirring, GuardInv
  <2>2. CASE (\E y \in timers \ {x} : next[y] <= n) /\ UNCHANGED <<tickled, notify>>
    <3>1. \A t \in Threads : Guards(t) => Guards(t)'
      BY <2>0, <2>a, <2>2 DEF Insert, Guards
    <3> QED
      BY <2>a, <2>2, <3>1 DEF Insert, Stirring, GuardInv
  <2> QED
    BY <2>a, <2>1, <2>2 DEF Insert
<1>7. CASE Notify
  <2>1. Stirring'
    <3>1. CASE HasIdleThreads
      BY <1>7, <3>1 DEF Notify, Stirring
    <3>2. CASE ~HasIdleThreads
      <4>1. PICK t \in Threads : pc[t] \notin IdlePcs
        BY <3>2, TimerAssumption DEF HasIdleThreads
      <4>2. pc'[t] # "sleep"
        BY <1>7, <4>1 DEF Notify, IdlePcs
      <4> QED
        BY <4>2 DEF Stirring
    <3> QED
      BY <3>1, <3>2
  <2> QED
    BY <2>1 DEF GuardInv
<1>8. ASSUME NEW t \in Threads, GoIdle(t) PROVE GuardInv'
  <2>1. pc'[t] # "sleep"
    BY <1>8 DEF GoIdle
  <2> QED
    BY <2>1 DEF Stirring, GuardInv
<1>9. ASSUME NEW t \in Threads, Sleep(t) PROVE GuardInv'
  <2> SUFFICES ASSUME ~setBack, timers # {} PROVE \E u \in Threads : Guards(u)'
    BY <1>9 DEF Sleep, GuardInv
  <2> DEFINE n == EpollTimeout(TimeToNext)
  <2>1. n \in Int /\ 0 <= n /\ n <= TimeToNext
    BY SleepBound
  <2> HIDE DEF n
  <2>2. left'[t] = n /\ pc'[t] = "sleep" /\ UNCHANGED <<now, timers, next>>
    BY <1>9 DEF Sleep, n
  <2>3. ASSUME NEW x \in timers PROVE n = 0 \/ now + n <= next[x]
    <3>1. NextTimer \in Nat /\ NextTimer <= next[x] /\ next[x] \in Nat
      BY LeastDeadline
    <3> QED
      BY <2>1, <3>1 DEF TimeToNext
  <2> QED
    BY <2>1, <2>2, <2>3 DEF Guards
<1>10. ASSUME NEW t \in Threads, Wake(t) PROVE GuardInv'
  <2>1. pc'[t] # "sleep"
    BY <1>10 DEF Wake
  <2> QED
    BY <2>1 DEF Stirring, GuardInv
<1>11. ASSUME NEW t \in Threads, ReadClock(t) PROVE GuardInv'
  <2>1. pc'[t] # "sleep"
    BY <1>11 DEF ReadClock
  <2> QED
    BY <2>1 DEF Stirring, GuardInv
<1>12. ASSUME NEW t \in Threads, ListExpired(t) PROVE GuardInv'
  <2>1. pc'[t] # "sleep"
    BY <1>12 DEF ListExpired
  <2> QED
    BY <2>1 DEF Stirring, GuardInv
<1>13. ASSUME NEW t \in Threads, Drain(t) PROVE GuardInv'
  <2>1. pc'[t] # "sleep"
    BY <1>13 DEF Drain
  <2> QED
    BY <2>1 DEF Stirring, GuardInv
<1>14. CASE UNCHANGED vars
  BY <1>14 DEF vars, GuardInv, Stirring, Guards
<1> QED
  BY <1>1, <1>2, <1>3, <1>4, <1>5, <1>6, <1>7, <1>8, <1>9, <1>10, <1>11, <1>12,
     <1>13, <1>14 DEF Next, TimerOp, Thread

-----------------------------------------------------------------------------
\* Every variable keeps its type, and a timer in m_timers has its callback.
THEOREM TimerTypes == Spec => []TypeOK
<1>1. TypeOK /\ NextInv /\ [Next]_vars => TypeOK' /\ NextInv'
  BY TimerTypeStep
<1> QED
  BY TimerTypeInit, <1>1, PTL DEF Spec

\* The callback of a one-shot timer is handed out at most once, and never after
\* cancel() returned true, however many threads list expired timers and whatever
\* the clock does.
THEOREM OneShotOnceHolds == Spec => []OneShotOnce
<1>1. Init => ShotInv
  BY DEF Init, ShotInv
<1>2. TypeOK /\ NextInv /\ ShotInv /\ [Next]_vars => TypeOK' /\ NextInv' /\ ShotInv'
  BY TimerTypeStep, ShotStep
<1>3. ShotInv => OneShotOnce
  BY DEF ShotInv, OneShotOnce
<1> QED
  BY TimerTypeInit, <1>1, <1>2, <1>3, PTL DEF Spec

\* If every interval fits into an int, no set of sleeping threads oversleeps the
\* first timer while the clock is not set back: m_tickled never saves an
\* announcement that is needed.
THEOREM NoOversleepHolds == ASSUME SmallDelays PROVE Spec => []NoOversleep
<1> DEFINE I == TypeOK /\ NextInv /\ ClockInv /\ TickledInv /\ GuardInv
<1>1. Init => I
  <2> SUFFICES ASSUME Init PROVE I
    OBVIOUS
  <2>1. ClockInv /\ TickledInv /\ GuardInv
    BY DEF Init, ClockInv, TickledInv, GuardInv
  <2> QED
    BY <2>1, TimerTypeInit
<1>2. I /\ [Next]_vars => I'
  BY TimerTypeStep, ClockStep, TickledStep, GuardStep
<1>3. I => NoOversleep
  <2> SUFFICES ASSUME I, ~setBack, \A t \in Threads : pc[t] = "sleep",
                      timers # {}, ~notify, pipe # "edge"
      PROVE  \E t \in Threads : 0 <= left[t] /\ left[t] <= TimeToNext
    BY DEF NoOversleep
  <2>1. PICK t \in Threads : Guards(t)
    BY DEF GuardInv, Stirring
  <2>2. PICK x \in timers : NextTimer = next[x]
    BY LeastDeadline
  <2>3. /\ left[t] \in Int /\ 0 <= left[t] /\ next[x] \in Nat /\ now \in Nat
        /\ left[t] = 0 \/ now + left[t] <= next[x]
    BY <2>1, <2>2 DEF Guards, TypeOK
  <2> QED
    BY <2>2, <2>3 DEF TimeToNext
<1> QED
  BY <1>1, <1>2, <1>3, PTL DEF Spec
=============================================================================
