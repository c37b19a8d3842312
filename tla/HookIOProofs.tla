---------------------------- MODULE HookIOProofs ----------------------------
(***************************************************************************)
(* Proofs about the hooked calls, for every timeout, any number of calls   *)
(* and threads, whether or not epoll_ctl fails.                            *)
(***************************************************************************)
EXTENDS HookIO, TLAPS

HookTypeOK ==
    /\ pc \in {"idle", "try", "armed", "wait", "woken"}
    /\ kind \in Kinds
    /\ timed \in BOOLEAN
    /\ call \in Nat
    /\ attempt \in Nat
    /\ elapsed \in 0 .. Timeout
    /\ slot \in BOOLEAN
    /\ timer \in -1 .. Timeout
    /\ cbs \subseteq Nat \X Nat
    /\ locked \subseteq Nat \X Nat
    /\ running \subseteq Nat \X Nat
    /\ cancelled \subseteq Nat

\* The calls that have a callback somewhere, or had one that set timer_info.
Fired == cancelled \cup {b[1] : b \in cbs \cup locked \cup running}

\* The event is registered only while the coroutine waits, and the timer only
\* runs in the course of a wait.
WaitInv ==
    /\ slot => pc = "wait"
    /\ pc \in {"idle", "try"} => timer = NoTimer

\* What remains of the timer and what the call has taken make up the timeout.
TimerInv == timer # NoTimer => timed /\ timer + elapsed >= Timeout

\* No callback is ahead of the calls, and one of the present call means that
\* the call's time is up.
FiredInv ==
    /\ \A n \in Fired : n <= call
    /\ call \in Fired => timed /\ elapsed = Timeout

HookInv == HookTypeOK /\ WaitInv /\ TimerInv /\ FiredInv /\ NoEarlyTimeout

-----------------------------------------------------------------------------
\* The invariant holds at the start.
LEMMA HookInit == Init /\ HookTypeOK => HookInv
<1> SUFFICES ASSUME Init, HookTypeOK PROVE HookInv
  OBVIOUS
<1>1. Fired = {}
  BY DEF Init, Fired
<1> QED
  BY <1>1 DEF Init, HookInv, WaitInv, TimerInv, FiredInv, NoEarlyTimeout, NoTimer

\* The initial values have their types.
LEMMA HookTypeInit == Init => HookTypeOK
<1> SUFFICES ASSUME Init PROVE HookTypeOK
  OBVIOUS
<1>1. elapsed \in 0 .. Timeout /\ timer \in -1 .. Timeout
  BY HookIOAssumption DEF Init, NoTimer
<1>2. call \in Nat /\ attempt \in Nat
  BY DEF Init
<1> QED
  BY <1>1, <1>2 DEF Init, HookTypeOK, Kinds

\* Every step keeps the types.
LEMMA HookTypeStep == HookTypeOK /\ [Next]_vars => HookTypeOK'
<1> SUFFICES ASSUME HookTypeOK, [Next]_vars PROVE HookTypeOK'
  OBVIOUS
<1> USE HookIOAssumption DEF HookTypeOK, NoTimer, callVars, cbVars
<1>1. CASE Tick
  BY <1>1 DEF Tick
<1>2. CASE PeerActs
  BY <1>2 DEF PeerActs
<1>3. ASSUME NEW k \in Kinds, NEW t \in BOOLEAN, Call(k, t) PROVE HookTypeOK'
  BY <1>3 DEF Call
<1>4. CASE TryDone
  BY <1>4 DEF TryDone, Return
<1>5. CASE TryAgain
  BY <1>5 DEF TryAgain
<1>6. CASE AddEvent
  BY <1>6 DEF AddEvent
<1>7. CASE AddEventFails
  BY <1>7 DEF AddEventFails, Return
<1>8. CASE Resume
  BY <1>8 DEF Resume, Return
<1>9. CASE Trigger
  BY <1>9 DEF Trigger, WakeWaiter
<1>10. CASE Expire
  BY <1>10 DEF Expire
<1>11. ASSUME NEW b \in cbs \cup locked \cup running, CallbackLocks(b)
       PROVE  HookTypeOK'
  BY <1>11 DEF CallbackLocks
<1>12. ASSUME NEW b \in cbs \cup locked \cup running, CallbackSets(b)
       PROVE  HookTypeOK'
  BY <1>12 DEF CallbackSets
<1>13. ASSUME NEW b \in cbs \cup locked \cup running, CallbackCancels(b)
       PROVE  HookTypeOK'
  BY <1>13 DEF CallbackCancels, WakeWaiter
<1>14. CASE UNCHANGED vars
  BY <1>14 DEF vars
<1> QED
  BY <1>1, <1>2, <1>3, <1>4, <1>5, <1>6, <1>7, <1>8, <1>9, <1>10, <1>11, <1>12,
     <1>13, <1>14 DEF Next, Coroutine, Callback

-----------------------------------------------------------------------------
\* Every step keeps the invariant.
LEMMA HookStep == HookInv /\ [Next]_vars => HookInv'
<1> SUFFICES ASSUME HookInv, [Next]_vars PROVE HookInv'
  OBVIOUS
<1>0. HookTypeOK /\ HookTypeOK'
  BY HookTypeStep DEF HookInv
<1> USE <1>0, HookIOAssumption
    DEF HookInv, HookTypeOK, WaitInv, TimerInv, FiredInv, NoEarlyTimeout, NoTimer,
        callVars, cbVars
<1>a. ASSUME UNCHANGED cbVars PROVE Fired' = Fired
  BY <1>a DEF Fired
<1>b. Fired \subseteq Nat
  BY DEF Fired
<1>1. CASE Tick
  BY <1>1, <1>a DEF Tick
<1>2. CASE PeerActs
  BY <1>2, <1>a DEF PeerActs
<1>3. ASSUME NEW k \in Kinds, NEW t \in BOOLEAN, Call(k, t) PROVE HookInv'
  <2>1. Fired' = Fired
    BY <1>3, <1>a DEF Call
  <2>2. call' = call + 1
    BY <1>3 DEF Call
  <2>3. FiredInv'
    BY <2>1, <2>2, <1>b
  <2> QED
    BY <1>3, <2>3 DEF Call
<1>4. CASE TryDone
  BY <1>4, <1>a DEF TryDone, Return
<1>5. CASE TryAgain
  BY <1>5, <1>a DEF TryAgain
<1>6. CASE AddEvent
  BY <1>6, <1>a DEF AddEvent
<1>7. CASE AddEventFails
  BY <1>7, <1>a DEF AddEventFails, Return, SocketError
<1>8. CASE Resume
  <2>1. call \in cancelled => call \in Fired
    BY DEF Fired
  <2> QED
    BY <1>8, <1>a, <2>1 DEF Resume, Return, SocketError
<1>9. CASE Trigger
  BY <1>9, <1>a DEF Trigger, WakeWaiter
<1>10. CASE Expire
  <2>1. Fired' \subseteq Fired \cup {call}
    <3>1. cbs' = cbs \cup {<<call, attempt>>}
      BY <1>10 DEF Expire
    <3>2. locked' = locked /\ running' = running /\ cancelled' = cancelled
      BY <1>10 DEF Expire
    <3> QED
      BY <3>1, <3>2 DEF Fired
  <2>2. timed /\ elapsed = Timeout
    BY <1>10 DEF Expire
  <2> QED
    BY <1>10, <2>1, <2>2 DEF Expire
<1>11. ASSUME NEW b \in cbs \cup locked \cup running, CallbackLocks(b)
       PROVE  HookInv'
  <2>1. Fired' \subseteq Fired
    BY <1>11 DEF CallbackLocks, Fired
  <2> QED
    BY <1>11, <2>1 DEF CallbackLocks
<1>12. ASSUME NEW b \in cbs \cup locked \cup running, CallbackSets(b)
       PROVE  HookInv'
  <2>1. Fired' \subseteq Fired
    BY <1>12 DEF CallbackSets, Fired
  <2> QED
    BY <1>12, <2>1 DEF CallbackSets
<1>13. ASSUME NEW b \in cbs \cup locked \cup running, CallbackCancels(b)
       PROVE  HookInv'
  <2>1. Fired' \subseteq Fired
    BY <1>13 DEF CallbackCancels, Fired
  <2> QED
    BY <1>13, <2>1 DEF CallbackCancels, WakeWaiter
<1>14. CASE UNCHANGED vars
  BY <1>14, <1>a DEF vars
<1> QED
  BY <1>1, <1>2, <1>3, <1>4, <1>5, <1>6, <1>7, <1>8, <1>9, <1>10, <1>11, <1>12,
     <1>13, <1>14 DEF Next, Coroutine, Callback

\* The inductive invariant holds in every state.
LEMMA HookInvariant == Spec => []HookInv
<1>1. Init => HookInv
  BY HookTypeInit, HookInit
<1> QED
  BY <1>1, HookStep, PTL DEF Spec

\* No callback of an earlier call ends a later one: a call that reports
\* ETIMEDOUT had a timeout and has taken it.
THEOREM NoEarlyTimeoutCorrect == Spec => []NoEarlyTimeout
<1>1. HookInv => NoEarlyTimeout
  BY DEF HookInv
<1> QED
  BY <1>1, HookInvariant, PTL

\* A call that has returned, on whatever path, has cancelled its timer and has
\* no event registered.
THEOREM CleanReturnCorrect == Spec => []CleanReturn
<1>1. HookInv => CleanReturn
  BY DEF HookInv, WaitInv, CleanReturn
<1> QED
  BY <1>1, HookInvariant, PTL
=============================================================================
