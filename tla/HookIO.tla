------------------------------- MODULE HookIO -------------------------------
(***************************************************************************)
(* The hooked system calls of src/src/net/hook.cpp: do_io(), behind read,  *)
(* write, accept, recv and send, and connect_with_timeout().  A coroutine  *)
(* makes one call after the other on one event of one descriptor; a call   *)
(* that would block arms a timer, registers the event and yields.  The     *)
(* timer's callback is a task of its own that may run on another thread.   *)
(*                                                                         *)
(* Calls are numbered: the number stands for the call's timer_info, which  *)
(* the callbacks hold weakly.  Time is what remains of a timer and what a  *)
(* call has taken so far.                                                  *)
(*                                                                         *)
(* The timeout of do_io() is the one in the FdCtx, which FdCtx::setTimeout *)
(* sets.  Socket::setRecvTimeout() does not get that far (see FdFlags), so *)
(* that in the program as it is only connect() has a timeout.              *)
(***************************************************************************)
EXTENDS Integers

CONSTANTS
    Timeout,       \* the timeout of a call that has one
    MaxCalls,      \* bound: the calls that the coroutine makes
    OneThread,     \* the IOManager has a single thread
    EpollCanFail   \* epoll_ctl, and with it addEvent, may fail

ASSUME HookIOAssumption ==
    /\ Timeout \in Nat /\ MaxCalls \in Nat
    /\ OneThread \in BOOLEAN /\ EpollCanFail \in BOOLEAN

Kinds == {"io", "connect"}
NoTimer == -1

VARIABLES
    pc,         \* the coroutine: between calls, trying, armed, waiting, woken
    kind,       \* the call it is in, or was in last
    timed,      \* whether that call has a timeout
    call,       \* its number
    attempt,    \* how often it has waited
    elapsed,    \* how long it has taken, up to Timeout
    result,     \* what the last call returned
    cond,       \* kernel: the state of the descriptor
    slot,       \* the event is registered, for the coroutine
    timer,      \* what remains of the call's timer; NoTimer
    cbs,        \* <<call, attempt>> whose timer expired: callbacks in the queue
    locked,     \* callbacks that hold the timer_info
    running,    \* callbacks that have set it
    cancelled   \* calls whose timer_info::cancelled is ETIMEDOUT

callVars == <<kind, timed, call, attempt>>
cbVars == <<cbs, locked, running, cancelled>>
vars == <<pc, callVars, elapsed, result, cond, slot, timer, cbVars>>

Init ==
    /\ pc = "idle"
    /\ kind = "io"
    /\ timed = FALSE
    /\ call = 0
    /\ attempt = 0
    /\ elapsed = 0
    /\ result = "none"
    /\ cond = "none"
    /\ slot = FALSE
    /\ timer = NoTimer
    /\ cbs = {}
    /\ locked = {}
    /\ running = {}
    /\ cancelled = {}

\* With one thread, a coroutine runs until it yields and a callback to its end.
CoroutineMayRun == OneThread => locked \cup running = {}
CallbackMayRun ==
    OneThread => locked \cup running = {} /\ pc \in {"idle", "wait", "woken"}

-----------------------------------------------------------------------------
(* The environment: time and the peer.                                     *)

Tick ==
    /\ timer' = IF timer > 0 THEN timer - 1 ELSE timer
    /\ elapsed' = IF pc # "idle" /\ elapsed < Timeout THEN elapsed + 1 ELSE elapsed
    /\ UNCHANGED <<pc, callVars, result, cond, slot, cbVars>>

\* Data arrives, or the connection is made; or it fails.
PeerActs ==
    /\ cond = "none"
    /\ cond' \in {"ready", "error"}
    /\ UNCHANGED <<pc, callVars, elapsed, result, slot, timer, cbVars>>

-----------------------------------------------------------------------------
(* The coroutine.                                                          *)

\* A call with a timer_info of its own.  connect() is called on a new socket,
\* which may have the number of the last one.
Call(k, t) ==
    /\ pc = "idle" /\ CoroutineMayRun
    /\ call < MaxCalls
    /\ call' = call + 1
    /\ attempt' = 0
    /\ kind' = k
    /\ timed' = t
    /\ elapsed' = 0
    /\ result' = "none"
    /\ cond' = IF k = "connect" THEN "none" ELSE cond
    /\ pc' = "try"
    /\ UNCHANGED <<slot, timer, cbVars>>

Return(r) ==
    /\ pc' = "idle"
    /\ result' = r

\* The system call does not block.
TryDone ==
    /\ pc = "try" /\ CoroutineMayRun
    /\ cond # "none"
    /\ Return(IF cond = "ready" THEN "ok" ELSE "error")
    /\ cond' = IF kind = "io" /\ cond = "ready" THEN "none" ELSE cond
    /\ UNCHANGED <<callVars, elapsed, slot, timer, cbVars>>

\* Mistake for the mutation tests: only a first attempt has a timer.
TryAgainUntimed ==
    /\ pc = "try" /\ CoroutineMayRun
    /\ cond = "none"
    /\ pc' = "armed"
    /\ UNCHANGED <<callVars, elapsed, result, cond, slot, timer, cbVars>>

\* EAGAIN or EINPROGRESS: addConditionTimer
TryAgain ==
    /\ pc = "try" /\ CoroutineMayRun
    /\ cond = "none"
    /\ attempt' = attempt + 1
    /\ timer' = IF timed THEN Timeout ELSE NoTimer
    /\ pc' = "armed"
    /\ UNCHANGED <<kind, timed, call, elapsed, result, cond, slot, cbVars>>

\* addEvent succeeds, and YieldToHold
AddEvent ==
    /\ pc = "armed" /\ CoroutineMayRun
    /\ slot' = TRUE
    /\ pc' = "wait"
    /\ UNCHANGED <<callVars, elapsed, result, cond, timer, cbVars>>

\* getsockopt(SO_ERROR) is 0 while the connection is still being made.
SocketError == IF cond = "error" THEN "error" ELSE "ok"

\* addEvent fails: do_io gives up, connect looks at the socket's error.
AddEventFails ==
    /\ EpollCanFail
    /\ pc = "armed" /\ CoroutineMayRun
    /\ timer' = NoTimer
    /\ Return(IF kind = "io" THEN "error" ELSE SocketError)
    /\ UNCHANGED <<callVars, elapsed, cond, slot, cbVars>>

\* Mistake for the mutation tests: timer->cancel() is forgotten.
ResumeKeepsTimer ==
    /\ pc = "woken" /\ CoroutineMayRun
    /\ \/ /\ call \in cancelled
          /\ Return("timeout")
       \/ /\ call \notin cancelled /\ kind = "io"
          /\ pc' = "try"
          /\ UNCHANGED result
       \/ /\ call \notin cancelled /\ kind = "connect"
          /\ Return(SocketError)
    /\ UNCHANGED <<callVars, elapsed, cond, slot, timer, cbVars>>

\* The coroutine runs again: timer->cancel(), which has no effect on a callback
\* that is already in the queue; then timer_info::cancelled is tested.
Resume ==
    /\ pc = "woken" /\ CoroutineMayRun
    /\ timer' = NoTimer
    /\ \/ /\ call \in cancelled
          /\ Return("timeout")
       \/ /\ call \notin cancelled /\ kind = "io"
          /\ pc' = "try"
          /\ UNCHANGED result
       \/ /\ call \notin cancelled /\ kind = "connect"
          /\ Return(SocketError)
    /\ UNCHANGED <<callVars, elapsed, cond, slot, cbVars>>

-----------------------------------------------------------------------------
(* The IOManager.                                                          *)

\* triggerEvent: the coroutine is scheduled.
WakeWaiter ==
    /\ slot' = FALSE
    /\ pc' = "woken"

\* idle() finds the descriptor ready.
Trigger ==
    /\ slot /\ cond # "none"
    /\ CallbackMayRun
    /\ WakeWaiter
    /\ UNCHANGED <<callVars, elapsed, result, cond, timer, cbVars>>

\* listExpiredCb puts the callback into the queue.
Expire ==
    /\ timer = 0
    /\ CallbackMayRun
    /\ timer' = NoTimer
    /\ cbs' = cbs \cup {<<call, attempt>>}
    /\ UNCHANGED <<pc, callVars, elapsed, result, cond, slot, locked, running, cancelled>>

\* The timer_info of call n exists: the call, or another callback, holds it.
Alive(n) ==
    \/ n = call /\ pc # "idle"
    \/ \E b \in locked \cup running : b[1] = n

\* OnTimer: weak_cond.lock(), kept for as long as the callback runs.
CallbackLocks(b) ==
    /\ b \in cbs
    /\ CallbackMayRun
    /\ cbs' = cbs \ {b}
    /\ locked' = IF Alive(b[1]) THEN locked \cup {b} ELSE locked
    /\ UNCHANGED <<pc, callVars, elapsed, result, cond, slot, timer, running, cancelled>>

\* Mistake for the mutation tests: one timer_info for all the calls.
CallbackSetsShared(b) ==
    /\ b \in locked
    /\ locked' = locked \ {b}
    /\ cancelled' = cancelled \cup {call}
    /\ running' = running \cup {b}
    /\ UNCHANGED <<pc, callVars, elapsed, result, cond, slot, timer, cbs>>

\* The callback: the test of `cancelled' and its assignment.
CallbackSets(b) ==
    /\ b \in locked
    /\ locked' = locked \ {b}
    /\ cancelled' = cancelled \cup {b[1]}
    /\ running' = IF b[1] \in cancelled THEN running ELSE running \cup {b}
    /\ UNCHANGED <<pc, callVars, elapsed, result, cond, slot, timer, cbs>>

\* The callback: iom->cancelEvent(fd, event), whoever waits for it by now.
CallbackCancels(b) ==
    /\ b \in running
    /\ running' = running \ {b}
    /\ IF slot THEN WakeWaiter ELSE UNCHANGED <<slot, pc>>
    /\ UNCHANGED <<callVars, elapsed, result, cond, timer, cbs, locked, cancelled>>

-----------------------------------------------------------------------------
Coroutine == TryDone \/ TryAgain \/ AddEvent \/ AddEventFails \/ Resume
Callback ==
    \E b \in cbs \cup locked \cup running :
        CallbackLocks(b) \/ CallbackSets(b) \/ CallbackCancels(b)

Next ==
    \/ Tick \/ PeerActs
    \/ \E k \in Kinds, t \in BOOLEAN : Call(k, t)
    \/ Coroutine
    \/ Trigger \/ Expire
    \/ Callback

Spec == Init /\ [][Next]_vars

-----------------------------------------------------------------------------
(* Properties.                                                             *)

\* A call reports ETIMEDOUT only when it has taken its timeout: a callback of
\* an earlier call, which may still be queued or running, never ends a later
\* one (timer_info is the call's own).
NoEarlyTimeout == result = "timeout" => timed /\ elapsed = Timeout

\* A call that has returned leaves neither a timer nor a registered event.
CleanReturn == pc = "idle" => timer = NoTimer /\ ~slot

\* connect() returns 0 only for a socket that is connected.
ConnectHonest == kind = "connect" /\ result = "ok" => cond = "ready"

\* The timeout of the call has come and gone and the call still waits: its
\* callback ran after the timer was armed and before the event was registered,
\* and found nothing to cancel.
TimeoutLost ==
    /\ slot /\ call \in cancelled
    /\ \A b \in cbs \cup locked \cup running : b[1] # call

\* A call with a timeout returns, whatever the peer does, unless its timeout
\* is lost in this way.
TimedCallsReturn == (pc # "idle" /\ timed) ~> (pc = "idle" \/ TimeoutLost)
=============================================================================
