------------------------------ MODULE FoxRedis ------------------------------
(***************************************************************************)
(* FoxRedis (src/src/db/redis.cpp) over one FoxThread                      *)
(* (src/src/db/fox_thread.cpp).  A coroutine that calls cmd() puts an FCtx *)
(* on its own stack, hands its address to the libevent thread through a    *)
(* locked list and one byte on a socket pair, and yields.  The thread      *)
(* issues the command through hiredis and wakes the coroutine from the     *)
(* reply (CmdCb) or from a timer (EventCb).  After that the FCtx is gone   *)
(* while the Ctx on the heap still waits for its reply.                    *)
(*                                                                         *)
(* hiredis and libevent are external: replies come in the order of the     *)
(* commands, a lost connection answers all of them with a null reply       *)
(* before (a refused one after) the status callback.                       *)
(***************************************************************************)
EXTENDS Naturals, Sequences

CONSTANTS
    FxCmds,         \* calls of cmd(), each by a coroutine of its own
    FxPipeSize,     \* bytes the socket pair holds
    FxMaxConnects,  \* bound on redisAsyncConnect
    FxMaxStops      \* bound on calls of FoxThread::stop()

ASSUME FxAssumption ==
    /\ {FxPipeSize, FxMaxConnects, FxMaxStops} \subseteq Nat
    /\ FxPipeSize > 0
    /\ {"pinit", "stop"} \cap FxCmds = {}

VARIABLES
    fxAt,       \* where a call is: out, send, hold, back
    fxFiber,    \* fctx.fiber: not yet handed to the scheduler
    fxRpy,      \* fctx.rpy
    fxCtx,      \* the Ctx of a call: none, armed, late (timeout set), gone
    fxQueue,    \* m_callbacks: calls, "pinit" and "stop" (nullptr)
    fxBytes,    \* unread bytes of the socket pair
    fxThread,   \* the libevent thread: poll, swap, run, left
    fxBatch,    \* the callbacks read_cb swapped out
    fxStatus,   \* m_status
    fxPending,  \* commands hiredis has not answered, in order
    fxConnects, fxStops,
    fxTouched,  \* an FCtx was used after its coroutine had returned
    fxDown      \* a command was issued on a freed context

fxVars == <<fxAt, fxFiber, fxRpy, fxCtx, fxQueue, fxBytes, fxThread, fxBatch,
            fxStatus, fxPending, fxConnects, fxStops, fxTouched, fxDown>>
fxCallVars == <<fxFiber, fxRpy, fxCtx, fxTouched>>
fxThreadVars == <<fxQueue, fxBytes, fxThread, fxBatch, fxStops>>
fxConnVars == <<fxStatus, fxPending, fxConnects, fxDown>>

FxTypeOK ==
    /\ fxAt \in [FxCmds -> {"out", "send", "hold", "back"}]
    /\ fxFiber \in [FxCmds -> BOOLEAN] /\ fxRpy \in [FxCmds -> BOOLEAN]
    /\ fxCtx \in [FxCmds -> {"none", "armed", "late", "gone"}]
    /\ fxQueue \in Seq(FxCmds \cup {"pinit", "stop"})
    /\ fxBatch \in Seq(FxCmds \cup {"pinit", "stop"})
    /\ fxBytes \in 0..FxPipeSize /\ fxThread \in {"poll", "swap", "run", "left"}
    /\ fxStatus \in {"UNCONNECTED", "CONNECTING", "CONNECTED"}
    /\ fxPending \in Seq(FxCmds) /\ fxConnects \in Nat /\ fxStops \in Nat
    /\ fxTouched \in BOOLEAN /\ fxDown \in BOOLEAN

\* init() was called once, from a thread other than the libevent thread.
FxInit ==
    /\ fxAt = [c \in FxCmds |-> "out"]
    /\ fxFiber = [c \in FxCmds |-> FALSE]
    /\ fxRpy = [c \in FxCmds |-> FALSE]
    /\ fxCtx = [c \in FxCmds |-> "none"]
    /\ fxQueue = <<"pinit">> /\ fxBytes = 1
    /\ fxThread = "poll" /\ fxBatch = <<>>
    /\ fxStatus = "UNCONNECTED" /\ fxPending = <<>>
    /\ fxConnects = 0 /\ fxStops = 0 /\ fxTouched = FALSE /\ fxDown = FALSE

----------------------------------------------------------------------------
(* The calling coroutine. *)

\* cmd(): the FCtx is filled and dispatch() pushes the callback.
FxCmd(c) ==
    /\ fxAt[c] = "out"
    /\ fxAt' = [fxAt EXCEPT ![c] = "send"]
    /\ fxFiber' = [fxFiber EXCEPT ![c] = TRUE]
    /\ fxQueue' = Append(fxQueue, c)
    /\ UNCHANGED <<fxRpy, fxCtx, fxBytes, fxThread, fxBatch, fxStops, fxTouched,
                   fxConnVars>>

\* One byte more, unless the socket is full: send() fails and dispatch()'s
\* false is ignored.
FxPoke == fxBytes' = IF fxBytes < FxPipeSize THEN fxBytes + 1 ELSE fxBytes

\* Mistake for the mutation tests: dispatch() sends the byte only when the list was empty, which it
\* is no more.
FxSendIfFirst(c) ==
    /\ fxAt[c] = "send"
    /\ IF Len(fxQueue) <= 1 THEN FxPoke ELSE UNCHANGED fxBytes
    /\ fxAt' = [fxAt EXCEPT ![c] = "hold"]
    /\ UNCHANGED <<fxQueue, fxThread, fxBatch, fxStops, fxCallVars, fxConnVars>>

\* dispatch() after the unlock: the byte, then YieldToHold.
FxSend(c) ==
    /\ fxAt[c] = "send"
    /\ FxPoke
    /\ fxAt' = [fxAt EXCEPT ![c] = "hold"]
    /\ UNCHANGED <<fxQueue, fxThread, fxBatch, fxStops, fxCallVars, fxConnVars>>

\* The scheduler resumes the coroutine: cmd() returns fctx.rpy and the FCtx
\* goes with the stack frame.
FxResume(c) ==
    /\ fxAt[c] = "hold" /\ ~fxFiber[c]
    /\ fxAt' = [fxAt EXCEPT ![c] = "back"]
    /\ UNCHANGED <<fxCallVars, fxThreadVars, fxConnVars>>

\* FoxThread::stop(): list and byte under one lock.
FxStop ==
    /\ fxStops < FxMaxStops
    /\ fxStops' = fxStops + 1
    /\ fxQueue' = Append(fxQueue, "stop")
    /\ FxPoke
    /\ UNCHANGED <<fxAt, fxThread, fxBatch, fxCallVars, fxConnVars>>

----------------------------------------------------------------------------
(* The libevent thread. *)

\* schedule(&fctx->fiber) for the calls of W: the pointer is moved out, so
\* that a second wake-up finds it null - if the FCtx is still there.
FxWake(W, answered) ==
    /\ fxTouched' = (fxTouched \/ \E c \in W : fxAt[c] = "back")
    /\ fxFiber' = [c \in FxCmds |-> fxFiber[c] /\ c \notin W]
    /\ fxRpy' = [c \in FxCmds |-> fxRpy[c] \/ (answered /\ c \in W /\ fxFiber[c])]

\* read_cb: recv() takes every byte there is ...
FxRecv ==
    /\ fxThread = "poll" /\ fxBytes > 0
    /\ fxBytes' = 0 /\ fxThread' = "swap"
    /\ UNCHANGED <<fxAt, fxQueue, fxBatch, fxStops, fxCallVars, fxConnVars>>

\* ... and the list is swapped out under the lock.
FxSwap ==
    /\ fxThread = "swap"
    /\ fxBatch' = fxQueue /\ fxQueue' = <<>> /\ fxThread' = "run"
    /\ UNCHANGED <<fxAt, fxBytes, fxStops, fxCallVars, fxConnVars>>

\* pinit(): at most one connection attempt at a time; it may fail at once.
FxPinit ==
    \/ /\ fxStatus = "UNCONNECTED" /\ fxConnects < FxMaxConnects
       /\ fxStatus' = "CONNECTING" /\ fxConnects' = fxConnects + 1
       /\ UNCHANGED <<fxPending, fxDown>>
    \/ UNCHANGED fxConnVars

\* pcmd(): unconnected, it starts to connect and wakes the caller without a
\* reply; otherwise it arms the timer of a Ctx and issues the command.
FxPcmd(c) ==
    \/ /\ fxStatus = "UNCONNECTED"
       /\ FxPinit
       /\ FxWake({c}, FALSE)
       /\ UNCHANGED fxCtx
    \/ /\ fxStatus # "UNCONNECTED"
       /\ fxCtx' = [fxCtx EXCEPT ![c] = "armed"]
       /\ fxPending' = Append(fxPending, c)
       /\ fxTouched' = (fxTouched \/ fxAt[c] = "back")
       /\ UNCHANGED <<fxFiber, fxRpy, fxStatus, fxConnects, fxDown>>

\* read_cb's loop.  A null callback breaks it and the event loop: what was
\* swapped out behind it is dropped.
FxRun ==
    /\ fxThread = "run" /\ fxBatch # <<>>
    /\ fxBatch' = IF Head(fxBatch) = "stop" THEN <<>> ELSE Tail(fxBatch)
    /\ fxThread' = IF Head(fxBatch) = "stop" THEN "left" ELSE fxThread
    /\ \/ Head(fxBatch) = "stop" /\ UNCHANGED <<fxCallVars, fxConnVars>>
       \/ Head(fxBatch) = "pinit" /\ FxPinit /\ UNCHANGED fxCallVars
       \/ Head(fxBatch) \in FxCmds /\ FxPcmd(Head(fxBatch))
    /\ UNCHANGED <<fxAt, fxQueue, fxBytes, fxStops>>

FxRunDone ==
    /\ fxThread = "run" /\ fxBatch = <<>>
    /\ fxThread' = "poll"
    /\ UNCHANGED <<fxAt, fxQueue, fxBytes, fxBatch, fxStops, fxCallVars, fxConnVars>>

\* Ctx::EventCb, the timer of a command.
FxEventCb(c) ==
    /\ fxThread = "poll" /\ fxCtx[c] = "armed"
    /\ fxCtx' = [fxCtx EXCEPT ![c] = "late"]
    /\ FxWake({c}, FALSE)
    /\ UNCHANGED <<fxAt, fxThreadVars, fxConnVars>>

\* Mistake for the mutation tests: the late reply does not test timeout.
FxCmdCbAlways(W, ok) ==
    /\ FxWake(W, ok)
    /\ fxCtx' = [c \in FxCmds |-> IF c \in W THEN "gone" ELSE fxCtx[c]]

\* CmdCb for the commands of W: a Ctx that timed out is deleted and no more;
\* otherwise the coroutine is woken, with the reply if there is a good one.
FxCmdCb(W, ok) ==
    /\ FxWake({c \in W : fxCtx[c] # "late"}, ok)
    /\ fxCtx' = [c \in FxCmds |-> IF c \in W THEN "gone" ELSE fxCtx[c]]

\* A reply, ok or of type error.
FxReply(ok) ==
    /\ fxThread = "poll" /\ fxStatus = "CONNECTED" /\ fxPending # <<>>
    /\ FxCmdCb({Head(fxPending)}, ok)
    /\ fxPending' = Tail(fxPending)
    /\ UNCHANGED <<fxAt, fxThreadVars, fxStatus, fxConnects, fxDown>>

\* ConnectCb with status 0.
FxConnected ==
    /\ fxThread = "poll" /\ fxStatus = "CONNECTING"
    /\ fxStatus' = "CONNECTED"
    /\ UNCHANGED <<fxAt, fxCallVars, fxThreadVars, fxPending, fxConnects, fxDown>>

\* ConnectCb with an error, or DisconnectCb: hiredis answers the pending
\* commands with a null reply and frees the context.
FxLost ==
    /\ fxThread = "poll" /\ fxStatus # "UNCONNECTED"
    /\ FxCmdCb({fxPending[i] : i \in DOMAIN fxPending}, FALSE)
    /\ fxStatus' = "UNCONNECTED" /\ fxPending' = <<>>
    /\ UNCHANGED <<fxAt, fxThreadVars, fxConnects, fxDown>>

\* TimeCb, every 120 s once pinit() has armed it.  A ping has no Ctx and
\* changes nothing, but while unconnected m_context is the freed one.
FxTimeCb ==
    /\ fxThread = "poll" /\ fxConnects > 0 /\ fxStatus = "UNCONNECTED"
    /\ fxDown' = TRUE
    /\ UNCHANGED <<fxAt, fxCallVars, fxThreadVars, fxStatus, fxPending, fxConnects>>

FxThreadStep == FxRecv \/ FxSwap \/ FxRun \/ FxRunDone

FxNext ==
    /\ ~fxDown
    /\ \/ \E c \in FxCmds : FxCmd(c) \/ FxSend(c) \/ FxResume(c) \/ FxEventCb(c)
       \/ FxStop
       \/ FxThreadStep
       \/ \E ok \in BOOLEAN : FxReply(ok)
       \/ FxConnected \/ FxLost \/ FxTimeCb

FxSpec == FxInit /\ [][FxNext]_fxVars

----------------------------------------------------------------------------
(* Properties. *)

\* What the libevent thread holds of a call is never used after cmd() has
\* returned and its FCtx is gone, whatever the order of timer, reply and loss
\* of the connection; and cmd() returns a reply only if it did not time out.
FxSafe ==
    /\ ~fxTouched
    /\ \A c \in FxCmds : fxRpy[c] => fxCtx[c] = "gone"

\* Every cmd() returns - answered, timed out or failed - unless the thread is
\* told to stop or uses the freed context.
FxReturns ==
    \A c \in FxCmds :
        fxAt[c] = "send" ~> fxAt[c] = "back" \/ fxStops > 0 \/ fxDown

=============================================================================
