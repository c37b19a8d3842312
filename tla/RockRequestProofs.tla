------------------------- MODULE RockRequestProofs -------------------------
(***************************************************************************)
(* Proofs about the requests of a RockStream, for every set of requests    *)
(* and of messages without a response, any number of reconnections, with   *)
(* one thread or several.                                                  *)
(***************************************************************************)
EXTENDS RockRequest, TLAPS

RequestStates == {"idle", "add", "arm", "enqueue", "notify", "held", "read", "done"}
Results == {"OK", "IO_ERROR", "TIMEOUT"}

ProcStates ==
    {"recv", "result", "response", "rsp", "finish", "close", "swap", "clear", "next",
     "loop", "wait", "take", "sending", "out", "off", "armed", "timed"}

\* Where a party has a Ctx in hand.
Working == {"result", "response", "rsp", "finish"}

RockTypeOK ==
    /\ sem \in Nat
    /\ ctxs \subseteq Requests
    /\ rpc \in [Messages -> RequestStates]
    /\ ret \in [Requests -> (Results \cup {"none", "NOT_CONNECT"}) \X BOOLEAN]
    /\ owner \subseteq Requests
    /\ result \in [Requests -> Results]
    /\ response \subseteq Requests
    /\ timed \subseteq Requests
    /\ wakes \in [Requests -> Nat]
    /\ ppc \in [Procs -> ProcStates]
    /\ cur \in [Procs -> Procs]
    /\ batch \in [Procs -> SUBSET Requests]
    /\ passes \in [Procs -> Int]
    /\ \A p \in Procs : ppc[p] \in Working => cur[p] \in Requests

\* The callback of a timer completes the Ctx of its own request, calls
\* innerClose() for no one, and does nothing before the timer is armed.
TimerInv ==
    \A r \in Requests :
        /\ cur[r] = r /\ passes[r] = 0
        /\ ppc[r] \in {"off", "armed", "timed", "rsp", "finish"}
        /\ rpc[r] \in {"idle", "add", "arm"} => ppc[r] = "off"
        /\ ppc[r] \in {"rsp", "finish"} => r \in timed

\* Ctx::scheduler is set until a party takes it, and the party that took it is the
\* only one that schedules the coroutine.
OwnerInv ==
    /\ \A r \in Requests : r \in owner => wakes[r] = 0
    /\ \A p \in Procs : ppc[p] = "finish" => cur[p] \notin owner /\ wakes[cur[p]] = 0
    /\ \A p, q \in Procs :
          ppc[p] = "finish" /\ ppc[q] = "finish" /\ cur[p] = cur[q] => p = q

\* p has the Ctx of r in hand, or took it from m_ctxs in innerClose().
Held(p, r) == r \in batch[p] \/ (ppc[p] \in Working /\ cur[p] = r)

\* A Ctx is in m_ctxs or with one of the stream's coroutines, never with two.
HeldInv ==
    \A r \in Requests :
        /\ rpc[r] \in {"idle", "add"} => r \notin ctxs
        /\ \A p \in Streams :
              Held(p, r) => r \notin ctxs /\ rpc[r] \notin {"idle", "add"}
        /\ \A p, q \in Streams : Held(p, r) /\ Held(q, r) => p = q
        /\ \A p \in Streams : r \in batch[p] => ~(ppc[p] \in Working /\ cur[p] = r)

\* A request that was not made yet, or whose Ctx is not filed yet, was not
\* completed; only an unmade request has no Ctx.
FreshInv ==
    \A r \in Requests :
        /\ rpc[r] \in {"idle", "add"} => wakes[r] = 0
        /\ rpc[r] = "idle" => r \notin owner

\* A request that returns OK has a response, or its timer has expired.
Answered(r) == r \in response \/ r \in timed \/ result[r] # "OK"

\* Before the coroutine is scheduled the Ctx has its outcome.  A stream's coroutine
\* that still has the Ctx of a scheduled request lost it to the timer.
ResultInv ==
    /\ \A p \in Streams : ppc[p] \in {"rsp", "finish"} => Answered(cur[p])
    /\ \A r \in Requests :
          wakes[r] > 0 =>
             /\ Answered(r)
             /\ (r \in ctxs \/ \E p \in Streams : Held(p, r)) => r \in timed

\* What request() read, it keeps.
ReturnInv ==
    \A r \in Requests :
        rpc[r] = "read" /\ ret[r][1] = "OK" => r \in response \/ r \in timed

\* Every message in m_queue is noticed: the semaphore is up, the writer is past it,
\* or the coroutine that found m_queue empty is about to raise it.  It holds with
\* the socket closed, too, so that a reconnection finds it true.
QueueInv ==
    queue # {} =>
        \/ sem > 0 \/ ppc["writer"] = "take"
        \/ \E m \in Messages : rpc[m] = "notify"

RockInv ==
    /\ RockTypeOK /\ TimerInv /\ OwnerInv /\ HeldInv /\ FreshInv
    /\ ResultInv /\ ReturnInv /\ QueueInv
    /\ ResumedOnce /\ HonestResult

-----------------------------------------------------------------------------
\* The invariant holds at the start.
LEMMA RockInit == Init => RockInv
<1> SUFFICES ASSUME Init PROVE RockInv
  OBVIOUS
<1> USE RockRequestAssumption DEF Init, Procs, Streams, Messages, Working
<1>0. ppc \in [Procs -> ProcStates] /\ cur \in [Procs -> Procs]
  BY DEF ProcStates
<1>1. RockTypeOK
  <2>1. \A p \in Procs : ppc[p] \notin Working
    OBVIOUS
  <2>2. ret \in [Requests -> (Results \cup {"none", "NOT_CONNECT"}) \X BOOLEAN]
    BY DEF Results
  <2>3. rpc \in [Messages -> RequestStates] /\ result \in [Requests -> Results]
    BY DEF RequestStates, Results
  <2> QED
    BY <1>0, <2>1, <2>2, <2>3 DEF RockTypeOK
<1>2. TimerInv /\ OwnerInv /\ FreshInv /\ QueueInv
  BY DEF TimerInv, OwnerInv, FreshInv, QueueInv
<1>3. HeldInv
  BY DEF HeldInv, Held
<1>4. ResultInv /\ ReturnInv /\ ResumedOnce /\ HonestResult
  BY DEF ResultInv, ReturnInv, ResumedOnce, HonestResult
<1> QED
  BY <1>1, <1>2, <1>3, <1>4 DEF RockInv

\* Every step keeps the types.
LEMMA RockTypeStep == RockTypeOK /\ TimerInv /\ [Next]_vars => RockTypeOK'
<1> SUFFICES ASSUME RockTypeOK, TimerInv, [Next]_vars PROVE RockTypeOK'
  OBVIOUS
<1> USE RockRequestAssumption
    DEF RockTypeOK, RequestStates, ProcStates, Results, Working, Procs, Streams, Messages, Goto,
        streamVars, reqVars, ctxVars, procVars
<1>1. ASSUME NEW r \in Requests, Request(r) PROVE RockTypeOK'
  BY <1>1 DEF Request
<1>2. ASSUME NEW r \in Requests, AddCtx(r) PROVE RockTypeOK'
  BY <1>2 DEF AddCtx
<1>3. ASSUME NEW r \in Requests, Arm(r) PROVE RockTypeOK'
  BY <1>3 DEF Arm
<1>4. ASSUME NEW r \in Requests, ReadResult(r) PROVE RockTypeOK'
  BY <1>4 DEF ReadResult
<1>5. ASSUME NEW r \in Requests, ReadResponse(r) PROVE RockTypeOK'
  <2>1. ret' \in [Requests -> (Results \cup {"none", "NOT_CONNECT"}) \X BOOLEAN]
    <3>1. ret[r] \in (Results \cup {"none", "NOT_CONNECT"}) \X BOOLEAN
      OBVIOUS
    <3> DEFINE ok == r \in response
    <3>a. ret[r][1] \in Results \cup {"none", "NOT_CONNECT"}
      BY <3>1
    <3>b. ok \in BOOLEAN
      OBVIOUS
    <3> HIDE DEF ok
    <3>c. <<ret[r][1], ok>> \in (Results \cup {"none", "NOT_CONNECT"}) \X BOOLEAN
      BY <3>a, <3>b
    <3>2. <<ret[r][1], r \in response>> \in (Results \cup {"none", "NOT_CONNECT"}) \X BOOLEAN
      BY <3>c DEF ok
    <3> QED
      BY <1>5, <3>2 DEF ReadResponse
  <2> QED
    BY <1>5, <2>1 DEF ReadResponse
<1>6. ASSUME NEW r \in Requests, TimeOut(r) PROVE RockTypeOK'
  BY <1>6 DEF TimeOut
<1>7. ASSUME NEW r \in Requests, SetTimed(r) PROVE RockTypeOK'
  BY <1>7 DEF SetTimed, TimerInv
<1>8. ASSUME NEW m \in Notes, SendMessage(m) PROVE RockTypeOK'
  BY <1>8 DEF SendMessage
<1>9. ASSUME NEW m \in Messages, Enqueue(m) PROVE RockTypeOK'
  BY <1>9 DEF Enqueue, Enqueued
<1>10. ASSUME NEW m \in Messages, NotifyWriter(m) PROVE RockTypeOK'
  BY <1>10 DEF NotifyWriter, Enqueued
<1>11. ASSUME NEW m \in Messages, Send(m) PROVE RockTypeOK'
  BY <1>11 DEF Send
<1>12. ASSUME NEW p \in Procs, TakeOwner(p) PROVE RockTypeOK'
  BY <1>12 DEF TakeOwner, AfterRsp
<1>13. ASSUME NEW p \in Procs, Finish(p) PROVE RockTypeOK'
  <2>1. cur[p] \in Requests /\ AfterRsp(p) \in ProcStates
    BY <1>13 DEF Finish, AfterRsp
  <2>2. ppc' \in [Procs -> ProcStates]
    BY <1>13, <2>1 DEF Finish, CancelTimer
  <2>3. ASSUME NEW q \in Procs, ppc'[q] \in Working PROVE ppc[q] \in Working
    BY <1>13, <2>1, <2>3 DEF Finish, CancelTimer, AfterRsp
  <2>4. wakes' \in [Requests -> Nat] /\ result' \in [Requests -> Results]
    BY <1>13, <2>1 DEF Finish
  <2> QED
    BY <1>13, <2>2, <2>3, <2>4 DEF Finish
<1>14. ASSUME NEW p \in Streams, CloseSocket(p) PROVE RockTypeOK'
  BY <1>14 DEF CloseSocket
<1>15. ASSUME NEW p \in Streams, SwapCtxs(p) PROVE RockTypeOK'
  BY <1>15 DEF SwapCtxs
<1>16. ASSUME NEW p \in Streams, ClearQueue(p) PROVE RockTypeOK'
  BY <1>16 DEF ClearQueue
<1>17. ASSUME NEW p \in Streams, CloseDone(p) PROVE RockTypeOK'
  BY <1>17 DEF CloseDone
<1>18. ASSUME NEW p \in Streams, NEW r \in Requests, CloseCtx(p, r) PROVE RockTypeOK'
  BY <1>18 DEF CloseCtx
<1>19. CASE SetResult
  BY <1>19 DEF SetResult
<1>20. CASE SetResponse
  BY <1>20 DEF SetResponse
<1>21. ASSUME NEW r \in Requests, Receive(r) PROVE RockTypeOK'
  BY <1>21 DEF Receive
<1>22. CASE ReaderEnds
  BY <1>22 DEF ReaderEnds
<1>23. CASE WriterLoop
  BY <1>23 DEF WriterLoop
<1>24. CASE WriterWait
  BY <1>24 DEF WriterWait
<1>25. CASE TakeQueue
  BY <1>25 DEF TakeQueue
<1>26. CASE SendDone
  BY <1>26 DEF SendDone
<1>27. CASE SendFails
  BY <1>27 DEF SendFails
<1>28. CASE Reconnect
  BY <1>28 DEF Reconnect
<1>29. CASE StartFails
  BY <1>29 DEF StartFails
<1>30. CASE Close
  BY <1>30 DEF Close
<1>31. CASE UNCHANGED vars
  BY <1>31 DEF vars
<1> QED
  BY <1>1, <1>2, <1>3, <1>4, <1>5, <1>6, <1>7, <1>8, <1>9, <1>10, <1>11, <1>12,
     <1>13, <1>14, <1>15, <1>16, <1>17, <1>18, <1>19, <1>20, <1>21, <1>22,
     <1>23, <1>24, <1>25, <1>26, <1>27, <1>28, <1>29, <1>30, <1>31
  DEF Next, Requester, Sender, DoRsp, TimeOutCb, InnerClose, Writer, Reader

\* A timer stays with its request.
LEMMA TimerStep == RockTypeOK /\ TimerInv /\ [Next]_vars => TimerInv'
<1> SUFFICES ASSUME RockTypeOK, TimerInv, [Next]_vars PROVE TimerInv'
  OBVIOUS
<1> USE RockRequestAssumption
    DEF RockTypeOK, Working, Procs, Streams, Messages, Goto,
        streamVars, reqVars, ctxVars, procVars, TimerInv
<1>1. ASSUME NEW r \in Requests, Request(r) PROVE TimerInv'
  BY <1>1 DEF Request
<1>2. ASSUME NEW r \in Requests, AddCtx(r) PROVE TimerInv'
  BY <1>2 DEF AddCtx
<1>3. ASSUME NEW r \in Requests, Arm(r) PROVE TimerInv'
  BY <1>3 DEF Arm
<1>4. ASSUME NEW r \in Requests, ReadResult(r) PROVE TimerInv'
  BY <1>4 DEF ReadResult
<1>5. ASSUME NEW r \in Requests, ReadResponse(r) PROVE TimerInv'
  BY <1>5 DEF ReadResponse
<1>6. ASSUME NEW r \in Requests, TimeOut(r) PROVE TimerInv'
  BY <1>6 DEF TimeOut
<1>7. ASSUME NEW r \in Requests, SetTimed(r) PROVE TimerInv'
  BY <1>7 DEF SetTimed
<1>8. ASSUME NEW m \in Notes, SendMessage(m) PROVE TimerInv'
  BY <1>8 DEF SendMessage
<1>9. ASSUME NEW m \in Messages, Enqueue(m) PROVE TimerInv'
  BY <1>9 DEF Enqueue, Enqueued
<1>10. ASSUME NEW m \in Messages, NotifyWriter(m) PROVE TimerInv'
  BY <1>10 DEF NotifyWriter, Enqueued
<1>11. ASSUME NEW m \in Messages, Send(m) PROVE TimerInv'
  BY <1>11 DEF Send
<1>12. ASSUME NEW p \in Procs, TakeOwner(p) PROVE TimerInv'
  BY <1>12 DEF TakeOwner, AfterRsp
<1>13. ASSUME NEW p \in Procs, Finish(p) PROVE TimerInv'
  <2>1. cur[p] \in Requests /\ ppc[p] = "finish"
    BY <1>13 DEF Finish
  <2>2. ASSUME NEW r \in Requests PROVE ppc'[r] \in {ppc[r], "off"}
    <3>1. CASE p = r
      BY <1>13, <2>1, <3>1 DEF Finish, CancelTimer, AfterRsp
    <3>2. CASE p # r
      BY <1>13, <2>1, <3>2 DEF Finish, CancelTimer
    <3> QED
      BY <3>1, <3>2
  <2> QED
    BY <1>13, <2>2 DEF Finish
<1>14. ASSUME NEW p \in Streams, CloseSocket(p) PROVE TimerInv'
  BY <1>14 DEF CloseSocket
<1>15. ASSUME NEW p \in Streams, SwapCtxs(p) PROVE TimerInv'
  BY <1>15 DEF SwapCtxs
<1>16. ASSUME NEW p \in Streams, ClearQueue(p) PROVE TimerInv'
  BY <1>16 DEF ClearQueue
<1>17. ASSUME NEW p \in Streams, CloseDone(p) PROVE TimerInv'
  BY <1>17 DEF CloseDone
<1>18. ASSUME NEW p \in Streams, NEW r \in Requests, CloseCtx(p, r) PROVE TimerInv'
  BY <1>18 DEF CloseCtx
<1>19. CASE SetResult
  BY <1>19 DEF SetResult
<1>20. CASE SetResponse
  BY <1>20 DEF SetResponse
<1>21. ASSUME NEW r \in Requests, Receive(r) PROVE TimerInv'
  BY <1>21 DEF Receive
<1>22. CASE ReaderEnds
  BY <1>22 DEF ReaderEnds
<1>23. CASE WriterLoop
  BY <1>23 DEF WriterLoop
<1>24. CASE WriterWait
  BY <1>24 DEF WriterWait
<1>25. CASE TakeQueue
  BY <1>25 DEF TakeQueue
<1>26. CASE SendDone
  BY <1>26 DEF SendDone
<1>27. CASE SendFails
  BY <1>27 DEF SendFails
<1>28. CASE Reconnect
  BY <1>28 DEF Reconnect
<1>29. CASE StartFails
  BY <1>29 DEF StartFails
<1>30. CASE Close
  BY <1>30 DEF Close
<1>31. CASE UNCHANGED vars
  BY <1>31 DEF vars
<1> QED
  BY <1>1, <1>2, <1>3, <1>4, <1>5, <1>6, <1>7, <1>8, <1>9, <1>10, <1>11, <1>12,
     <1>13, <1>14, <1>15, <1>16, <1>17, <1>18, <1>19, <1>20, <1>21, <1>22,
     <1>23, <1>24, <1>25, <1>26, <1>27, <1>28, <1>29, <1>30, <1>31
  DEF Next, Requester, Sender, DoRsp, TimeOutCb, InnerClose, Writer, Reader

\* A Ctx that a party completes was filed.
LEMMA FiledBefore ==
  ASSUME RockTypeOK, TimerInv, HeldInv, NEW p \in Procs, ppc[p] \in Working
  PROVE  cur[p] \in Requests /\ rpc[cur[p]] \notin {"idle", "add"}
<1>1. cur[p] \in Requests
  BY DEF RockTypeOK
<1>2. CASE p \in Requests
  BY <1>1, <1>2 DEF TimerInv, Working
<1>3. CASE p \in Streams
  BY <1>1, <1>3 DEF HeldInv, Held
<1> QED
  BY <1>1, <1>2, <1>3 DEF Procs

\* Ctx::scheduler is taken by one party.
LEMMA OwnerStep == RockTypeOK /\ TimerInv /\ HeldInv /\ FreshInv /\ OwnerInv /\ [Next]_vars => OwnerInv'
<1> SUFFICES ASSUME RockTypeOK, TimerInv, HeldInv, FreshInv, OwnerInv, [Next]_vars PROVE OwnerInv'
  OBVIOUS
<1> USE RockRequestAssumption
    DEF RockTypeOK, Working, Procs, Streams, Messages, Goto,
        streamVars, reqVars, ctxVars, procVars, OwnerInv
<1>1. ASSUME NEW r \in Requests, Request(r) PROVE OwnerInv'
  BY <1>1, FiledBefore DEF Request, FreshInv
<1>2. ASSUME NEW r \in Requests, AddCtx(r) PROVE OwnerInv'
  BY <1>2 DEF AddCtx
<1>3. ASSUME NEW r \in Requests, Arm(r) PROVE OwnerInv'
  BY <1>3 DEF Arm
<1>4. ASSUME NEW r \in Requests, ReadResult(r) PROVE OwnerInv'
  BY <1>4 DEF ReadResult
<1>5. ASSUME NEW r \in Requests, ReadResponse(r) PROVE OwnerInv'
  BY <1>5 DEF ReadResponse
<1>6. ASSUME NEW r \in Requests, TimeOut(r) PROVE OwnerInv'
  BY <1>6 DEF TimeOut
<1>7. ASSUME NEW r \in Requests, SetTimed(r) PROVE OwnerInv'
  BY <1>7 DEF SetTimed
<1>8. ASSUME NEW m \in Notes, SendMessage(m) PROVE OwnerInv'
  BY <1>8 DEF SendMessage
<1>9. ASSUME NEW m \in Messages, Enqueue(m) PROVE OwnerInv'
  BY <1>9 DEF Enqueue, Enqueued
<1>10. ASSUME NEW m \in Messages, NotifyWriter(m) PROVE OwnerInv'
  BY <1>10 DEF NotifyWriter, Enqueued
<1>11. ASSUME NEW m \in Messages, Send(m) PROVE OwnerInv'
  BY <1>11 DEF Send
<1>12. ASSUME NEW p \in Procs, TakeOwner(p) PROVE OwnerInv'
  BY <1>12 DEF TakeOwner, AfterRsp
<1>13. ASSUME NEW p \in Procs, Finish(p) PROVE OwnerInv'
  BY <1>13 DEF Finish, CancelTimer, AfterRsp
<1>14. ASSUME NEW p \in Streams, CloseSocket(p) PROVE OwnerInv'
  BY <1>14 DEF CloseSocket
<1>15. ASSUME NEW p \in Streams, SwapCtxs(p) PROVE OwnerInv'
  BY <1>15 DEF SwapCtxs
<1>16. ASSUME NEW p \in Streams, ClearQueue(p) PROVE OwnerInv'
  BY <1>16 DEF ClearQueue
<1>17. ASSUME NEW p \in Streams, CloseDone(p) PROVE OwnerInv'
  BY <1>17 DEF CloseDone
<1>18. ASSUME NEW p \in Streams, NEW r \in Requests, CloseCtx(p, r) PROVE OwnerInv'
  BY <1>18 DEF CloseCtx
<1>19. CASE SetResult
  BY <1>19 DEF SetResult
<1>20. CASE SetResponse
  BY <1>20 DEF SetResponse
<1>21. ASSUME NEW r \in Requests, Receive(r) PROVE OwnerInv'
  BY <1>21 DEF Receive
<1>22. CASE ReaderEnds
  BY <1>22 DEF ReaderEnds
<1>23. CASE WriterLoop
  BY <1>23 DEF WriterLoop
<1>24. CASE WriterWait
  BY <1>24 DEF WriterWait
<1>25. CASE TakeQueue
  BY <1>25 DEF TakeQueue
<1>26. CASE SendDone
  BY <1>26 DEF SendDone
<1>27. CASE SendFails
  BY <1>27 DEF SendFails
<1>28. CASE Reconnect
  BY <1>28 DEF Reconnect
<1>29. CASE StartFails
  BY <1>29 DEF StartFails
<1>30. CASE Close
  BY <1>30 DEF Close
<1>31. CASE UNCHANGED vars
  BY <1>31 DEF vars
<1> QED
  BY <1>1, <1>2, <1>3, <1>4, <1>5, <1>6, <1>7, <1>8, <1>9, <1>10, <1>11, <1>12,
     <1>13, <1>14, <1>15, <1>16, <1>17, <1>18, <1>19, <1>20, <1>21, <1>22,
     <1>23, <1>24, <1>25, <1>26, <1>27, <1>28, <1>29, <1>30, <1>31
  DEF Next, Requester, Sender, DoRsp, TimeOutCb, InnerClose, Writer, Reader

\* A request that is not filed is not completed.
LEMMA FreshStep == RockTypeOK /\ TimerInv /\ HeldInv /\ FreshInv /\ [Next]_vars => FreshInv'
<1> SUFFICES ASSUME RockTypeOK, TimerInv, HeldInv, FreshInv, [Next]_vars PROVE FreshInv'
  OBVIOUS
<1> USE RockRequestAssumption
    DEF RockTypeOK, Working, Procs, Streams, Messages, Goto,
        streamVars, reqVars, ctxVars, procVars, FreshInv
<1>1. ASSUME NEW r \in Requests, Request(r) PROVE FreshInv'
  BY <1>1 DEF Request
<1>2. ASSUME NEW r \in Requests, AddCtx(r) PROVE FreshInv'
  BY <1>2 DEF AddCtx
<1>3. ASSUME NEW r \in Requests, Arm(r) PROVE FreshInv'
  BY <1>3 DEF Arm
<1>4. ASSUME NEW r \in Requests, ReadResult(r) PROVE FreshInv'
  BY <1>4 DEF ReadResult
<1>5. ASSUME NEW r \in Requests, ReadResponse(r) PROVE FreshInv'
  BY <1>5 DEF ReadResponse
<1>6. ASSUME NEW r \in Requests, TimeOut(r) PROVE FreshInv'
  BY <1>6 DEF TimeOut
<1>7. ASSUME NEW r \in Requests, SetTimed(r) PROVE FreshInv'
  BY <1>7 DEF SetTimed
<1>8. ASSUME NEW m \in Notes, SendMessage(m) PROVE FreshInv'
  BY <1>8 DEF SendMessage
<1>9. ASSUME NEW m \in Messages, Enqueue(m) PROVE FreshInv'
  BY <1>9 DEF Enqueue, Enqueued
<1>10. ASSUME NEW m \in Messages, NotifyWriter(m) PROVE FreshInv'
  BY <1>10 DEF NotifyWriter, Enqueued
<1>11. ASSUME NEW m \in Messages, Send(m) PROVE FreshInv'
  BY <1>11 DEF Send
<1>12. ASSUME NEW p \in Procs, TakeOwner(p) PROVE FreshInv'
  BY <1>12 DEF TakeOwner, AfterRsp
<1>13. ASSUME NEW p \in Procs, Finish(p) PROVE FreshInv'
  BY <1>13, FiledBefore DEF Finish, CancelTimer, AfterRsp
<1>14. ASSUME NEW p \in Streams, CloseSocket(p) PROVE FreshInv'
  BY <1>14 DEF CloseSocket
<1>15. ASSUME NEW p \in Streams, SwapCtxs(p) PROVE FreshInv'
  BY <1>15 DEF SwapCtxs
<1>16. ASSUME NEW p \in Streams, ClearQueue(p) PROVE FreshInv'
  BY <1>16 DEF ClearQueue
<1>17. ASSUME NEW p \in Streams, CloseDone(p) PROVE FreshInv'
  BY <1>17 DEF CloseDone
<1>18. ASSUME NEW p \in Streams, NEW r \in Requests, CloseCtx(p, r) PROVE FreshInv'
  BY <1>18 DEF CloseCtx
<1>19. CASE SetResult
  BY <1>19 DEF SetResult
<1>20. CASE SetResponse
  BY <1>20 DEF SetResponse
<1>21. ASSUME NEW r \in Requests, Receive(r) PROVE FreshInv'
  BY <1>21 DEF Receive
<1>22. CASE ReaderEnds
  BY <1>22 DEF ReaderEnds
<1>23. CASE WriterLoop
  BY <1>23 DEF WriterLoop
<1>24. CASE WriterWait
  BY <1>24 DEF WriterWait
<1>25. CASE TakeQueue
  BY <1>25 DEF TakeQueue
<1>26. CASE SendDone
  BY <1>26 DEF SendDone
<1>27. CASE SendFails
  BY <1>27 DEF SendFails
<1>28. CASE Reconnect
  BY <1>28 DEF Reconnect
<1>29. CASE StartFails
  BY <1>29 DEF StartFails
<1>30. CASE Close
  BY <1>30 DEF Close
<1>31. CASE UNCHANGED vars
  BY <1>31 DEF vars
<1> QED
  BY <1>1, <1>2, <1>3, <1>4, <1>5, <1>6, <1>7, <1>8, <1>9, <1>10, <1>11, <1>12,
     <1>13, <1>14, <1>15, <1>16, <1>17, <1>18, <1>19, <1>20, <1>21, <1>22,
     <1>23, <1>24, <1>25, <1>26, <1>27, <1>28, <1>29, <1>30, <1>31
  DEF Next, Requester, Sender, DoRsp, TimeOutCb, InnerClose, Writer, Reader

\* No message stays unnoticed.
LEMMA QueueStep == RockTypeOK /\ QueueInv /\ [Next]_vars => QueueInv'
<1> SUFFICES ASSUME RockTypeOK, QueueInv, [Next]_vars PROVE QueueInv'
  OBVIOUS
<1> USE RockRequestAssumption
    DEF RockTypeOK, Working, Procs, Streams, Messages, Goto,
        streamVars, reqVars, ctxVars, procVars, QueueInv
<1>1. ASSUME NEW r \in Requests, Request(r) PROVE QueueInv'
  BY <1>1 DEF Request
<1>2. ASSUME NEW r \in Requests, AddCtx(r) PROVE QueueInv'
  BY <1>2 DEF AddCtx
<1>3. ASSUME NEW r \in Requests, Arm(r) PROVE QueueInv'
  BY <1>3 DEF Arm
<1>4. ASSUME NEW r \in Requests, ReadResult(r) PROVE QueueInv'
  BY <1>4 DEF ReadResult
<1>5. ASSUME NEW r \in Requests, ReadResponse(r) PROVE QueueInv'
  BY <1>5 DEF ReadResponse
<1>6. ASSUME NEW r \in Requests, TimeOut(r) PROVE QueueInv'
  BY <1>6 DEF TimeOut
<1>7. ASSUME NEW r \in Requests, SetTimed(r) PROVE QueueInv'
  BY <1>7 DEF SetTimed
<1>8. ASSUME NEW m \in Notes, SendMessage(m) PROVE QueueInv'
  BY <1>8 DEF SendMessage
<1>9. ASSUME NEW m \in Messages, Enqueue(m) PROVE QueueInv'
  BY <1>9 DEF Enqueue, Enqueued
<1>10. ASSUME NEW m \in Messages, NotifyWriter(m) PROVE QueueInv'
  BY <1>10 DEF NotifyWriter, Enqueued
<1>11. ASSUME NEW m \in Messages, Send(m) PROVE QueueInv'
  BY <1>11 DEF Send
<1>12. ASSUME NEW p \in Procs, TakeOwner(p) PROVE QueueInv'
  BY <1>12 DEF TakeOwner, AfterRsp
<1>13. ASSUME NEW p \in Procs, Finish(p) PROVE QueueInv'
  BY <1>13 DEF Finish, CancelTimer, AfterRsp
<1>14. ASSUME NEW p \in Streams, CloseSocket(p) PROVE QueueInv'
  BY <1>14 DEF CloseSocket
<1>15. ASSUME NEW p \in Streams, SwapCtxs(p) PROVE QueueInv'
  BY <1>15 DEF SwapCtxs
<1>16. ASSUME NEW p \in Streams, ClearQueue(p) PROVE QueueInv'
  BY <1>16 DEF ClearQueue
<1>17. ASSUME NEW p \in Streams, CloseDone(p) PROVE QueueInv'
  BY <1>17 DEF CloseDone
<1>18. ASSUME NEW p \in Streams, NEW r \in Requests, CloseCtx(p, r) PROVE QueueInv'
  BY <1>18 DEF CloseCtx
<1>19. CASE SetResult
  BY <1>19 DEF SetResult
<1>20. CASE SetResponse
  BY <1>20 DEF SetResponse
<1>21. ASSUME NEW r \in Requests, Receive(r) PROVE QueueInv'
  BY <1>21 DEF Receive
<1>22. CASE ReaderEnds
  BY <1>22 DEF ReaderEnds
<1>23. CASE WriterLoop
  BY <1>23 DEF WriterLoop
<1>24. CASE WriterWait
  BY <1>24 DEF WriterWait
<1>25. CASE TakeQueue
  BY <1>25 DEF TakeQueue
<1>26. CASE SendDone
  BY <1>26 DEF SendDone
<1>27. CASE SendFails
  BY <1>27 DEF SendFails
<1>28. CASE Reconnect
  BY <1>28 DEF Reconnect
<1>29. CASE StartFails
  BY <1>29 DEF StartFails
<1>30. CASE Close
  BY <1>30 DEF Close
<1>31. CASE UNCHANGED vars
  BY <1>31 DEF vars
<1> QED
  BY <1>1, <1>2, <1>3, <1>4, <1>5, <1>6, <1>7, <1>8, <1>9, <1>10, <1>11, <1>12,
     <1>13, <1>14, <1>15, <1>16, <1>17, <1>18, <1>19, <1>20, <1>21, <1>22,
     <1>23, <1>24, <1>25, <1>26, <1>27, <1>28, <1>29, <1>30, <1>31
  DEF Next, Requester, Sender, DoRsp, TimeOutCb, InnerClose, Writer, Reader

\* A Ctx stays with one coroutine of the stream.
LEMMA HeldStep == RockTypeOK /\ TimerInv /\ HeldInv /\ [Next]_vars => HeldInv'
<1> SUFFICES ASSUME RockTypeOK, TimerInv, HeldInv, [Next]_vars PROVE HeldInv'
  OBVIOUS
<1> USE RockRequestAssumption
    DEF RockTypeOK, Working, Procs, Streams, Messages, Goto,
        streamVars, reqVars, ctxVars, procVars, HeldInv, Held
<1>1. ASSUME NEW r \in Requests, Request(r) PROVE HeldInv'
  BY <1>1 DEF Request
<1>2. ASSUME NEW r \in Requests, AddCtx(r) PROVE HeldInv'
  BY <1>2 DEF AddCtx
<1>3. ASSUME NEW r \in Requests, Arm(r) PROVE HeldInv'
  BY <1>3 DEF Arm
<1>4. ASSUME NEW r \in Requests, ReadResult(r) PROVE HeldInv'
  BY <1>4 DEF ReadResult
<1>5. ASSUME NEW r \in Requests, ReadResponse(r) PROVE HeldInv'
  BY <1>5 DEF ReadResponse
<1>6. ASSUME NEW r \in Requests, TimeOut(r) PROVE HeldInv'
  BY <1>6 DEF TimeOut
<1>7. ASSUME NEW r \in Requests, SetTimed(r) PROVE HeldInv'
  BY <1>7 DEF SetTimed
<1>8. ASSUME NEW m \in Notes, SendMessage(m) PROVE HeldInv'
  BY <1>8 DEF SendMessage
<1>9. ASSUME NEW m \in Messages, Enqueue(m) PROVE HeldInv'
  BY <1>9 DEF Enqueue, Enqueued
<1>10. ASSUME NEW m \in Messages, NotifyWriter(m) PROVE HeldInv'
  BY <1>10 DEF NotifyWriter, Enqueued
<1>11. ASSUME NEW m \in Messages, Send(m) PROVE HeldInv'
  BY <1>11 DEF Send
<1>12. ASSUME NEW p \in Procs, TakeOwner(p) PROVE HeldInv'
  BY <1>12 DEF TakeOwner, AfterRsp
<1>13. ASSUME NEW p \in Procs, Finish(p) PROVE HeldInv'
  BY <1>13 DEF Finish, CancelTimer, AfterRsp
<1>14. ASSUME NEW p \in Streams, CloseSocket(p) PROVE HeldInv'
  BY <1>14 DEF CloseSocket
<1>15. ASSUME NEW p \in Streams, SwapCtxs(p) PROVE HeldInv'
  BY <1>15 DEF SwapCtxs
<1>16. ASSUME NEW p \in Streams, ClearQueue(p) PROVE HeldInv'
  BY <1>16 DEF ClearQueue
<1>17. ASSUME NEW p \in Streams, CloseDone(p) PROVE HeldInv'
  BY <1>17 DEF CloseDone
<1>18. ASSUME NEW p \in Streams, NEW r \in Requests, CloseCtx(p, r) PROVE HeldInv'
  BY <1>18 DEF CloseCtx
<1>19. CASE SetResult
  BY <1>19 DEF SetResult
<1>20. CASE SetResponse
  BY <1>20 DEF SetResponse
<1>21. ASSUME NEW r \in Requests, Receive(r) PROVE HeldInv'
  BY <1>21 DEF Receive
<1>22. CASE ReaderEnds
  BY <1>22 DEF ReaderEnds
<1>23. CASE WriterLoop
  BY <1>23 DEF WriterLoop
<1>24. CASE WriterWait
  BY <1>24 DEF WriterWait
<1>25. CASE TakeQueue
  BY <1>25 DEF TakeQueue
<1>26. CASE SendDone
  BY <1>26 DEF SendDone
<1>27. CASE SendFails
  BY <1>27 DEF SendFails
<1>28. CASE Reconnect
  BY <1>28 DEF Reconnect
<1>29. CASE StartFails
  BY <1>29 DEF StartFails
<1>30. CASE Close
  BY <1>30 DEF Close
<1>31. CASE UNCHANGED vars
  BY <1>31 DEF vars
<1> QED
  BY <1>1, <1>2, <1>3, <1>4, <1>5, <1>6, <1>7, <1>8, <1>9, <1>10, <1>11, <1>12,
     <1>13, <1>14, <1>15, <1>16, <1>17, <1>18, <1>19, <1>20, <1>21, <1>22,
     <1>23, <1>24, <1>25, <1>26, <1>27, <1>28, <1>29, <1>30, <1>31
  DEF Next, Requester, Sender, DoRsp, TimeOutCb, InnerClose, Writer, Reader

\* A scheduled request has its outcome.
LEMMA ResultStep == RockTypeOK /\ TimerInv /\ HeldInv /\ FreshInv /\ ResultInv /\ [Next]_vars => ResultInv'
<1> SUFFICES ASSUME RockTypeOK, TimerInv, HeldInv, FreshInv, ResultInv, [Next]_vars PROVE ResultInv'
  OBVIOUS
<1> USE RockRequestAssumption
    DEF RockTypeOK, Working, Procs, Streams, Messages, Goto,
        streamVars, reqVars, ctxVars, procVars, ResultInv, HeldInv, Held, Answered, Results
<1>1. ASSUME NEW r \in Requests, Request(r) PROVE ResultInv'
  BY <1>1 DEF Request
<1>2. ASSUME NEW r \in Requests, AddCtx(r) PROVE ResultInv'
  BY <1>2 DEF AddCtx, FreshInv
<1>3. ASSUME NEW r \in Requests, Arm(r) PROVE ResultInv'
  BY <1>3 DEF Arm
<1>4. ASSUME NEW r \in Requests, ReadResult(r) PROVE ResultInv'
  BY <1>4 DEF ReadResult
<1>5. ASSUME NEW r \in Requests, ReadResponse(r) PROVE ResultInv'
  BY <1>5 DEF ReadResponse
<1>6. ASSUME NEW r \in Requests, TimeOut(r) PROVE ResultInv'
  BY <1>6 DEF TimeOut
<1>7. ASSUME NEW r \in Requests, SetTimed(r) PROVE ResultInv'
  BY <1>7 DEF SetTimed
<1>8. ASSUME NEW m \in Notes, SendMessage(m) PROVE ResultInv'
  BY <1>8 DEF SendMessage
<1>9. ASSUME NEW m \in Messages, Enqueue(m) PROVE ResultInv'
  BY <1>9 DEF Enqueue, Enqueued
<1>10. ASSUME NEW m \in Messages, NotifyWriter(m) PROVE ResultInv'
  BY <1>10 DEF NotifyWriter, Enqueued
<1>11. ASSUME NEW m \in Messages, Send(m) PROVE ResultInv'
  BY <1>11 DEF Send
<1>12. ASSUME NEW p \in Procs, TakeOwner(p) PROVE ResultInv'
  BY <1>12 DEF TakeOwner, AfterRsp
<1>13. ASSUME NEW p \in Procs, Finish(p) PROVE ResultInv'
  <2> DEFINE c == cur[p]
  <2>1. c \in Requests /\ ppc[p] = "finish"
    BY <1>13 DEF Finish
  <2>2. /\ ctxs' = ctxs /\ batch' = batch /\ cur' = cur /\ timed' = timed
        /\ response' = response
        /\ result' = [result EXCEPT ![c] = IF c \in timed THEN "TIMEOUT" ELSE @]
        /\ wakes' = [wakes EXCEPT ![c] = @ + 1]
    BY <1>13 DEF Finish
  <2>3. ASSUME NEW q \in Streams PROVE ppc'[q] = IF q = p THEN AfterRsp(p) ELSE ppc[q]
    BY <1>13, <2>1 DEF Finish, CancelTimer
  <2>4. AfterRsp(p) \notin Working
    BY DEF AfterRsp
  <2>5. Answered(c) /\ (p \in Requests => c \in timed)
    BY <2>1 DEF TimerInv
  <2>6. \A r \in Requests : Answered(r) => Answered(r)'
    BY <2>1, <2>2
  <2>7. \A q \in Streams, r \in Requests : Held(q, r)' => Held(q, r)
    BY <2>2, <2>3, <2>4
  <2>8. p \in Streams => c \notin ctxs /\ \A q \in Streams : ~ Held(q, c)'
    BY <2>1, <2>2, <2>3, <2>4
  <2> HIDE DEF Answered, Held
  <2>9. ASSUME NEW q \in Streams, ppc'[q] \in {"rsp", "finish"} PROVE Answered(cur[q])'
    BY <2>9, <2>2, <2>3, <2>4, <2>6
  <2>10. ASSUME NEW r \in Requests, wakes'[r] > 0,
                r \in ctxs \/ \E q \in Streams : Held(q, r)'
         PROVE  r \in timed
    BY <2>10, <2>1, <2>2, <2>5, <2>7, <2>8
  <2>11. ASSUME NEW r \in Requests, wakes'[r] > 0 PROVE Answered(r)'
    BY <2>11, <2>1, <2>2, <2>5, <2>6
  <2> QED
    BY <2>2, <2>9, <2>10, <2>11
<1>14. ASSUME NEW p \in Streams, CloseSocket(p) PROVE ResultInv'
  BY <1>14 DEF CloseSocket
<1>15. ASSUME NEW p \in Streams, SwapCtxs(p) PROVE ResultInv'
  BY <1>15 DEF SwapCtxs
<1>16. ASSUME NEW p \in Streams, ClearQueue(p) PROVE ResultInv'
  BY <1>16 DEF ClearQueue
<1>17. ASSUME NEW p \in Streams, CloseDone(p) PROVE ResultInv'
  BY <1>17 DEF CloseDone
<1>18. ASSUME NEW p \in Streams, NEW r \in Requests, CloseCtx(p, r) PROVE ResultInv'
  BY <1>18 DEF CloseCtx
<1>19. CASE SetResult
  BY <1>19 DEF SetResult
<1>20. CASE SetResponse
  BY <1>20 DEF SetResponse
<1>21. ASSUME NEW r \in Requests, Receive(r) PROVE ResultInv'
  BY <1>21 DEF Receive
<1>22. CASE ReaderEnds
  BY <1>22 DEF ReaderEnds
<1>23. CASE WriterLoop
  BY <1>23 DEF WriterLoop
<1>24. CASE WriterWait
  BY <1>24 DEF WriterWait
<1>25. CASE TakeQueue
  BY <1>25 DEF TakeQueue
<1>26. CASE SendDone
  BY <1>26 DEF SendDone
<1>27. CASE SendFails
  BY <1>27 DEF SendFails
<1>28. CASE Reconnect
  BY <1>28 DEF Reconnect
<1>29. CASE StartFails
  BY <1>29 DEF StartFails
<1>30. CASE Close
  BY <1>30 DEF Close
<1>31. CASE UNCHANGED vars
  BY <1>31 DEF vars
<1> QED
  BY <1>1, <1>2, <1>3, <1>4, <1>5, <1>6, <1>7, <1>8, <1>9, <1>10, <1>11, <1>12,
     <1>13, <1>14, <1>15, <1>16, <1>17, <1>18, <1>19, <1>20, <1>21, <1>22,
     <1>23, <1>24, <1>25, <1>26, <1>27, <1>28, <1>29, <1>30, <1>31
  DEF Next, Requester, Sender, DoRsp, TimeOutCb, InnerClose, Writer, Reader

\* request() returns what the Ctx says.
LEMMA ReturnStep == RockTypeOK /\ ResultInv /\ ReturnInv /\ HonestResult /\ [Next]_vars => (ReturnInv /\ HonestResult)'
<1> SUFFICES ASSUME RockTypeOK, ResultInv, ReturnInv, HonestResult, [Next]_vars PROVE (ReturnInv /\ HonestResult)'
  OBVIOUS
<1> USE RockRequestAssumption
    DEF RockTypeOK, Working, Procs, Streams, Messages, Goto,
        streamVars, reqVars, ctxVars, procVars, ReturnInv, HonestResult
<1>1. ASSUME NEW r \in Requests, Request(r) PROVE (ReturnInv /\ HonestResult)'
  BY <1>1 DEF Request
<1>2. ASSUME NEW r \in Requests, AddCtx(r) PROVE (ReturnInv /\ HonestResult)'
  BY <1>2 DEF AddCtx
<1>3. ASSUME NEW r \in Requests, Arm(r) PROVE (ReturnInv /\ HonestResult)'
  BY <1>3 DEF Arm
<1>4. ASSUME NEW r \in Requests, ReadResult(r) PROVE (ReturnInv /\ HonestResult)'
  BY <1>4 DEF ReadResult, ResultInv, Answered
<1>5. ASSUME NEW r \in Requests, ReadResponse(r) PROVE (ReturnInv /\ HonestResult)'
  BY <1>5 DEF ReadResponse
<1>6. ASSUME NEW r \in Requests, TimeOut(r) PROVE (ReturnInv /\ HonestResult)'
  BY <1>6 DEF TimeOut
<1>7. ASSUME NEW r \in Requests, SetTimed(r) PROVE (ReturnInv /\ HonestResult)'
  BY <1>7 DEF SetTimed
<1>8. ASSUME NEW m \in Notes, SendMessage(m) PROVE (ReturnInv /\ HonestResult)'
  BY <1>8 DEF SendMessage
<1>9. ASSUME NEW m \in Messages, Enqueue(m) PROVE (ReturnInv /\ HonestResult)'
  BY <1>9 DEF Enqueue, Enqueued
<1>10. ASSUME NEW m \in Messages, NotifyWriter(m) PROVE (ReturnInv /\ HonestResult)'
  BY <1>10 DEF NotifyWriter, Enqueued
<1>11. ASSUME NEW m \in Messages, Send(m) PROVE (ReturnInv /\ HonestResult)'
  BY <1>11 DEF Send
<1>12. ASSUME NEW p \in Procs, TakeOwner(p) PROVE (ReturnInv /\ HonestResult)'
  BY <1>12 DEF TakeOwner, AfterRsp
<1>13. ASSUME NEW p \in Procs, Finish(p) PROVE (ReturnInv /\ HonestResult)'
  BY <1>13 DEF Finish, CancelTimer, AfterRsp
<1>14. ASSUME NEW p \in Streams, CloseSocket(p) PROVE (ReturnInv /\ HonestResult)'
  BY <1>14 DEF CloseSocket
<1>15. ASSUME NEW p \in Streams, SwapCtxs(p) PROVE (ReturnInv /\ HonestResult)'
  BY <1>15 DEF SwapCtxs
<1>16. ASSUME NEW p \in Streams, ClearQueue(p) PROVE (ReturnInv /\ HonestResult)'
  BY <1>16 DEF ClearQueue
<1>17. ASSUME NEW p \in Streams, CloseDone(p) PROVE (ReturnInv /\ HonestResult)'
  BY <1>17 DEF CloseDone
<1>18. ASSUME NEW p \in Streams, NEW r \in Requests, CloseCtx(p, r) PROVE (ReturnInv /\ HonestResult)'
  BY <1>18 DEF CloseCtx
<1>19. CASE SetResult
  BY <1>19 DEF SetResult
<1>20. CASE SetResponse
  BY <1>20 DEF SetResponse
<1>21. ASSUME NEW r \in Requests, Receive(r) PROVE (ReturnInv /\ HonestResult)'
  BY <1>21 DEF Receive
<1>22. CASE ReaderEnds
  BY <1>22 DEF ReaderEnds
<1>23. CASE WriterLoop
  BY <1>23 DEF WriterLoop
<1>24. CASE WriterWait
  BY <1>24 DEF WriterWait
<1>25. CASE TakeQueue
  BY <1>25 DEF TakeQueue
<1>26. CASE SendDone
  BY <1>26 DEF SendDone
<1>27. CASE SendFails
  BY <1>27 DEF SendFails
<1>28. CASE Reconnect
  BY <1>28 DEF Reconnect
<1>29. CASE StartFails
  BY <1>29 DEF StartFails
<1>30. CASE Close
  BY <1>30 DEF Close
<1>31. CASE UNCHANGED vars
  BY <1>31 DEF vars
<1> QED
  BY <1>1, <1>2, <1>3, <1>4, <1>5, <1>6, <1>7, <1>8, <1>9, <1>10, <1>11, <1>12,
     <1>13, <1>14, <1>15, <1>16, <1>17, <1>18, <1>19, <1>20, <1>21, <1>22,
     <1>23, <1>24, <1>25, <1>26, <1>27, <1>28, <1>29, <1>30, <1>31
  DEF Next, Requester, Sender, DoRsp, TimeOutCb, InnerClose, Writer, Reader

\* A coroutine is scheduled by the party that took Ctx::scheduler, once.
LEMMA OnceStep == RockTypeOK /\ OwnerInv /\ ResumedOnce /\ [Next]_vars => ResumedOnce'
<1> SUFFICES ASSUME RockTypeOK, OwnerInv, ResumedOnce, [Next]_vars PROVE ResumedOnce'
  OBVIOUS
<1> USE RockRequestAssumption
    DEF RockTypeOK, Working, Procs, Streams, Messages, Goto,
        streamVars, reqVars, ctxVars, procVars, ResumedOnce
<1>1. ASSUME NEW r \in Requests, Request(r) PROVE ResumedOnce'
  BY <1>1 DEF Request
<1>2. ASSUME NEW r \in Requests, AddCtx(r) PROVE ResumedOnce'
  BY <1>2 DEF AddCtx
<1>3. ASSUME NEW r \in Requests, Arm(r) PROVE ResumedOnce'
  BY <1>3 DEF Arm
<1>4. ASSUME NEW r \in Requests, ReadResult(r) PROVE ResumedOnce'
  BY <1>4 DEF ReadResult
<1>5. ASSUME NEW r \in Requests, ReadResponse(r) PROVE ResumedOnce'
  BY <1>5 DEF ReadResponse
<1>6. ASSUME NEW r \in Requests, TimeOut(r) PROVE ResumedOnce'
  BY <1>6 DEF TimeOut
<1>7. ASSUME NEW r \in Requests, SetTimed(r) PROVE ResumedOnce'
  BY <1>7 DEF SetTimed
<1>8. ASSUME NEW m \in Notes, SendMessage(m) PROVE ResumedOnce'
  BY <1>8 DEF SendMessage
<1>9. ASSUME NEW m \in Messages, Enqueue(m) PROVE ResumedOnce'
  BY <1>9 DEF Enqueue, Enqueued
<1>10. ASSUME NEW m \in Messages, NotifyWriter(m) PROVE ResumedOnce'
  BY <1>10 DEF NotifyWriter, Enqueued
<1>11. ASSUME NEW m \in Messages, Send(m) PROVE ResumedOnce'
  BY <1>11 DEF Send
<1>12. ASSUME NEW p \in Procs, TakeOwner(p) PROVE ResumedOnce'
  BY <1>12 DEF TakeOwner, AfterRsp
<1>13. ASSUME NEW p \in Procs, Finish(p) PROVE ResumedOnce'
  BY <1>13 DEF Finish, OwnerInv
<1>14. ASSUME NEW p \in Streams, CloseSocket(p) PROVE ResumedOnce'
  BY <1>14 DEF CloseSocket
<1>15. ASSUME NEW p \in Streams, SwapCtxs(p) PROVE ResumedOnce'
  BY <1>15 DEF SwapCtxs
<1>16. ASSUME NEW p \in Streams, ClearQueue(p) PROVE ResumedOnce'
  BY <1>16 DEF ClearQueue
<1>17. ASSUME NEW p \in Streams, CloseDone(p) PROVE ResumedOnce'
  BY <1>17 DEF CloseDone
<1>18. ASSUME NEW p \in Streams, NEW r \in Requests, CloseCtx(p, r) PROVE ResumedOnce'
  BY <1>18 DEF CloseCtx
<1>19. CASE SetResult
  BY <1>19 DEF SetResult
<1>20. CASE SetResponse
  BY <1>20 DEF SetResponse
<1>21. ASSUME NEW r \in Requests, Receive(r) PROVE ResumedOnce'
  BY <1>21 DEF Receive
<1>22. CASE ReaderEnds
  BY <1>22 DEF ReaderEnds
<1>23. CASE WriterLoop
  BY <1>23 DEF WriterLoop
<1>24. CASE WriterWait
  BY <1>24 DEF WriterWait
<1>25. CASE TakeQueue
  BY <1>25 DEF TakeQueue
<1>26. CASE SendDone
  BY <1>26 DEF SendDone
<1>27. CASE SendFails
  BY <1>27 DEF SendFails
<1>28. CASE Reconnect
  BY <1>28 DEF Reconnect
<1>29. CASE StartFails
  BY <1>29 DEF StartFails
<1>30. CASE Close
  BY <1>30 DEF Close
<1>31. CASE UNCHANGED vars
  BY <1>31 DEF vars
<1> QED
  BY <1>1, <1>2, <1>3, <1>4, <1>5, <1>6, <1>7, <1>8, <1>9, <1>10, <1>11, <1>12,
     <1>13, <1>14, <1>15, <1>16, <1>17, <1>18, <1>19, <1>20, <1>21, <1>22,
     <1>23, <1>24, <1>25, <1>26, <1>27, <1>28, <1>29, <1>30, <1>31
  DEF Next, Requester, Sender, DoRsp, TimeOutCb, InnerClose, Writer, Reader

\* Every step keeps the invariant.
LEMMA RockStep == RockInv /\ [Next]_vars => RockInv'
<1> SUFFICES ASSUME RockInv, [Next]_vars PROVE RockInv'
  OBVIOUS
<1>1. RockTypeOK' /\ TimerInv'
  BY RockTypeStep, TimerStep DEF RockInv
<1>2. OwnerInv' /\ HeldInv' /\ FreshInv'
  BY OwnerStep, HeldStep, FreshStep DEF RockInv
<1>3. ResultInv' /\ (ReturnInv /\ HonestResult)'
  BY ResultStep, ReturnStep DEF RockInv
<1>4. QueueInv' /\ ResumedOnce'
  BY QueueStep, OnceStep DEF RockInv
<1> QED
  BY <1>1, <1>2, <1>3, <1>4 DEF RockInv

\* The invariant holds throughout.
LEMMA RockInvariant == Spec => []RockInv
  BY RockInit, RockStep, PTL DEF Spec

\* Whoever completes a request, and however many do at once (the response, the
\* timer, innerClose() of any of the stream's coroutines), doRsp() schedules the
\* requesting coroutine at most once.
THEOREM ResumedOnceHolds == Spec => []ResumedOnce
<1>1. RockInv => ResumedOnce
  BY DEF RockInv
<1> QED
  BY <1>1, RockInvariant, PTL

\* No message waits in m_queue without the writing coroutine being notified of it,
\* although enqueue() notifies only if m_queue was empty and notifies after it has
\* released the mutex.
THEOREM NoLostMessageHolds == Spec => []NoLostMessage
<1>1. RockInv => NoLostMessage
  BY DEF RockInv, QueueInv, NoLostMessage
<1> QED
  BY <1>1, RockInvariant, PTL

\* request() returns OK without a response only if its timer expired meanwhile.
THEOREM HonestResultHolds == Spec => []HonestResult
<1>1. RockInv => HonestResult
  BY DEF RockInv
<1> QED
  BY <1>1, RockInvariant, PTL
=============================================================================
