---------------------------- MODULE RockRequest ----------------------------
(***************************************************************************)
(* Requests on a RockStream (src/src/rock/rock_stream.cpp) over an         *)
(* AsyncSocketStream (src/src/streams/async_socket_stream.cpp).            *)
(*                                                                         *)
(* request() files a Ctx under the request's sn, arms a timer, queues the  *)
(* message and yields.  Three parties may complete the Ctx: the reading    *)
(* coroutine with the response, the timer's callback, and innerClose(),    *)
(* which the reading coroutine, the writing coroutine and a failing start()*)
(* call.  They meet in Ctx::doRsp().  The sns of the requests are distinct *)
(* (an atomic counter in NSClient), so a request stands for its sn; the    *)
(* order of the messages in m_queue is left out.                           *)
(***************************************************************************)
EXTENDS Integers, FiniteSets

CONSTANTS
    Requests,      \* the requests, each made once by a coroutine of its own
    Notes,         \* messages without a response, handed to sendMessage() once
    MaxConnects,   \* bound: how often start() is called
    OneThread      \* the IOManager has a single thread

ASSUME RockRequestAssumption ==
    /\ MaxConnects \in Nat /\ OneThread \in BOOLEAN
    /\ {"reader", "writer", "starter"} \cap Requests = {}
    /\ Notes \cap Requests = {}

\* Who runs doRsp(): the stream's coroutines (doRead, doWrite and start), and the
\* callback of the timer of a request, which goes by the request's name.
Streams == {"reader", "writer", "starter"}
Procs == Streams \cup Requests
Messages == Requests \cup Notes

VARIABLES
    connected,  \* isConnected()
    connects,   \* the number of calls of start() so far
    ctxs,       \* m_ctxs
    queue,      \* m_queue
    sem,        \* m_sem
    out,        \* the messages that doWrite() took from m_queue
    sent,       \* requests that the peer has and may answer
    rpc,        \* a coroutine in request() or sendMessage()
    ret,        \* what request() returned: the result, and whether a response
    owner,      \* requests whose Ctx::scheduler is set
    result,     \* Ctx::result
    response,   \* requests whose Ctx::response is set
    timed,      \* requests whose Ctx::timed is set
    wakes,      \* how often the coroutine was scheduled
    ppc,        \* a party: where it is
    cur,        \* the Ctx it completes
    batch,      \* innerClose(): the Ctxs it took from m_ctxs
    passes      \* how many innerClose() calls it still makes

ctxVars == <<owner, result, response, timed, wakes>>
reqVars == <<rpc, ret>>
procVars == <<ppc, cur, batch, passes>>
streamVars == <<connected, connects, ctxs, queue, sem, out, sent>>
vars == <<streamVars, reqVars, ctxVars, procVars>>

Init ==
    /\ connected = TRUE
    /\ connects = 1
    /\ ctxs = {} /\ queue = {} /\ out = {} /\ sent = {}
    /\ sem = 0
    /\ rpc = [m \in Messages |-> "idle"]
    /\ ret = [r \in Requests |-> <<"none", FALSE>>]
    /\ owner = {}
    /\ result = [r \in Requests |-> "OK"]
    /\ response = {}
    /\ timed = {}
    /\ wakes = [r \in Requests |-> 0]
    /\ ppc = [p \in Procs |-> IF p = "reader" THEN "recv"
                              ELSE IF p = "writer" THEN "loop" ELSE "off"]
    /\ cur = [p \in Procs |-> p]
    /\ batch = [p \in Procs |-> {}]
    /\ passes = [p \in Procs |-> 0]

\* Where a party, or a requesting coroutine, is between two yields.
Resting == {"recv", "wait", "sending", "off", "armed", "out"}
BusyProc(p) == ppc[p] \notin Resting
BusyRequest(m) == rpc[m] \in {"add", "arm", "enqueue", "notify"}

\* One thread runs a coroutine from yield to yield.
MayRun(x) ==
    OneThread => /\ \A p \in Procs : BusyProc(p) => p = x
                 /\ \A m \in Messages : BusyRequest(m) => m = x

Goto(p, l) == ppc' = [ppc EXCEPT ![p] = l]

-----------------------------------------------------------------------------
(* RockStream::request()                                                   *)

\* isConnected(); the Ctx is created.
Request(r) ==
    /\ rpc[r] = "idle" /\ MayRun(r)
    /\ rpc' = [rpc EXCEPT ![r] = IF connected THEN "add" ELSE "done"]
    /\ ret' = [ret EXCEPT ![r] = IF connected THEN @ ELSE <<"NOT_CONNECT", FALSE>>]
    /\ owner' = IF connected THEN owner \cup {r} ELSE owner
    /\ UNCHANGED <<streamVars, result, response, timed, wakes, procVars>>

AddCtx(r) ==
    /\ rpc[r] = "add"
    /\ ctxs' = ctxs \cup {r}
    /\ rpc' = [rpc EXCEPT ![r] = "arm"]
    /\ UNCHANGED <<connected, connects, queue, sem, out, sent, ret, ctxVars, procVars>>

\* Mistake for the mutation tests: no timer.
ArmNoTimer(r) ==
    /\ rpc[r] = "arm"
    /\ rpc' = [rpc EXCEPT ![r] = "enqueue"]
    /\ UNCHANGED <<streamVars, ret, ctxVars, procVars>>

\* ctx->timer = addTimer(onTimeOut)
Arm(r) ==
    /\ rpc[r] = "arm"
    /\ Goto(r, "armed")
    /\ rpc' = [rpc EXCEPT ![r] = "enqueue"]
    /\ UNCHANGED <<streamVars, ret, ctxVars, cur, batch, passes>>

\* RockStream::sendMessage(): isConnected(), then enqueue()
SendMessage(m) ==
    /\ rpc[m] = "idle" /\ MayRun(m)
    /\ rpc' = [rpc EXCEPT ![m] = IF connected THEN "enqueue" ELSE "done"]
    /\ UNCHANGED <<streamVars, ret, ctxVars, procVars>>

\* A request yields after enqueue(), sendMessage() returns.
Enqueued(m) == IF m \in Requests THEN "held" ELSE "done"

\* Mistake for the mutation tests: the writer is notified only when it has
\* nothing in hand.
EnqueueIfIdle(m) ==
    /\ rpc[m] = "enqueue"
    /\ queue' = queue \cup {m}
    /\ rpc' = [rpc EXCEPT ![m] = IF queue = {} /\ out = {} THEN "notify" ELSE Enqueued(m)]
    /\ UNCHANGED <<connected, connects, ctxs, sem, out, sent, ret, ctxVars, procVars>>

\* enqueue() under m_queueMutex
Enqueue(m) ==
    /\ rpc[m] = "enqueue"
    /\ queue' = queue \cup {m}
    /\ rpc' = [rpc EXCEPT ![m] = IF queue = {} THEN "notify" ELSE Enqueued(m)]
    /\ UNCHANGED <<connected, connects, ctxs, sem, out, sent, ret, ctxVars, procVars>>

\* ... and m_sem.notify() after it, if m_queue was empty
NotifyWriter(m) ==
    /\ rpc[m] = "notify"
    /\ sem' = sem + 1
    /\ rpc' = [rpc EXCEPT ![m] = Enqueued(m)]
    /\ UNCHANGED <<connected, connects, ctxs, queue, out, sent, ret, ctxVars, procVars>>

\* The coroutine runs again; it reads ctx->result ...
ReadResult(r) ==
    /\ rpc[r] = "held" /\ wakes[r] > 0
    /\ MayRun(r)
    /\ rpc' = [rpc EXCEPT ![r] = "read"]
    /\ ret' = [ret EXCEPT ![r] = <<result[r], FALSE>>]
    /\ UNCHANGED <<streamVars, ctxVars, procVars>>

\* ... and ctx->response.
ReadResponse(r) ==
    /\ rpc[r] = "read"
    /\ rpc' = [rpc EXCEPT ![r] = "done"]
    /\ ret' = [ret EXCEPT ![r] = <<@[1], r \in response>>]
    /\ UNCHANGED <<streamVars, ctxVars, procVars>>

-----------------------------------------------------------------------------
(* Ctx::doRsp()                                                            *)

\* Where a party goes on after doRsp().
AfterRsp(p) == IF passes[p] > 0 THEN "next" ELSE IF p = "reader" THEN "recv" ELSE "off"

\* Mistake for the mutation tests: Ctx::scheduler is not exchanged for null.
TakeOwnerAlways(p) ==
    /\ ppc[p] = "rsp"
    /\ Goto(p, "finish")
    /\ UNCHANGED <<streamVars, reqVars, ctxVars, cur, batch, passes>>

\* compareAndSwap of Ctx::scheduler: one party goes on.
TakeOwner(p) ==
    /\ ppc[p] = "rsp"
    /\ owner' = owner \ {cur[p]}
    /\ Goto(p, IF cur[p] \in owner THEN "finish" ELSE AfterRsp(p))
    /\ UNCHANGED <<streamVars, reqVars, result, response, timed, wakes, cur, batch, passes>>

\* timer->cancel()
CancelTimer(p) ==
    LET r == cur[p] IN
    ppc' = [ppc EXCEPT ![p] = AfterRsp(p),
                       ![r] = IF p # r /\ @ = "armed" THEN "off"
                              ELSE IF p = r THEN AfterRsp(p) ELSE @]

\* The rest: cancel the timer, look at Ctx::timed, schedule the coroutine.
Finish(p) ==
    LET r == cur[p] IN
    /\ ppc[p] = "finish"
    /\ CancelTimer(p)
    /\ result' = [result EXCEPT ![r] = IF r \in timed THEN "TIMEOUT" ELSE @]
    /\ wakes' = [wakes EXCEPT ![r] = @ + 1]
    /\ UNCHANGED <<streamVars, reqVars, owner, response, timed, cur, batch, passes>>

-----------------------------------------------------------------------------
(* onTimeOut(), the callback of the timer of r.                            *)

\* m_ctxs.erase(ctx->sn)
TimeOut(r) ==
    /\ ppc[r] = "armed" /\ MayRun(r)
    /\ ctxs' = ctxs \ {r}
    /\ Goto(r, "timed")
    /\ UNCHANGED <<connected, connects, queue, sem, out, sent, reqVars, ctxVars, cur, batch, passes>>

\* ctx->timed = true
SetTimed(r) ==
    /\ ppc[r] = "timed"
    /\ timed' = timed \cup {r}
    /\ Goto(r, "rsp")
    /\ UNCHANGED <<streamVars, reqVars, owner, result, response, wakes, cur, batch, passes>>

-----------------------------------------------------------------------------
(* doRead() and doRecv()                                                   *)

\* A response arrives: getAndDelCtx(sn); without a Ctx it is dropped.
Receive(r) ==
    /\ ppc["reader"] = "recv" /\ connected /\ MayRun("reader")
    /\ r \in sent
    /\ sent' = sent \ {r}
    /\ ctxs' = ctxs \ {r}
    /\ Goto("reader", IF r \in ctxs THEN "result" ELSE "recv")
    /\ cur' = [cur EXCEPT !["reader"] = IF r \in ctxs THEN r ELSE "reader"]
    /\ UNCHANGED <<connected, connects, queue, sem, out, reqVars, ctxVars, batch, passes>>

\* ctx->result = rsp->getResult()
SetResult ==
    /\ ppc["reader"] = "result"
    /\ result' = [result EXCEPT ![cur["reader"]] = "OK"]
    /\ Goto("reader", "response")
    /\ UNCHANGED <<streamVars, reqVars, owner, response, timed, wakes, cur, batch, passes>>

\* ctx->response = rsp; then doRsp()
SetResponse ==
    /\ ppc["reader"] = "response"
    /\ response' = response \cup {cur["reader"]}
    /\ Goto("reader", "rsp")
    /\ UNCHANGED <<streamVars, reqVars, owner, result, timed, wakes, cur, batch, passes>>

\* The peer is gone, or the socket was closed: doRecv() and, after the loop,
\* doRead() call innerClose(); only doRead() does when the loop's test sees the
\* closed socket first.
ReaderEnds ==
    /\ ppc["reader"] = "recv" /\ MayRun("reader")
    /\ Goto("reader", "close")
    /\ \E n \in IF connected THEN {2} ELSE {1, 2} :
           passes' = [passes EXCEPT !["reader"] = n]
    /\ UNCHANGED <<streamVars, reqVars, ctxVars, cur, batch>>

-----------------------------------------------------------------------------
(* doWrite()                                                               *)

\* while (isConnected()); when it ends the queue is cleared.
WriterLoop ==
    /\ ppc["writer"] = "loop"
    /\ queue' = IF connected THEN queue ELSE {}
    /\ Goto("writer", IF connected THEN "wait" ELSE "out")
    /\ UNCHANGED <<connected, connects, ctxs, sem, out, sent, reqVars, ctxVars, cur, batch, passes>>

\* m_sem.wait()
WriterWait ==
    /\ ppc["writer"] = "wait" /\ MayRun("writer")
    /\ sem > 0
    /\ sem' = sem - 1
    /\ Goto("writer", "take")
    /\ UNCHANGED <<connected, connects, ctxs, queue, out, sent, reqVars, ctxVars, cur, batch, passes>>

\* m_queue.swap(ctxs)
TakeQueue ==
    /\ ppc["writer"] = "take"
    /\ out' = queue
    /\ queue' = {}
    /\ Goto("writer", "sending")
    /\ UNCHANGED <<connected, connects, ctxs, sem, sent, reqVars, ctxVars, cur, batch, passes>>

\* doSend()
Send(m) ==
    /\ ppc["writer"] = "sending" /\ connected /\ MayRun("writer")
    /\ m \in out
    /\ out' = out \ {m}
    /\ sent' = IF m \in Requests THEN sent \cup {m} ELSE sent
    /\ UNCHANGED <<connected, connects, ctxs, queue, sem, reqVars, ctxVars, procVars>>

\* doSend() fails, as it does on a closed socket: innerClose(), and the rest of
\* the batch is dropped.
SendFails ==
    /\ ppc["writer"] = "sending" /\ MayRun("writer")
    /\ out # {}
    /\ out' = {}
    /\ Goto("writer", "close")
    /\ passes' = [passes EXCEPT !["writer"] = 1]
    /\ UNCHANGED <<connected, connects, ctxs, queue, sem, sent, reqVars, ctxVars, cur, batch>>

SendDone ==
    /\ ppc["writer"] = "sending" /\ MayRun("writer")
    /\ out = {}
    /\ Goto("writer", "loop")
    /\ UNCHANGED <<streamVars, reqVars, ctxVars, cur, batch, passes>>

-----------------------------------------------------------------------------
(* innerClose()                                                            *)

\* Mistake for the mutation tests: the writer is not notified.
CloseSocketQuietly(p) ==
    /\ ppc[p] = "close"
    /\ connected' = FALSE
    /\ sent' = {}
    /\ Goto(p, "swap")
    /\ UNCHANGED <<connects, ctxs, queue, sem, out, reqVars, ctxVars, cur, batch, passes>>

\* SocketStream::close() and m_sem.notify(); what the peer answers is lost.
CloseSocket(p) ==
    /\ ppc[p] = "close"
    /\ connected' = FALSE
    /\ sent' = {}
    /\ sem' = sem + 1
    /\ Goto(p, "swap")
    /\ UNCHANGED <<connects, ctxs, queue, out, reqVars, ctxVars, cur, batch, passes>>

\* ctxs.swap(m_ctxs)
SwapCtxs(p) ==
    /\ ppc[p] = "swap"
    /\ batch' = [batch EXCEPT ![p] = ctxs]
    /\ ctxs' = {}
    /\ Goto(p, "clear")
    /\ UNCHANGED <<connected, connects, queue, sem, out, sent, reqVars, ctxVars, cur, passes>>

\* m_queue.clear()
ClearQueue(p) ==
    /\ ppc[p] = "clear"
    /\ queue' = {}
    /\ Goto(p, "next")
    /\ UNCHANGED <<connected, connects, ctxs, sem, out, sent, reqVars, ctxVars, cur, batch, passes>>

\* Mistake for the mutation tests: the result is not set.
CloseCtxSilently(p, r) ==
    /\ ppc[p] = "next" /\ r \in batch[p]
    /\ batch' = [batch EXCEPT ![p] = @ \ {r}]
    /\ cur' = [cur EXCEPT ![p] = r]
    /\ Goto(p, "rsp")
    /\ UNCHANGED <<streamVars, reqVars, ctxVars, passes>>

\* result = IO_ERROR for each of them; then doRsp()
CloseCtx(p, r) ==
    /\ ppc[p] = "next" /\ r \in batch[p]
    /\ batch' = [batch EXCEPT ![p] = @ \ {r}]
    /\ cur' = [cur EXCEPT ![p] = r]
    /\ result' = [result EXCEPT ![r] = "IO_ERROR"]
    /\ Goto(p, "rsp")
    /\ UNCHANGED <<streamVars, reqVars, owner, response, timed, wakes, passes>>

\* innerClose() returns.
CloseDone(p) ==
    /\ ppc[p] = "next" /\ batch[p] = {}
    /\ passes' = [passes EXCEPT ![p] = @ - 1]
    /\ cur' = [cur EXCEPT ![p] = p]
    /\ Goto(p, IF passes[p] > 1 THEN "close" ELSE
               IF p = "reader" THEN "out" ELSE IF p = "writer" THEN "loop" ELSE "off")
    /\ UNCHANGED <<streamVars, reqVars, ctxVars, batch>>

-----------------------------------------------------------------------------
(* start() and close()                                                     *)

\* start(): waitFiber() until both coroutines have ended; reconnect() succeeds.
Reconnect ==
    /\ ppc["reader"] = "out" /\ ppc["writer"] = "out" /\ ppc["starter"] = "off"
    /\ MayRun("starter")
    /\ connects < MaxConnects
    /\ connects' = connects + 1
    /\ connected' = TRUE
    /\ ppc' = [ppc EXCEPT !["reader"] = "recv", !["writer"] = "loop"]
    /\ UNCHANGED <<ctxs, queue, sem, out, sent, reqVars, ctxVars, cur, batch, passes>>

\* reconnect() or the connect callback fails: innerClose(), and start() is
\* called again later.
StartFails ==
    /\ ppc["reader"] = "out" /\ ppc["writer"] = "out" /\ ppc["starter"] = "off"
    /\ MayRun("starter")
    /\ connects < MaxConnects
    /\ connects' = connects + 1
    /\ Goto("starter", "close")
    /\ passes' = [passes EXCEPT !["starter"] = 1]
    /\ UNCHANGED <<connected, ctxs, queue, sem, out, sent, reqVars, ctxVars, cur, batch>>

\* The user's close().  Whether start() is called afterwards is left open.
Close ==
    /\ connected /\ MayRun("starter")
    /\ connected' = FALSE
    /\ sent' = {}
    /\ UNCHANGED <<connects, ctxs, queue, sem, out, reqVars, ctxVars, procVars>>

-----------------------------------------------------------------------------
Requester(r) == AddCtx(r) \/ Arm(r) \/ ReadResult(r) \/ ReadResponse(r)
Sender(m) == Enqueue(m) \/ NotifyWriter(m)
DoRsp(p) == TakeOwner(p) \/ Finish(p)
TimeOutCb(r) == TimeOut(r) \/ SetTimed(r)
InnerClose(p) ==
    \/ CloseSocket(p) \/ SwapCtxs(p) \/ ClearQueue(p) \/ CloseDone(p)
    \/ (\E r \in Requests : CloseCtx(p, r))
Writer == WriterLoop \/ WriterWait \/ TakeQueue \/ SendDone
Reader == SetResult \/ SetResponse \/ \E r \in Requests : Receive(r)

Next ==
    \/ \E r \in Requests : Request(r) \/ Requester(r) \/ TimeOutCb(r)
    \/ \E m \in Notes : SendMessage(m)
    \/ \E m \in Messages : Sender(m) \/ Send(m)
    \/ \E p \in Procs : DoRsp(p)
    \/ \E p \in Streams : InnerClose(p)
    \/ Reader \/ ReaderEnds \/ Writer \/ SendFails
    \/ Reconnect \/ StartFails \/ Close

Spec == Init /\ [][Next]_vars

\* Coroutines that can run do, and timers expire.  A closed socket ends what
\* waits for it (close() cancels the events of the descriptor).  Nothing is assumed
\* of the peer, of an open socket or of the reconnection.
LiveSpec ==
    /\ Spec
    /\ \A r \in Requests :
          /\ WF_vars(Requester(r) \/ Sender(r))
          /\ WF_vars(TimeOutCb(r) \/ DoRsp(r))
    /\ \A m \in Notes : WF_vars(Sender(m))
    /\ WF_vars(\/ SetResult \/ SetResponse \/ DoRsp("reader") \/ InnerClose("reader")
               \/ ~connected /\ ReaderEnds)
    /\ WF_vars(\/ Writer \/ DoRsp("writer") \/ InnerClose("writer")
               \/ ~connected /\ SendFails)
    /\ WF_vars(DoRsp("starter") \/ InnerClose("starter"))

-----------------------------------------------------------------------------
(* Properties.                                                             *)

\* A requesting coroutine is scheduled at most once, although a response, its
\* timeout and innerClose() of two coroutines may complete it together.
ResumedOnce == \A r \in Requests : wakes[r] <= 1

\* enqueue() notifies only when m_queue was empty, and still no message stays
\* unnoticed: if there is one, the writer is on its way to it or will not wait.
NoLostMessage ==
    connected /\ queue # {} =>
        \/ sem > 0 \/ ppc["writer"] = "take"
        \/ \E m \in Messages : rpc[m] = "notify"

\* request() returns the result OK only together with a response, unless its
\* timeout raced the response: doRecv() writes the result and the response
\* before doRsp() finds out that the timeout has completed the request.
HonestResult ==
    \A r \in Requests :
        rpc[r] = "done" /\ ret[r][1] = "OK" => ret[r][2] \/ r \in timed

\* Every request returns, whatever the peer and the connection do.
RequestsReturn == \A r \in Requests : (rpc[r] = "add") ~> (rpc[r] = "done")

\* After the socket is closed, whoever closes it, doRead() and doWrite() both end,
\* so that waitFiber() in start() returns.
StreamEnds ==
    ~connected ~> (ppc["reader"] = "out" /\ ppc["writer"] = "out")
=============================================================================
