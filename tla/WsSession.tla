----------------------------- MODULE WsSession ------------------------------
(***************************************************************************)
(* A WebSocket connection: WSServer::handleClient(), WSRecvMessage() and   *)
(* WSSendMessage() (src/src/http/ws_server.cpp, ws_session.cpp) and the    *)
(* callbacks of the gateway (src/src/api/ws_gateway_module.cpp).  The wire *)
(* from the client is a sequence of tokens: the two bytes of a head with   *)
(* the length, a masking key, and the bytes of a payload.                  *)
(***************************************************************************)
EXTENDS Integers, Sequences, FiniteSets, SequencesExt

CONSTANTS
    WsMaxSize,    \* websocket.message.max_size
    WsLens,       \* payload lengths of frames
    WsMaxFrames   \* bound: frames the client sends

ASSUME WsSessionAssumption == WsMaxSize \in Nat /\ WsLens \subseteq Nat /\ WsMaxFrames \in Nat

VARIABLES
    wsAt,     \* handleClient(): shake, connect, recv, handle, close, ended
    wsOpen,   \* the socket is open
    wsWire,   \* tokens from the client not read yet
    wsData,   \* data and opcode of WSRecvMessage(), or the message it returned
    wsTable,  \* the session is in s_ws_conns
    wsGot,    \* messages handed to the callback
    wsEvent,  \* the last event sent to the client
    wsSent,   \* the messages the client completed
    wsDraft,  \* the message it is in the middle of
    wsFrames, \* frames it sent
    wsSkewed  \* what follows on the wire is not read at a frame's start

wsVars == <<wsAt, wsOpen, wsWire, wsData, wsTable, wsGot, wsEvent, wsSent, wsDraft, wsFrames, wsSkewed>>

WsNoData == [op |-> "none", bytes |-> <<>>]

WsInit ==
    /\ wsAt = "shake" /\ wsOpen = TRUE
    /\ wsWire = <<>> /\ wsData = WsNoData
    /\ wsTable = FALSE /\ wsGot = <<>> /\ wsEvent = "none"
    /\ wsSent = <<>> /\ wsDraft = WsNoData /\ wsFrames = 0 /\ wsSkewed = FALSE

-----------------------------------------------------------------------------
(* The client                                                              *)

WsHead(op, fin, len, mask) == [k |-> "head", op |-> op, fin |-> fin, len |-> len, mask |-> mask]
WsBody(len) == [j \in 1 .. len |-> [k |-> "byte", v |-> wsFrames]]
WsKey(mask) == IF mask THEN <<[k |-> "key"]>> ELSE <<>>

\* A frame: a message starts with its opcode and goes on with CONTINUE; control frames lie between.
WsClientSends(op, fin, len, mask) ==
    /\ wsOpen /\ wsAt \in {"recv", "handle"} /\ wsFrames < WsMaxFrames
    /\ wsFrames' = wsFrames + 1
    /\ op = "cont" <=> (wsDraft.op # "none" /\ op \notin {"ping", "close"})
    /\ wsWire' = wsWire \o <<WsHead(op, fin, len, mask)>> \o WsKey(mask) \o WsBody(len)
    /\ LET bytes == wsDraft.bytes \o [j \in 1 .. len |-> wsFrames]
           first == IF op = "cont" THEN wsDraft.op ELSE op
       IN  CASE op \in {"ping", "close"} -> UNCHANGED <<wsSent, wsDraft>>
             [] fin /\ op \notin {"ping", "close"} ->
                    wsSent' = Append(wsSent, [op |-> first, bytes |-> bytes]) /\ wsDraft' = WsNoData
             [] OTHER -> wsDraft' = [op |-> first, bytes |-> bytes] /\ UNCHANGED wsSent
    /\ UNCHANGED <<wsAt, wsOpen, wsData, wsTable, wsGot, wsEvent, wsSkewed>>

\* The connection breaks or is closed.
WsBreak ==
    /\ wsOpen /\ wsOpen' = FALSE
    /\ UNCHANGED <<wsAt, wsWire, wsData, wsTable, wsGot, wsEvent, wsSent, wsDraft, wsFrames, wsSkewed>>

-----------------------------------------------------------------------------
(* handleClient()                                                          *)

\* handleShake() and the servlet lookup
WsShake(ok) ==
    /\ wsAt = "shake"
    /\ wsAt' = IF ok /\ wsOpen THEN "connect" ELSE "ended"
    /\ wsOpen' = (wsOpen /\ ok)
    /\ UNCHANGED <<wsWire, wsData, wsTable, wsGot, wsEvent, wsSent, wsDraft, wsFrames, wsSkewed>>

\* SendEvent(): a failed write closes the stream, which a later read notices.
WsEvent(e) == wsEvent' = IF wsOpen THEN e ELSE wsEvent

\* on_connect: a bad token is answered and refused, without onClose.
WsConnect(ok) ==
    /\ wsAt = "connect"
    /\ wsAt' = IF ok THEN "recv" ELSE "ended"
    /\ wsTable' = ok
    /\ WsEvent(IF ok THEN "connect" ELSE "error")
    /\ wsOpen' = (wsOpen /\ ok)
    /\ UNCHANGED <<wsWire, wsData, wsGot, wsSent, wsDraft, wsFrames, wsSkewed>>

\* WSRecvMessage() gives up: the stream is closed and nullptr returned.
WsGiveUp ==
    /\ wsAt' = "close" /\ wsOpen' = FALSE
    /\ UNCHANGED <<wsWire, wsData, wsTable, wsGot, wsEvent, wsSent, wsDraft, wsFrames, wsSkewed>>

\* A control frame or an unknown opcode: the loop reads on behind the head,
\* so a key or a payload is left to be taken for the next head.
WsControl(head) ==
    /\ head.op \in {"ping", "close"}
    /\ wsWire' = Tail(wsWire)
    /\ wsSkewed' = (head.mask \/ head.len > 0)
    /\ IF head.op = "ping" THEN WsEvent("pong") ELSE UNCHANGED wsEvent
    /\ UNCHANGED <<wsAt, wsOpen, wsData, wsTable, wsGot, wsSent, wsDraft, wsFrames>>

\* What ends the connection: no mask, a message too long, an empty payload (readFixSize() returns 0).
WsRefused(head) ==
    \/ ~head.mask
    \/ Len(wsData.bytes) + head.len >= WsMaxSize
    \/ head.len = 0

\* Mistake for the mutation tests: a fragment overwrites the ones before it.
WsAppendFresh(bytes) == bytes
WsAppend(bytes) == wsData.bytes \o bytes

WsFragment(head) ==
    LET n == 2 + head.len
        bytes == [j \in 1 .. head.len |-> wsWire[2 + j].v]
    IN  /\ head.op \in {"text", "cont"} /\ ~WsRefused(head)
        /\ wsWire' = SubSeq(wsWire, n + 1, Len(wsWire))
        /\ wsData' = [op |-> IF wsData.op = "none" /\ head.op # "cont" THEN head.op ELSE wsData.op,
                      bytes |-> WsAppend(bytes)]
        /\ wsAt' = IF head.fin THEN "handle" ELSE "recv"
        /\ UNCHANGED <<wsOpen, wsTable, wsGot, wsEvent, wsSent, wsDraft, wsFrames, wsSkewed>>

WsRecv ==
    /\ wsAt = "recv" /\ ~wsSkewed
    /\ \/ /\ wsWire # <<>> /\ Head(wsWire).k = "head"
          /\ \/ WsControl(Head(wsWire))
             \/ WsFragment(Head(wsWire))
             \/ Head(wsWire).op \in {"text", "cont"} /\ WsRefused(Head(wsWire)) /\ WsGiveUp
             \/ Head(wsWire).op = "ping" /\ ~wsOpen /\ WsGiveUp   \* WSPong() fails
       \/ wsWire = <<>> /\ ~wsOpen /\ WsGiveUp

\* Bytes of a key or a payload read as a head say anything: skipped, a message, or the end.
WsRecvSkewed ==
    /\ wsAt = "recv" /\ wsSkewed
    /\ \/ /\ wsWire # <<>> /\ wsWire' = Tail(wsWire)
          /\ UNCHANGED <<wsAt, wsOpen, wsData, wsTable, wsGot, wsEvent, wsSent, wsDraft, wsFrames, wsSkewed>>
       \/ /\ wsWire # <<>> /\ wsWire' = <<>> /\ wsAt' = "handle" /\ wsData' = [op |-> "text", bytes |-> <<0>>]
          /\ UNCHANGED <<wsOpen, wsTable, wsGot, wsEvent, wsSent, wsDraft, wsFrames, wsSkewed>>
       \/ (wsWire # <<>> \/ ~wsOpen) /\ WsGiveUp

\* on_message: ping and echo are answered, the rest is ignored; it never refuses.
WsHandle(e) ==
    /\ wsAt = "handle" /\ wsAt' = "recv"
    /\ wsGot' = Append(wsGot, wsData)
    /\ wsData' = WsNoData
    /\ IF e = "none" THEN UNCHANGED wsEvent ELSE WsEvent(e)
    /\ UNCHANGED <<wsOpen, wsWire, wsTable, wsSent, wsDraft, wsFrames, wsSkewed>>

\* onClose(), then close()
WsClose ==
    /\ wsAt = "close" /\ wsAt' = "ended"
    /\ wsTable' = FALSE /\ wsOpen' = FALSE
    /\ UNCHANGED <<wsWire, wsData, wsGot, wsEvent, wsSent, wsDraft, wsFrames, wsSkewed>>

WsNext ==
    \/ \E op \in {"text", "cont"}, fin \in BOOLEAN, len \in WsLens, mask \in BOOLEAN : WsClientSends(op, fin, len, mask)
    \/ \E op \in {"ping", "close"}, len \in WsLens, mask \in BOOLEAN : WsClientSends(op, TRUE, len, mask)
    \/ WsBreak
    \/ \E ok \in BOOLEAN : WsShake(ok) \/ WsConnect(ok)
    \/ WsRecv \/ WsRecvSkewed \/ WsClose
    \/ \E e \in {"pong", "echo", "none"} : WsHandle(e)

WsSpec == WsInit /\ [][WsNext]_wsVars

-----------------------------------------------------------------------------
\* The messages the callback gets are those the client sent, whole, once and
\* in order, and none is still to come when a live session has read all there
\* was; only a control frame with a key or a payload can change that, because
\* WSRecvMessage() does not skip them.
WsDelivers ==
    \/ wsSkewed
    \/ /\ IsPrefix(wsGot, wsSent)
       /\ wsAt = "recv" /\ wsWire = <<>> => wsGot = wsSent
=============================================================================
