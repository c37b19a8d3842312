---------------------------- MODULE HttpFraming ----------------------------
(***************************************************************************)
(* How HTTP messages are cut out of a byte stream:                         *)
(* HttpSession::recvRequest() in the loop of HttpServer::handleClient(),   *)
(* and HttpConnection::recvResponse() with its chunked bodies              *)
(* (src/src/http/http_session.cpp, http_server.cpp, http_connection.cpp,   *)
(* http_parser.cpp and the generated parsers).                             *)
(*                                                                         *)
(* The stream is a sequence of tokens [t, n], and a read() may end after   *)
(* any of them.  execute() consumes all it is given until the head is      *)
(* complete, and forgets where the pieces of an unfinished line began: the *)
(* generated parser is called with marks set to 0 on a buffer from which   *)
(* the earlier bytes are gone.                                             *)
(*                                                                         *)
(* A request may have the field "connection: keep-alive".  The parser puts *)
(* it among the headers; m_close, which the HttpRequest constructor sets,  *)
(* is never changed on the way in (init() is empty), so that a session     *)
(* ends with its first request.                                            *)
(***************************************************************************)
EXTENDS Integers, Sequences, SequencesExt

CONSTANTS
    HfBodies,   \* bodies of messages with a Content-Length: sequences of tokens
    HfChunked,  \* bodies of chunked responses: sequences of chunks
    HfBuf,      \* tokens that the buffer holds
    HfMaxMsgs   \* bound: messages

ASSUME HttpFramingAssumption == HfBuf \in Nat \ {0} /\ HfMaxMsgs \in Nat

VARIABLES
    hfServer,  \* a session that receives requests, or a client that receives responses
    hfKeepalive,  \* m_isKeepalive of the server
    hfWire,    \* tokens sent and not read yet
    hfSent,    \* messages sent: [id, keep, body], keep being the connection field
    hfGot,     \* messages received
    hfAt,      \* head, fill, chunk, rest, closed
    hfParser,  \* the parser: state, id, connection field, m_close, content length, chunked
    hfBuf,     \* tokens left in the buffer
    hfBody,    \* the body so far
    hfLeft,    \* tokens still to read
    hfGone,    \* the peer has closed its end, or the connection broke
    hfCut      \* a read ended inside a line of a head

hfVars == <<hfServer, hfKeepalive, hfWire, hfSent, hfGot, hfAt, hfParser, hfBuf, hfBody, hfLeft, hfGone, hfCut>>

Tok(t, n) == [t |-> t, n |-> n]
HfFresh == [cs |-> "start", id |-> 0, keep |-> FALSE, close |-> TRUE, len |-> 0, chunked |-> FALSE]

HfInit ==
    /\ hfServer \in BOOLEAN /\ hfKeepalive \in BOOLEAN
    /\ hfWire = <<>> /\ hfSent = <<>> /\ hfGot = <<>> /\ hfAt = "head" /\ hfParser = HfFresh
    /\ hfBuf = <<>> /\ hfBody = <<>> /\ hfLeft = 0 /\ hfGone = FALSE /\ hfCut = FALSE

-----------------------------------------------------------------------------
(* The peer. *)

HfHead(id) == <<Tok("line", id), Tok("eol", 0)>>
HfWithLength(id, keep, body) ==
    HfHead(id) \o (IF keep THEN <<Tok("keep", 0), Tok("eol", 0)>> ELSE <<>>)
        \o (IF body = <<>> THEN <<>> ELSE <<Tok("name", 0), Tok("value", Len(body)), Tok("eol", 0)>>)
        \o <<Tok("end", 0)>> \o body
\* A chunk: its size in two hexadecimal digits (of base 2), and a line end of
\* two bytes behind its data.  The last one is empty.
HfChunk(c) ==
    <<Tok("hex", Len(c) \div 2), Tok("hex", Len(c) % 2), Tok("eol", 0)>> \o c \o <<Tok("cr", 0), Tok("lf", 0)>>
HfInChunks(id, chunks) ==
    HfHead(id) \o <<Tok("chunked", 0), Tok("eol", 0), Tok("end", 0)>>
        \o FlattenSeq([k \in DOMAIN chunks |-> HfChunk(chunks[k])]) \o HfChunk(<<>>)

HfSends(msg, keep, body) ==
    /\ Len(hfSent) < HfMaxMsgs /\ hfAt # "closed" /\ ~hfGone
    /\ hfWire' = hfWire \o msg
    /\ hfSent' = Append(hfSent, [id |-> Len(hfSent) + 1, keep |-> keep, body |-> body])
    /\ UNCHANGED <<hfServer, hfKeepalive, hfGot, hfAt, hfParser, hfBuf, hfBody, hfLeft, hfGone, hfCut>>

\* A client may send its next request at once; a server answers one by one.
HfSend ==
    /\ hfServer \/ Len(hfGot) = Len(hfSent)
    /\ LET id == Len(hfSent) + 1
       IN  \/ \E body \in HfBodies, keep \in {FALSE, hfServer} : HfSends(HfWithLength(id, keep, body), keep, body)
           \/ ~hfServer /\ \E chunks \in HfChunked : HfSends(HfInChunks(id, chunks), FALSE, FlattenSeq(chunks))

\* The connection ends, and with it the tokens that were not delivered.
HfBreaks ==
    /\ ~hfGone /\ hfGone' = TRUE
    /\ \E k \in 0..Len(hfWire) : hfWire' = SubSeq(hfWire, 1, k)
    /\ UNCHANGED <<hfServer, hfKeepalive, hfSent, hfGot, hfAt, hfParser, hfBuf, hfBody, hfLeft, hfCut>>

-----------------------------------------------------------------------------
(* The parser. *)

\* One token.  acc.fresh says that the line, field or number it completes began
\* in this call: otherwise mark, field_start and field_len are 0, a field of no
\* name is ignored, and of the first line only the end is seen.
HfToken(acc, tok) ==
    LET goes(cs) == [acc EXCEPT !.cs = cs, !.used = @ + 1]
    IN  CASE acc.cs \in {"done", "error"} -> acc
          [] acc.cs = "start" /\ tok.t = "line" -> [goes("line") EXCEPT !.fresh = TRUE, !.n = tok.n]
          [] acc.cs = "start" /\ tok.t = "hex" -> [goes("size") EXCEPT !.n = tok.n]
          [] acc.cs = "line" /\ tok.t = "eol" -> [goes("fields") EXCEPT !.id = IF acc.fresh THEN acc.n ELSE 0]
          [] acc.cs = "fields" /\ tok.t = "name" -> [goes("name") EXCEPT !.fresh = TRUE]
          [] acc.cs = "name" /\ tok.t = "value" -> [goes("value") EXCEPT !.n = tok.n]
          [] acc.cs = "value" /\ tok.t = "eol" -> [goes("fields") EXCEPT !.len = IF acc.fresh THEN acc.n ELSE @]
          [] acc.cs = "fields" /\ tok.t = "keep" -> [goes("keep") EXCEPT !.fresh = TRUE]
          [] acc.cs = "keep" /\ tok.t = "eol" -> [goes("fields") EXCEPT !.keep = acc.fresh]
          [] acc.cs = "fields" /\ tok.t = "chunked" -> goes("chunked")
          [] acc.cs = "chunked" /\ tok.t = "eol" -> [goes("fields") EXCEPT !.chunked = TRUE]
          [] acc.cs = "fields" /\ tok.t = "end" -> goes("done")
          [] acc.cs = "size" /\ tok.t = "hex" -> [goes("size") EXCEPT !.n = @ * 2 + tok.n]
          [] acc.cs = "size" /\ tok.t = "eol" -> [goes("done") EXCEPT !.len = acc.n]
          [] OTHER -> goes("error")

\* execute(): the parser afterwards, with the number of tokens it used.
HfExecute(p, toks) ==
    FoldLeft(HfToken, [cs |-> p.cs, id |-> p.id, keep |-> p.keep, close |-> p.close, len |-> p.len, chunked |-> p.chunked,
                       fresh |-> FALSE, n |-> 0, used |-> 0], toks)
HfKeep(r) ==
    [cs |-> r.cs, id |-> r.id, keep |-> r.keep, close |-> r.close, len |-> r.len, chunked |-> r.chunked]

-----------------------------------------------------------------------------
(* The reader. *)

HfReads(k) == k \in 1..Len(hfWire) /\ hfWire' = SubSeq(hfWire, k + 1, Len(hfWire))
HfTaken(k) == SubSeq(hfWire, 1, k)

\* The message is complete.  recvRequest() and recvResponse() drop their buffer,
\* with what it holds of a next message; handleClient() then answers and closes
\* the session unless the server and the request both keep it.
HfStays(parser) == hfServer => hfKeepalive /\ ~parser.close
HfDeliver(parser, body) ==
    /\ hfGot' = Append(hfGot, [id |-> parser.id, keep |-> parser.keep, body |-> body])
    /\ hfAt' = (IF HfStays(parser) THEN "head" ELSE "closed")
    /\ hfParser' = HfFresh /\ hfBuf' = <<>> /\ hfBody' = <<>> /\ hfLeft' = 0

\* The part of the body that is in the buffer, and how much is missing.
HfBodyStart(len, buf) ==
    IF len >= Len(buf) THEN [body |-> buf, left |-> len - Len(buf)]
    ELSE [body |-> SubSeq(buf, 1, len), left |-> 0]

HfAfterHead(r, buf) ==
    LET start == HfBodyStart(r.len, buf)
    IN  CASE r.cs = "error" ->
               hfAt' = "closed" /\ UNCHANGED <<hfGot, hfParser, hfBuf, hfBody, hfLeft>>
          [] r.cs = "done" /\ r.chunked ->
               /\ hfAt' = "chunk" /\ hfParser' = HfKeep(r) /\ hfBuf' = buf
               /\ UNCHANGED <<hfGot, hfBody, hfLeft>>
          [] r.cs = "done" /\ ~r.chunked /\ start.left > 0 ->
               /\ hfAt' = "fill" /\ hfParser' = HfKeep(r) /\ hfBuf' = <<>>
               /\ hfBody' = start.body /\ hfLeft' = start.left
               /\ UNCHANGED <<hfGot>>
          [] r.cs = "done" /\ ~r.chunked /\ start.left = 0 ->
               HfDeliver(r, start.body)
          [] OTHER ->
               hfParser' = HfKeep(r) /\ UNCHANGED <<hfGot, hfAt, hfBuf, hfBody, hfLeft>>

HfReadHead(k) ==
    /\ hfAt = "head" /\ k <= HfBuf /\ HfReads(k)
    /\ LET r == HfExecute(hfParser, HfTaken(k))
       IN  /\ HfAfterHead(r, SubSeq(hfWire, r.used + 1, k))
           /\ hfCut' = (hfCut \/ r.cs \in {"line", "name", "value", "keep"})
    /\ UNCHANGED <<hfServer, hfKeepalive, hfSent, hfGone>>

\* readFixSize() of what is missing.
HfFill ==
    /\ hfAt = "fill" /\ HfReads(hfLeft)
    /\ HfDeliver(hfParser, hfBody \o HfTaken(hfLeft))
    /\ UNCHANGED <<hfServer, hfKeepalive, hfSent, hfGone, hfCut>>

\* The head of a chunk is parsed from the start in every call.  With a whole
\* chunk and its line end in the buffer the data is taken from there, else the
\* rest is read; after the empty chunk the message is complete.

\* Mistake for the mutation tests: the line end behind the data is forgotten.
HfWholeChunkNoEol(len, buf) == len <= Len(buf)
HfWholeChunk(len, buf) == len + 2 <= Len(buf)

HfChunkEnds(body, buf, last) ==
    IF last THEN HfDeliver(hfParser, body)
    ELSE hfAt' = "chunk" /\ hfBody' = body /\ hfBuf' = buf /\ hfLeft' = 0 /\ UNCHANGED <<hfGot, hfParser>>

HfChunkHead(buf) ==
    LET r == HfExecute(HfFresh, buf)
        data == SubSeq(buf, r.used + 1, Len(buf))
    IN  /\ CASE r.cs = "error" ->
                  hfAt' = "closed" /\ UNCHANGED <<hfGot, hfParser, hfBuf, hfBody, hfLeft>>
             [] r.cs = "done" /\ HfWholeChunk(r.len, data) ->
                  HfChunkEnds(hfBody \o SubSeq(data, 1, r.len), SubSeq(data, r.len + 3, Len(data)), r.len = 0)
             [] r.cs = "done" /\ ~HfWholeChunk(r.len, data) ->
                  /\ hfAt' = "rest" /\ hfBuf' = <<>> /\ hfBody' = hfBody \o data
                  /\ hfLeft' = r.len - Len(data) + 2 /\ hfParser' = [hfParser EXCEPT !.len = r.len]
                  /\ UNCHANGED <<hfGot>>
             [] OTHER -> hfBuf' = data /\ UNCHANGED <<hfGot, hfAt, hfParser, hfBody, hfLeft>>
        /\ hfCut' = (hfCut \/ r.cs \notin {"done", "error"})
        /\ UNCHANGED <<hfServer, hfKeepalive, hfSent, hfGone>>

HfReadChunk(k) ==
    /\ hfAt = "chunk"
    /\ \/ hfBuf # <<>> /\ k = 1 /\ HfChunkHead(hfBuf) /\ UNCHANGED hfWire
       \/ hfBuf = <<>> /\ k <= HfBuf /\ HfReads(k) /\ HfChunkHead(HfTaken(k))

HfReadRest(k) ==
    /\ hfAt = "rest" /\ k <= HfBuf /\ k <= hfLeft /\ HfReads(k)
    /\ LET body == hfBody \o HfTaken(k)
       IN  IF k = hfLeft THEN HfChunkEnds(SubSeq(body, 1, Len(body) - 2), <<>>, hfParser.len = 0)
           ELSE hfBody' = body /\ hfLeft' = hfLeft - k /\ UNCHANGED <<hfGot, hfAt, hfParser, hfBuf>>
    /\ UNCHANGED <<hfServer, hfKeepalive, hfSent, hfGone, hfCut>>

\* read() or readFixSize() fails: close() and a null message.
HfReadFails ==
    /\ hfGone /\ hfAt # "closed" /\ ((hfWire = <<>> /\ hfBuf = <<>>) \/ (hfAt = "fill" /\ Len(hfWire) < hfLeft))
    /\ hfAt' = "closed"
    /\ UNCHANGED <<hfServer, hfKeepalive, hfWire, hfSent, hfGot, hfParser, hfBuf, hfBody, hfLeft, hfGone, hfCut>>

HfNext ==
    \/ HfSend
    \/ HfBreaks
    \/ HfReadFails
    \/ HfFill
    \/ \E k \in 1..HfBuf : HfReadHead(k) \/ HfReadChunk(k) \/ HfReadRest(k)

-----------------------------------------------------------------------------
\* The messages received are those sent, whole, once and in order, however the
\* stream was cut into reads and whenever the connection broke, and none is
\* outstanding when everything has been read.  The reader gives the connection
\* up only when the peer has, or a session after its first request: a request
\* behind that one is never received.  Excused are streams in which a read
\* ended inside a line of a head.
HfFramed ==
    \/ hfCut
    \/ /\ IsPrefix(hfGot, hfSent)
       /\ hfAt = "closed" => hfGone \/ (hfServer /\ Len(hfGot) = 1)
       /\ ~hfGone /\ hfWire = <<>> /\ hfAt = "head" /\ hfParser.cs = "start" => hfGot = hfSent
=============================================================================
