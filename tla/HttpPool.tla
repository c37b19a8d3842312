------------------------------ MODULE HttpPool ------------------------------
(***************************************************************************)
(* HttpConnectionPool (src/src/http/http_connection.cpp): a request takes  *)
(* a pooled connection or dials a new one, sends, waits for the response   *)
(* and gives the connection back.  A server answers the requests of one    *)
(* connection in order, so a response that nobody waited for would be read *)
(* by the next request.                                                    *)
(***************************************************************************)
EXTENDS Integers, Sequences, FiniteSets

CONSTANTS
    HpUsers,       \* coroutines that call doRequest()
    HpConns,       \* connections that may exist
    HpMaxRequest,  \* m_maxRequest
    HpMaxReqs      \* bound: requests

ASSUME HttpPoolAssumption == HpMaxRequest \in Nat /\ HpMaxReqs \in Nat /\ "none" \notin HpConns

VARIABLES
    hpPool,   \* m_conns
    hpConn,   \* a connection: isConnected(), too old, requests made, answers owed, half sent
    hpUser,   \* a user: where it is, its connection, its request, the answer, connections to delete
    hpTotal,  \* m_total
    hpReqs    \* requests so far

hpVars == <<hpPool, hpConn, hpUser, hpTotal, hpReqs>>

HpNew == [open |-> TRUE, old |-> FALSE, reqs |-> 0, owed |-> <<>>, half |-> FALSE]
HpOut == [at |-> "out", conn |-> "none", req |-> 0, answer |-> 0, dels |-> {}]

HpInit ==
    /\ hpPool = <<>>
    /\ hpConn = [c \in HpConns |-> HpNew]
    /\ hpUser = [u \in HpUsers |-> HpOut]
    /\ hpTotal = 0 /\ hpReqs = 0

HpPooled == {hpPool[k] : k \in DOMAIN hpPool}
HpHeld == {hpUser[u].conn : u \in HpUsers} \ {"none"}
HpDoomed == UNION {hpUser[u].dels : u \in HpUsers}

-----------------------------------------------------------------------------
(* getConnection()                                                         *)

HpBad(c) == ~hpConn[c].open \/ hpConn[c].old

\* Under the lock: the first usable connection and all the bad ones before it.
HpTake(u) ==
    LET good == {k \in DOMAIN hpPool : ~HpBad(hpPool[k])}
        first == IF good = {} THEN Len(hpPool) + 1 ELSE CHOOSE k \in good : \A j \in good : k <= j
    IN  /\ hpUser[u].at = "out" /\ hpReqs < HpMaxReqs
        /\ hpReqs' = hpReqs + 1
        /\ hpUser' = [hpUser EXCEPT ![u] =
             [at |-> "took", conn |-> IF good = {} THEN "none" ELSE hpPool[first], req |-> hpReqs + 1,
              answer |-> 0, dels |-> {hpPool[k] : k \in 1 .. first - 1}]]
        /\ hpPool' = SubSeq(hpPool, first + 1, Len(hpPool))
        /\ UNCHANGED <<hpConn, hpTotal>>

\* Outside of it: the bad ones are deleted and discounted.
HpDrop(u) ==
    /\ hpUser[u].at = "took"
    /\ hpTotal' = hpTotal - Cardinality(hpUser[u].dels)
    /\ hpUser' = [hpUser EXCEPT ![u].dels = {},
                                ![u].at = IF hpUser[u].conn = "none" THEN "dial" ELSE "send"]
    /\ UNCHANGED <<hpPool, hpConn, hpReqs>>

HpDial(u, c, ok) ==
    /\ hpUser[u].at = "dial"
    /\ c \notin HpPooled \cup HpHeld \cup HpDoomed
    /\ IF ok
       THEN /\ hpConn' = [hpConn EXCEPT ![c] = HpNew]
            /\ hpUser' = [hpUser EXCEPT ![u].at = "send", ![u].conn = c]
            /\ hpTotal' = hpTotal + 1
       ELSE hpUser' = [hpUser EXCEPT ![u] = HpOut] /\ UNCHANGED <<hpConn, hpTotal>>
    /\ UNCHANGED <<hpPool, hpReqs>>

-----------------------------------------------------------------------------
(* doRequest()                                                             *)

\* sendRequest(): a failure leaves the connection open, perhaps with a part
\* of the request on its way.
HpSend(u, ok) ==
    LET c == hpUser[u].conn
    IN  /\ hpUser[u].at = "send"
        /\ hpUser' = [hpUser EXCEPT ![u].at = IF ok THEN "recv" ELSE "free"]
        /\ hpConn' = IF ok THEN [hpConn EXCEPT ![c].owed = Append(@, hpUser[u].req)]
                           ELSE [hpConn EXCEPT ![c].half = TRUE]
        /\ UNCHANGED <<hpPool, hpTotal, hpReqs>>

HpRecv(u) ==
    LET c == hpUser[u].conn
    IN  /\ hpUser[u].at = "recv"
        /\ hpUser' = [hpUser EXCEPT ![u].at = "free", ![u].answer = Head(hpConn[c].owed)]
        /\ hpConn' = [hpConn EXCEPT ![c].owed = Tail(@)]
        /\ UNCHANGED <<hpPool, hpTotal, hpReqs>>

\* Mistake for the mutation tests: the connection stays open on a timeout.
HpTimeoutKeeps(u) ==
    /\ hpUser[u].at = "recv"
    /\ hpUser' = [hpUser EXCEPT ![u].at = "free"]
    /\ UNCHANGED <<hpPool, hpConn, hpTotal, hpReqs>>

\* recvResponse() gives up, on a timeout, an error or an end of the stream,
\* and closes the connection.  The timeout that setRecvTimeout() gives to the socket
\* counts on threads without hooks only: do_io() of hook.cpp does not see it.
HpTimeout(u) ==
    /\ hpUser[u].at = "recv"
    /\ hpUser' = [hpUser EXCEPT ![u].at = "free"]
    /\ hpConn' = [hpConn EXCEPT ![hpUser[u].conn].open = FALSE]
    /\ UNCHANGED <<hpPool, hpTotal, hpReqs>>

\* ReleasePtr()
HpRelease(u) ==
    LET c == hpUser[u].conn
        delete == HpBad(c) \/ hpConn[c].reqs + 1 >= HpMaxRequest
    IN  /\ hpUser[u].at = "free"
        /\ hpConn' = [hpConn EXCEPT ![c].reqs = @ + 1]
        /\ hpUser' = [hpUser EXCEPT ![u] = HpOut]
        /\ IF delete THEN hpTotal' = hpTotal - 1 /\ UNCHANGED hpPool
                     ELSE hpPool' = Append(hpPool, c) /\ UNCHANGED hpTotal
        /\ UNCHANGED hpReqs

HpAges(c) ==
    /\ c \in HpPooled \cup HpHeld /\ ~hpConn[c].old
    /\ hpConn' = [hpConn EXCEPT ![c].old = TRUE]
    /\ UNCHANGED <<hpPool, hpUser, hpTotal, hpReqs>>

HpNext ==
    \/ \E u \in HpUsers :
          \/ HpTake(u) \/ HpDrop(u) \/ HpRecv(u) \/ HpTimeout(u) \/ HpRelease(u)
          \/ \E ok \in BOOLEAN : HpSend(u, ok) \/ \E c \in HpConns : HpDial(u, c, ok)
    \/ \E c \in HpConns : HpAges(c)

HpSpec == HpInit /\ [][HpNext]_hpVars

-----------------------------------------------------------------------------
(* Properties                                                              *)

\* A request gets its own answer, whatever became of the requests before it
\* on the connection, and m_total counts the connections that exist.  Only a
\* connection on which a send failed is left out: it is not closed.
HpOwnAnswer ==
    /\ \A u \in HpUsers :
          hpUser[u].answer \notin {0, hpUser[u].req} => hpConn[hpUser[u].conn].half
    /\ hpTotal = Cardinality(HpPooled \cup HpHeld \cup HpDoomed)
=============================================================================
