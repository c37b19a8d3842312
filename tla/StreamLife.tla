----------------------------- MODULE StreamLife -----------------------------
(***************************************************************************)
(* The life of an AsyncSocketStream that connects again by itself          *)
(* (src/src/streams/async_socket_stream.cpp): start() takes the two permits*)
(* of m_waitSem, connects and starts a reader and a writer, which give one *)
(* permit each when they end.  A failed start() is retried by m_timer after*)
(* 2 seconds; the reader's end starts the stream again after 10 ms, by a   *)
(* timer that nobody keeps.  close() may come at any moment.               *)
(*                                                                         *)
(* RockRequest models the requests on one connection; here they only make  *)
(* the writer find out that the connection is broken.                      *)
(***************************************************************************)
EXTENDS Integers, FiniteSets

CONSTANTS
    SlMaxBreaks,  \* bound: connections that the peer breaks
    SlMaxFails    \* bound: reconnects that fail and callbacks that refuse

SlStarts == {1, 2}  \* coroutines that may be in start()

ASSUME StreamLifeAssumption == SlMaxBreaks \in Nat /\ SlMaxFails \in Nat

VARIABLES
    slUp,      \* isConnected()
    slBroken,  \* the peer has gone
    slAuto,    \* m_autoConnect
    slSem,     \* permits of m_waitSem
    slTimer,   \* m_timer is armed
    slShort,   \* 10 ms timers that are armed
    slStart,   \* where the coroutines in start() are
    slReader,  \* where doRead() is
    slWriter,  \* where doWrite() is
    slKick,    \* m_sem was notified by innerClose()
    slApp,     \* the application: new, open, in close(), closed
    slTold,    \* calls of m_disconnectCb for this connection
    slHad,     \* m_connectCb accepted this connection
    slByApp,   \* close() ended this connection
    slBoth,    \* reader and writer were in innerClose() together
    slClean,   \* close() found the connection up and its reader running
    slBreaks, slFails

slSession == <<slBroken, slTold, slHad, slByApp, slBoth>>
slBounds == <<slBreaks, slFails>>
slVars == <<slUp, slAuto, slSem, slTimer, slShort, slStart, slReader, slWriter, slKick, slApp,
            slClean, slSession, slBounds>>

SlInit ==
    /\ slUp \in BOOLEAN   \* connect() before start() may have failed
    /\ slBroken = FALSE /\ slAuto = TRUE
    /\ slSem = 2 /\ slTimer = FALSE /\ slShort = 0
    /\ slStart = [s \in SlStarts |-> "idle"]
    /\ slReader = "none" /\ slWriter = "none" /\ slKick = FALSE
    /\ slApp = "new"
    /\ slTold = 0 /\ slHad = FALSE /\ slByApp = FALSE /\ slBoth = FALSE /\ slClean = FALSE
    /\ slBreaks = 0 /\ slFails = 0

-----------------------------------------------------------------------------
(* start()                                                                 *)

SlStartAt(s, from, to) == slStart[s] = from /\ slStart' = [slStart EXCEPT ![s] = to]

AppStart(s) ==
    /\ slApp = "new"
    /\ slApp' = "open"
    /\ SlStartAt(s, "idle", "first")
    /\ UNCHANGED <<slUp, slAuto, slSem, slTimer, slShort, slReader, slWriter, slKick, slClean,
                   slSession, slBounds>>

\* A one-shot timer fires: m_timer, or the one of doRead().
RetryTimer(s) ==
    /\ slTimer /\ slTimer' = FALSE
    /\ SlStartAt(s, "idle", "first")
    /\ UNCHANGED <<slUp, slAuto, slSem, slShort, slReader, slWriter, slKick, slApp, slClean,
                   slSession, slBounds>>
ShortTimer(s) ==
    /\ slShort > 0 /\ slShort' = slShort - 1
    /\ SlStartAt(s, "idle", "first")
    /\ UNCHANGED <<slUp, slAuto, slSem, slTimer, slReader, slWriter, slKick, slApp, slClean,
                   slSession, slBounds>>

\* waitFiber(): one permit and then another; m_timer is cancelled after.
WaitFiber(s) ==
    /\ slSem > 0 /\ slSem' = slSem - 1
    /\ \/ SlStartAt(s, "first", "second") /\ UNCHANGED slTimer
       \/ SlStartAt(s, "second", IF slUp THEN "callback" ELSE "dial") /\ slTimer' = FALSE
    /\ UNCHANGED <<slUp, slAuto, slShort, slReader, slWriter, slKick, slApp, slClean, slSession,
                   slBounds>>

\* m_socket->reconnect()
Dial(s, ok) ==
    /\ IF ok
       THEN /\ SlStartAt(s, "dial", "callback")
            /\ slUp' = TRUE
            /\ slBroken' = FALSE /\ slTold' = 0 /\ slHad' = FALSE /\ slByApp' = FALSE /\ slBoth' = FALSE
            /\ UNCHANGED slFails
       ELSE /\ SlStartAt(s, "dial", "fail")
            /\ slFails < SlMaxFails /\ slFails' = slFails + 1
            /\ UNCHANGED <<slUp, slSession>>
    /\ UNCHANGED <<slAuto, slSem, slTimer, slShort, slReader, slWriter, slKick, slApp, slClean, slBreaks>>

\* m_connectCb, then startRead() and startWrite().
ConnectCb(s, ok) ==
    /\ IF ok
       THEN /\ SlStartAt(s, "callback", "idle")
            /\ slHad' = TRUE
            /\ slReader' = "run" /\ slWriter' = "run" /\ slKick' = FALSE
            /\ UNCHANGED slFails
       ELSE /\ SlStartAt(s, "callback", "fail")
            /\ slFails < SlMaxFails /\ slFails' = slFails + 1
            /\ UNCHANGED <<slReader, slWriter, slKick, slHad>>
    /\ UNCHANGED <<slUp, slAuto, slSem, slTimer, slShort, slApp, slClean, slBroken, slTold, slByApp,
                   slBoth, slBreaks>>

\* Mistake for the mutation tests: the permits are not given back.
StartFailKeeps(s) ==
    /\ SlStartAt(s, "fail", "retry")
    /\ slUp' = FALSE /\ slKick' = TRUE
    /\ slTold' = IF slUp THEN slTold + 1 ELSE slTold
    /\ UNCHANGED <<slAuto, slSem, slTimer, slShort, slReader, slWriter, slApp, slClean, slBroken,
                   slHad, slByApp, slBoth, slBounds>>

\* innerClose(), and both permits are given back.
StartFail(s) ==
    /\ SlStartAt(s, "fail", "retry")
    /\ slUp' = FALSE /\ slKick' = TRUE
    /\ slTold' = IF slUp THEN slTold + 1 ELSE slTold
    /\ slSem' = slSem + 2
    /\ UNCHANGED <<slAuto, slTimer, slShort, slReader, slWriter, slApp, slClean, slBroken,
                   slHad, slByApp, slBoth, slBounds>>

StartRetry(s) ==
    /\ SlStartAt(s, "retry", "idle")
    /\ slTimer' = (slTimer \/ slAuto)
    /\ UNCHANGED <<slUp, slAuto, slSem, slShort, slReader, slWriter, slKick, slApp, slClean,
                   slSession, slBounds>>

-----------------------------------------------------------------------------
(* doRead() and doWrite()                                                  *)

\* Mistake for the mutation tests: the socket is closed before the callback.
ReaderTellsLate ==
    /\ slReader = "run" /\ (slBroken \/ ~slUp)
    /\ slReader' = "shut"
    /\ slUp' = FALSE
    /\ UNCHANGED <<slAuto, slSem, slTimer, slShort, slStart, slWriter, slKick, slApp, slClean,
                   slSession, slBounds>>

\* recv() fails, and innerClose() begins: m_disconnectCb if still connected.
ReaderTells ==
    /\ slReader = "run" /\ (slBroken \/ ~slUp)
    /\ slReader' = "shut"
    /\ slTold' = IF slUp THEN slTold + 1 ELSE slTold
    /\ slBoth' = (slBoth \/ slWriter = "shut")
    /\ UNCHANGED <<slUp, slAuto, slSem, slTimer, slShort, slStart, slWriter, slKick, slApp, slClean,
                   slBroken, slHad, slByApp, slBounds>>

ReaderShuts ==
    /\ slReader = "shut"
    /\ slReader' = "end"
    /\ slUp' = FALSE /\ slKick' = TRUE
    /\ UNCHANGED <<slAuto, slSem, slTimer, slShort, slStart, slWriter, slApp, slClean, slSession, slBounds>>

ReaderEnds ==
    /\ slReader = "end"
    /\ slReader' = "auto"
    /\ slSem' = slSem + 1
    /\ UNCHANGED <<slUp, slAuto, slTimer, slShort, slStart, slWriter, slKick, slApp, slClean,
                   slSession, slBounds>>

\* The timer of 10 ms is not m_timer: nothing can cancel it.
ReaderRestarts ==
    /\ slReader = "auto"
    /\ slReader' = "none"
    /\ slShort' = IF slAuto THEN slShort + 1 ELSE slShort
    /\ UNCHANGED <<slUp, slAuto, slSem, slTimer, slStart, slWriter, slKick, slApp, slClean,
                   slSession, slBounds>>

\* A send fails: innerClose() on the writer's side.
WriterTells ==
    /\ slWriter = "run" /\ (slBroken \/ ~slUp)
    /\ slWriter' = "shut"
    /\ slTold' = IF slUp THEN slTold + 1 ELSE slTold
    /\ slBoth' = (slBoth \/ slReader = "shut")
    /\ UNCHANGED <<slUp, slAuto, slSem, slTimer, slShort, slStart, slReader, slKick, slApp, slClean,
                   slBroken, slHad, slByApp, slBounds>>

WriterShuts ==
    /\ slWriter = "shut"
    /\ slWriter' = "end"
    /\ slUp' = FALSE /\ slKick' = TRUE
    /\ UNCHANGED <<slAuto, slSem, slTimer, slShort, slStart, slReader, slApp, slClean, slSession, slBounds>>

\* Idle in m_sem.wait(), the writer is woken by the notify of innerClose().
WriterWoken ==
    /\ slWriter = "run" /\ slKick /\ ~slUp
    /\ slWriter' = "end"
    /\ UNCHANGED <<slUp, slAuto, slSem, slTimer, slShort, slStart, slReader, slKick, slApp, slClean,
                   slSession, slBounds>>

WriterEnds ==
    /\ slWriter = "end"
    /\ slWriter' = "none"
    /\ slSem' = slSem + 1
    /\ UNCHANGED <<slUp, slAuto, slTimer, slShort, slStart, slReader, slKick, slApp, slClean,
                   slSession, slBounds>>

-----------------------------------------------------------------------------
(* The peer and the application                                            *)

PeerBreaks ==
    /\ slUp /\ ~slBroken
    /\ slBreaks < SlMaxBreaks /\ slBreaks' = slBreaks + 1
    /\ slBroken' = TRUE
    /\ UNCHANGED <<slUp, slAuto, slSem, slTimer, slShort, slStart, slReader, slWriter, slKick, slApp,
                   slClean, slTold, slHad, slByApp, slBoth, slFails>>

\* close(): m_autoConnect at once, the rest on m_iomanager's thread.
AppClose ==
    /\ slApp = "open"
    /\ slApp' = "closing" /\ slAuto' = FALSE
    /\ UNCHANGED <<slUp, slSem, slTimer, slShort, slStart, slReader, slWriter, slKick, slClean,
                   slSession, slBounds>>
AppCloses ==
    /\ slApp = "closing"
    /\ slApp' = "closed"
    /\ slTimer' = FALSE /\ slUp' = FALSE
    /\ slByApp' = (slByApp \/ slUp)
    /\ slClean' = (slUp /\ slReader = "run")
    /\ UNCHANGED <<slAuto, slSem, slShort, slStart, slReader, slWriter, slKick, slBroken, slTold, slHad,
                   slBoth, slBounds>>

SlStartStep(s) ==
    \/ RetryTimer(s) \/ ShortTimer(s) \/ WaitFiber(s) \/ StartFail(s) \/ StartRetry(s)
    \/ \E ok \in BOOLEAN : Dial(s, ok) \/ ConnectCb(s, ok)

SlReaderStep == ReaderTells \/ ReaderShuts \/ ReaderEnds \/ ReaderRestarts
SlWriterStep == WriterShuts \/ WriterWoken \/ WriterEnds

SlNext ==
    \/ \E s \in SlStarts : AppStart(s) \/ SlStartStep(s)
    \/ SlReaderStep \/ SlWriterStep \/ WriterTells
    \/ PeerBreaks \/ AppClose \/ AppCloses

SlSpec == SlInit /\ [][SlNext]_slVars

-----------------------------------------------------------------------------
(* Properties                                                              *)

\* Every end of a connection is told, and close() is final.  m_disconnectCb was
\* called for a connection that is over: once, or twice if the reader and the
\* writer were in innerClose() together; only when close() ended the connection
\* it may not have been called at all.  A stream that was connected and reading
\* when close() was called is never connected again.  (One that was between two
\* connections may be: the timer of 10 ms and a start() in progress go on.)
SlOrderly ==
    /\ (slHad /\ slReader = "none" /\ slWriter = "none" /\ ~slUp) =>
           /\ slTold >= 1 \/ slByApp
           /\ slTold <= 1 \/ slBoth
    /\ (slApp = "closed" /\ slClean) => ~slUp

\* Until close() is called, the stream is connected again after every break
\* and every failure, with its reader and its writer running.
SlRecovers ==
    <>[](slUp /\ slReader = "run" /\ slWriter = "run") \/ <>(slApp = "closing") \/ [](slApp = "new")
=============================================================================
