---------------------------- MODULE StreamProofs ----------------------------
(***************************************************************************)
(* Proofs about what stays in order over the life of a stream and of the   *)
(* streams that service discovery opens: connections that come and go,     *)
(* lists of providers that two threads bring, the rings in which the       *)
(* balancer counts the requests of the last seconds, and the frames that   *)
(* messages are cut into.                                                  *)
(***************************************************************************)
EXTENDS StreamLife, Discovery, LoadBalance, WsSession,
        SequenceTheorems, FiniteSetTheorems, WellFoundedInduction, TLAPS

(***************************************************************************)
(* StreamLife: a stream that connects again by itself.                     *)
(***************************************************************************)

SlStartAts == {"idle", "first", "second", "dial", "callback", "fail", "retry"}

SlTypeOK ==
    /\ slUp \in BOOLEAN /\ slBroken \in BOOLEAN /\ slAuto \in BOOLEAN /\ slTimer \in BOOLEAN
    /\ slKick \in BOOLEAN /\ slHad \in BOOLEAN /\ slByApp \in BOOLEAN /\ slBoth \in BOOLEAN
    /\ slClean \in BOOLEAN
    /\ slSem \in Nat /\ slShort \in Nat /\ slTold \in Nat
    /\ slStart \in [SlStarts -> SlStartAts]
    /\ slReader \in {"none", "run", "shut", "end", "auto"}
    /\ slWriter \in {"none", "run", "shut", "end"}
    /\ slApp \in {"new", "open", "closing", "closed"}

SlOne(b) == IF b THEN 1 ELSE 0

\* The right to start the stream is one: it lies with the application, a timer, a
\* coroutine in start() or the reader, and there is never a second one.
SlTokenInv ==
    SlOne(slApp = "new") + SlOne(slTimer) + slShort + SlOne(slStart[1] # "idle")
        + SlOne(slStart[2] # "idle") + SlOne(slReader # "none") <= 1

\* The two permits of m_waitSem are in the semaphore, with start(), with the reader
\* and with the writer.
SlHolds(at) == IF at = "second" THEN 1 ELSE IF at \in {"dial", "callback", "fail"} THEN 2 ELSE 0
SlPermitInv ==
    slSem + SlHolds(slStart[1]) + SlHolds(slStart[2])
        + SlOne(slReader \in {"run", "shut", "end"}) + SlOne(slWriter # "none") = 2

\* The connection: whoever works on it has it, it is up only as long as its reader
\* is, and its end is told or comes from close().
SlConnInv ==
    /\ slReader # "none" \/ slWriter # "none" => slHad
    /\ slUp /\ slHad => slReader \in {"run", "shut"}
    /\ slUp => slWriter # "end"
    /\ slHad /\ ~slUp => slTold >= 1 \/ slByApp
    /\ slReader = "shut" \/ slWriter = "shut" => slTold >= 1 \/ slByApp
    /\ \A s \in SlStarts : slStart[s] = "callback" => slUp \/ slTold >= 1 \/ slByApp

\* As long as it is up, it was told by those who are in innerClose(); after that
\* nobody tells it any more.
SlToldInv ==
    /\ slUp => slTold = SlOne(slReader = "shut") + SlOne(slWriter = "shut")
    /\ slReader = "shut" /\ slWriter = "shut" => slBoth
    /\ slTold <= 1 \/ slBoth

\* close() takes the right to start away for good when it is with the reader.
SlCloseInv ==
    /\ slApp \in {"closing", "closed"} => ~slAuto
    /\ slApp = "closed" /\ slClean =>
           ~slUp /\ ~slTimer /\ slShort = 0 /\ \A s \in SlStarts : slStart[s] = "idle"

SlInv == SlTypeOK /\ SlTokenInv /\ SlPermitInv /\ SlConnInv /\ SlToldInv /\ SlCloseInv

\* Every step keeps the types.
LEMMA SlTypeStep == SlTypeOK /\ SlPermitInv /\ [SlNext]_slVars => SlTypeOK'
<1> SUFFICES ASSUME SlTypeOK, SlPermitInv, [SlNext]_slVars PROVE SlTypeOK'
  OBVIOUS
<1> USE DEF SlTypeOK, SlStarts, SlStartAts, SlStartAt, slVars, slSession, slBounds
<1>1. ASSUME NEW s \in SlStarts, AppStart(s) PROVE SlTypeOK'
  BY <1>1 DEF AppStart
<1>2. ASSUME NEW s \in SlStarts, RetryTimer(s) PROVE SlTypeOK'
  <2>1. /\ slUp' \in BOOLEAN /\ slBroken' \in BOOLEAN /\ slAuto' \in BOOLEAN /\ slTimer' \in BOOLEAN
        /\ slKick' \in BOOLEAN /\ slHad' \in BOOLEAN /\ slByApp' \in BOOLEAN /\ slBoth' \in BOOLEAN
        /\ slClean' \in BOOLEAN
    BY <1>2, Zenon DEF RetryTimer
  <2>2. /\ slSem' \in Nat /\ slShort' \in Nat /\ slTold' \in Nat
        /\ slStart' \in [SlStarts -> SlStartAts]
    BY <1>2 DEF RetryTimer
  <2> QED
    BY <1>2, <2>1, <2>2 DEF RetryTimer
<1>3. ASSUME NEW s \in SlStarts, ShortTimer(s) PROVE SlTypeOK'
  BY <1>3 DEF ShortTimer
<1>4. ASSUME NEW s \in SlStarts, WaitFiber(s) PROVE SlTypeOK'
  <2>1. /\ slUp' \in BOOLEAN /\ slBroken' \in BOOLEAN /\ slAuto' \in BOOLEAN /\ slTimer' \in BOOLEAN
        /\ slKick' \in BOOLEAN /\ slHad' \in BOOLEAN /\ slByApp' \in BOOLEAN /\ slBoth' \in BOOLEAN
        /\ slClean' \in BOOLEAN
    BY <1>4, Zenon DEF WaitFiber
  <2>2. /\ slSem' \in Nat /\ slShort' \in Nat /\ slTold' \in Nat
        /\ slStart' \in [SlStarts -> SlStartAts]
    BY <1>4 DEF WaitFiber
  <2> QED
    BY <1>4, <2>1, <2>2 DEF WaitFiber
<1>5. ASSUME NEW s \in SlStarts, StartFail(s) PROVE SlTypeOK'
  <2>1. /\ slUp' \in BOOLEAN /\ slBroken' \in BOOLEAN /\ slAuto' \in BOOLEAN /\ slTimer' \in BOOLEAN
        /\ slKick' \in BOOLEAN /\ slHad' \in BOOLEAN /\ slByApp' \in BOOLEAN /\ slBoth' \in BOOLEAN
        /\ slClean' \in BOOLEAN
    BY <1>5, Zenon DEF StartFail
  <2>2. /\ slSem' \in Nat /\ slShort' \in Nat /\ slTold' \in Nat
        /\ slStart' \in [SlStarts -> SlStartAts]
    BY <1>5 DEF StartFail
  <2> QED
    BY <1>5, <2>1, <2>2 DEF StartFail
<1>6. ASSUME NEW s \in SlStarts, StartRetry(s) PROVE SlTypeOK'
  BY <1>6 DEF StartRetry
<1>7. ASSUME NEW s \in SlStarts, NEW ok \in BOOLEAN, Dial(s, ok) PROVE SlTypeOK'
  <2>1. /\ slUp' \in BOOLEAN /\ slBroken' \in BOOLEAN /\ slAuto' \in BOOLEAN /\ slTimer' \in BOOLEAN
        /\ slKick' \in BOOLEAN /\ slHad' \in BOOLEAN /\ slByApp' \in BOOLEAN /\ slBoth' \in BOOLEAN
        /\ slClean' \in BOOLEAN
    BY <1>7, Zenon DEF Dial
  <2>2. /\ slSem' \in Nat /\ slShort' \in Nat /\ slTold' \in Nat
        /\ slStart' \in [SlStarts -> SlStartAts]
    BY <1>7 DEF Dial
  <2> QED
    BY <1>7, <2>1, <2>2 DEF Dial
<1>8. ASSUME NEW s \in SlStarts, NEW ok \in BOOLEAN, ConnectCb(s, ok) PROVE SlTypeOK'
  <2>1. /\ slUp' \in BOOLEAN /\ slBroken' \in BOOLEAN /\ slAuto' \in BOOLEAN /\ slTimer' \in BOOLEAN
        /\ slKick' \in BOOLEAN /\ slHad' \in BOOLEAN /\ slByApp' \in BOOLEAN /\ slBoth' \in BOOLEAN
        /\ slClean' \in BOOLEAN
    BY <1>8, Zenon DEF ConnectCb
  <2>2. /\ slSem' \in Nat /\ slShort' \in Nat /\ slTold' \in Nat
        /\ slStart' \in [SlStarts -> SlStartAts]
    BY <1>8 DEF ConnectCb
  <2> QED
    BY <1>8, <2>1, <2>2 DEF ConnectCb
<1>9. CASE ReaderTells
  BY <1>9 DEF ReaderTells
<1>10. CASE ReaderShuts
  BY <1>10 DEF ReaderShuts
<1>11. CASE ReaderEnds
  BY <1>11 DEF ReaderEnds
<1>12. CASE ReaderRestarts
  BY <1>12 DEF ReaderRestarts
<1>13. CASE WriterTells
  BY <1>13 DEF WriterTells
<1>14. CASE WriterShuts
  BY <1>14, ZenonT(30) DEF WriterShuts
<1>15. CASE WriterWoken
  BY <1>15 DEF WriterWoken
<1>16. CASE WriterEnds
  BY <1>16 DEF WriterEnds
<1>17. CASE PeerBreaks
  BY <1>17 DEF PeerBreaks
<1>18. CASE AppClose
  <2>1. /\ slUp' \in BOOLEAN /\ slBroken' \in BOOLEAN /\ slAuto' \in BOOLEAN /\ slTimer' \in BOOLEAN
        /\ slKick' \in BOOLEAN /\ slHad' \in BOOLEAN /\ slByApp' \in BOOLEAN /\ slBoth' \in BOOLEAN
        /\ slClean' \in BOOLEAN
    BY <1>18, Zenon DEF AppClose
  <2>2. /\ slSem' \in Nat /\ slShort' \in Nat /\ slTold' \in Nat
        /\ slStart' \in [SlStarts -> SlStartAts]
    BY <1>18 DEF AppClose
  <2> QED
    BY <1>18, <2>1, <2>2 DEF AppClose
<1>19. CASE AppCloses
  BY <1>19 DEF AppCloses
<1>20. CASE UNCHANGED slVars
  BY <1>20 DEF slVars
<1> QED
  BY <1>1, <1>2, <1>3, <1>4, <1>5, <1>6, <1>7, <1>8, <1>9, <1>10, <1>11, <1>12,
     <1>13, <1>14, <1>15, <1>16, <1>17, <1>18, <1>19, <1>20 DEF SlNext, SlStartStep,
     SlReaderStep, SlWriterStep

\* Nobody makes a second right to start: whoever passes it on gives it up in the
\* same step.
LEMMA SlTokenStep == SlTypeOK /\ SlTokenInv /\ [SlNext]_slVars => SlTokenInv'
<1> SUFFICES ASSUME SlTypeOK, SlTokenInv, [SlNext]_slVars PROVE SlTokenInv'
  OBVIOUS
<1> USE DEF SlTypeOK, SlStarts, SlStartAts, SlStartAt, slVars, slSession, slBounds, SlTokenInv, SlOne
<1>1. ASSUME NEW s \in SlStarts, AppStart(s) PROVE SlTokenInv'
  BY <1>1 DEF AppStart
<1>2. ASSUME NEW s \in SlStarts, RetryTimer(s) PROVE SlTokenInv'
  BY <1>2 DEF RetryTimer
<1>3. ASSUME NEW s \in SlStarts, ShortTimer(s) PROVE SlTokenInv'
  BY <1>3 DEF ShortTimer
<1>4. ASSUME NEW s \in SlStarts, WaitFiber(s) PROVE SlTokenInv'
  BY <1>4 DEF WaitFiber
<1>5. ASSUME NEW s \in SlStarts, StartFail(s) PROVE SlTokenInv'
  BY <1>5 DEF StartFail
<1>6. ASSUME NEW s \in SlStarts, StartRetry(s) PROVE SlTokenInv'
  BY <1>6 DEF StartRetry
<1>7. ASSUME NEW s \in SlStarts, NEW ok \in BOOLEAN, Dial(s, ok) PROVE SlTokenInv'
  BY <1>7 DEF Dial
<1>8. ASSUME NEW s \in SlStarts, NEW ok \in BOOLEAN, ConnectCb(s, ok) PROVE SlTokenInv'
  BY <1>8 DEF ConnectCb
<1>9. CASE ReaderTells
  BY <1>9 DEF ReaderTells
<1>10. CASE ReaderShuts
  BY <1>10 DEF ReaderShuts
<1>11. CASE ReaderEnds
  BY <1>11 DEF ReaderEnds
<1>12. CASE ReaderRestarts
  BY <1>12 DEF ReaderRestarts
<1>13. CASE WriterTells
  BY <1>13 DEF WriterTells
<1>14. CASE WriterShuts
  BY <1>14, ZenonT(30) DEF WriterShuts
<1>15. CASE WriterWoken
  BY <1>15 DEF WriterWoken
<1>16. CASE WriterEnds
  BY <1>16 DEF WriterEnds
<1>17. CASE PeerBreaks
  BY <1>17 DEF PeerBreaks
<1>18. CASE AppClose
  BY <1>18 DEF AppClose
<1>19. CASE AppCloses
  BY <1>19 DEF AppCloses
<1>20. CASE UNCHANGED slVars
  BY <1>20 DEF slVars
<1> QED
  BY <1>1, <1>2, <1>3, <1>4, <1>5, <1>6, <1>7, <1>8, <1>9, <1>10, <1>11, <1>12,
     <1>13, <1>14, <1>15, <1>16, <1>17, <1>18, <1>19, <1>20 DEF SlNext, SlStartStep,
     SlReaderStep, SlWriterStep

\* Permits are taken and given back, never made: start() that runs a reader and a
\* writer had found neither.
LEMMA SlPermitStep == SlTypeOK /\ SlTokenInv /\ SlPermitInv /\ [SlNext]_slVars => SlPermitInv'
<1> SUFFICES ASSUME SlTypeOK, SlTokenInv, SlPermitInv, [SlNext]_slVars PROVE SlPermitInv'
  OBVIOUS
<1> USE DEF SlTypeOK, SlStarts, SlStartAts, SlStartAt, slVars, slSession, slBounds, SlTokenInv, SlPermitInv, SlHolds, SlOne
<1>1. ASSUME NEW s \in SlStarts, AppStart(s) PROVE SlPermitInv'
  BY <1>1 DEF AppStart
<1>2. ASSUME NEW s \in SlStarts, RetryTimer(s) PROVE SlPermitInv'
  BY <1>2 DEF RetryTimer
<1>3. ASSUME NEW s \in SlStarts, ShortTimer(s) PROVE SlPermitInv'
  BY <1>3 DEF ShortTimer
<1>4. ASSUME NEW s \in SlStarts, WaitFiber(s) PROVE SlPermitInv'
  BY <1>4 DEF WaitFiber
<1>5. ASSUME NEW s \in SlStarts, StartFail(s) PROVE SlPermitInv'
  BY <1>5 DEF StartFail
<1>6. ASSUME NEW s \in SlStarts, StartRetry(s) PROVE SlPermitInv'
  BY <1>6 DEF StartRetry
<1>7. ASSUME NEW s \in SlStarts, NEW ok \in BOOLEAN, Dial(s, ok) PROVE SlPermitInv'
  BY <1>7 DEF Dial
<1>8. ASSUME NEW s \in SlStarts, NEW ok \in BOOLEAN, ConnectCb(s, ok) PROVE SlPermitInv'
  BY <1>8 DEF ConnectCb
<1>9. CASE ReaderTells
  BY <1>9 DEF ReaderTells
<1>10. CASE ReaderShuts
  BY <1>10 DEF ReaderShuts
<1>11. CASE ReaderEnds
  BY <1>11 DEF ReaderEnds
<1>12. CASE ReaderRestarts
  BY <1>12 DEF ReaderRestarts
<1>13. CASE WriterTells
  BY <1>13 DEF WriterTells
<1>14. CASE WriterShuts
  BY <1>14, ZenonT(30) DEF WriterShuts
<1>15. CASE WriterWoken
  BY <1>15 DEF WriterWoken
<1>16. CASE WriterEnds
  BY <1>16 DEF WriterEnds
<1>17. CASE PeerBreaks
  BY <1>17 DEF PeerBreaks
<1>18. CASE AppClose
  BY <1>18 DEF AppClose
<1>19. CASE AppCloses
  BY <1>19 DEF AppCloses
<1>20. CASE UNCHANGED slVars
  BY <1>20 DEF slVars
<1> QED
  BY <1>1, <1>2, <1>3, <1>4, <1>5, <1>6, <1>7, <1>8, <1>9, <1>10, <1>11, <1>12,
     <1>13, <1>14, <1>15, <1>16, <1>17, <1>18, <1>19, <1>20 DEF SlNext, SlStartStep,
     SlReaderStep, SlWriterStep

\* start() that dials has both permits, so the reader and the writer of the last
\* connection are gone; the connection goes down after it was told, or by
\* close().
LEMMA SlConnStep == SlTypeOK /\ SlTokenInv /\ SlPermitInv /\ SlConnInv /\ [SlNext]_slVars => SlConnInv'
<1> SUFFICES ASSUME SlTypeOK, SlTokenInv, SlPermitInv, SlConnInv, [SlNext]_slVars PROVE SlConnInv'
  OBVIOUS
<1> USE DEF SlTypeOK, SlStarts, SlStartAts, SlStartAt, slVars, slSession, slBounds, SlTokenInv, SlPermitInv, SlConnInv, SlHolds, SlOne
<1>1. ASSUME NEW s \in SlStarts, AppStart(s) PROVE SlConnInv'
  BY <1>1 DEF AppStart
<1>2. ASSUME NEW s \in SlStarts, RetryTimer(s) PROVE SlConnInv'
  BY <1>2 DEF RetryTimer
<1>3. ASSUME NEW s \in SlStarts, ShortTimer(s) PROVE SlConnInv'
  BY <1>3 DEF ShortTimer
<1>4. ASSUME NEW s \in SlStarts, WaitFiber(s) PROVE SlConnInv'
  BY <1>4 DEF WaitFiber
<1>5. ASSUME NEW s \in SlStarts, StartFail(s) PROVE SlConnInv'
  BY <1>5 DEF StartFail
<1>6. ASSUME NEW s \in SlStarts, StartRetry(s) PROVE SlConnInv'
  BY <1>6 DEF StartRetry
<1>7. ASSUME NEW s \in SlStarts, NEW ok \in BOOLEAN, Dial(s, ok) PROVE SlConnInv'
  BY <1>7 DEF Dial
<1>8. ASSUME NEW s \in SlStarts, NEW ok \in BOOLEAN, ConnectCb(s, ok) PROVE SlConnInv'
  BY <1>8 DEF ConnectCb
<1>9. CASE ReaderTells
  BY <1>9 DEF ReaderTells
<1>10. CASE ReaderShuts
  BY <1>10 DEF ReaderShuts
<1>11. CASE ReaderEnds
  BY <1>11 DEF ReaderEnds
<1>12. CASE ReaderRestarts
  BY <1>12 DEF ReaderRestarts
<1>13. CASE WriterTells
  BY <1>13 DEF WriterTells
<1>14. CASE WriterShuts
  BY <1>14, ZenonT(30) DEF WriterShuts
<1>15. CASE WriterWoken
  BY <1>15 DEF WriterWoken
<1>16. CASE WriterEnds
  BY <1>16 DEF WriterEnds
<1>17. CASE PeerBreaks
  BY <1>17 DEF PeerBreaks
<1>18. CASE AppClose
  BY <1>18 DEF AppClose
<1>19. CASE AppCloses
  BY <1>19 DEF AppCloses
<1>20. CASE UNCHANGED slVars
  BY <1>20 DEF slVars
<1> QED
  BY <1>1, <1>2, <1>3, <1>4, <1>5, <1>6, <1>7, <1>8, <1>9, <1>10, <1>11, <1>12,
     <1>13, <1>14, <1>15, <1>16, <1>17, <1>18, <1>19, <1>20 DEF SlNext, SlStartStep,
     SlReaderStep, SlWriterStep

\* Only who finds the connection up tells its end, and the first to leave
\* innerClose() takes it down.
LEMMA SlToldStep == SlTypeOK /\ SlTokenInv /\ SlPermitInv /\ SlConnInv /\ SlToldInv /\ [SlNext]_slVars => SlToldInv'
<1> SUFFICES ASSUME SlTypeOK, SlTokenInv, SlPermitInv, SlConnInv, SlToldInv, [SlNext]_slVars PROVE SlToldInv'
  OBVIOUS
<1> USE DEF SlTypeOK, SlStarts, SlStartAts, SlStartAt, slVars, slSession, slBounds, SlTokenInv, SlPermitInv, SlConnInv, SlToldInv, SlHolds, SlOne
<1>1. ASSUME NEW s \in SlStarts, AppStart(s) PROVE SlToldInv'
  BY <1>1 DEF AppStart
<1>2. ASSUME NEW s \in SlStarts, RetryTimer(s) PROVE SlToldInv'
  BY <1>2 DEF RetryTimer
<1>3. ASSUME NEW s \in SlStarts, ShortTimer(s) PROVE SlToldInv'
  BY <1>3 DEF ShortTimer
<1>4. ASSUME NEW s \in SlStarts, WaitFiber(s) PROVE SlToldInv'
  BY <1>4 DEF WaitFiber
<1>5. ASSUME NEW s \in SlStarts, StartFail(s) PROVE SlToldInv'
  BY <1>5 DEF StartFail
<1>6. ASSUME NEW s \in SlStarts, StartRetry(s) PROVE SlToldInv'
  BY <1>6 DEF StartRetry
<1>7. ASSUME NEW s \in SlStarts, NEW ok \in BOOLEAN, Dial(s, ok) PROVE SlToldInv'
  BY <1>7 DEF Dial
<1>8. ASSUME NEW s \in SlStarts, NEW ok \in BOOLEAN, ConnectCb(s, ok) PROVE SlToldInv'
  BY <1>8 DEF ConnectCb
<1>9. CASE ReaderTells
  <2>1. (slBoth' = TRUE) \/ (slBoth' = slBoth /\ slWriter # "shut")
    BY <1>9, Zenon DEF ReaderTells, SlTypeOK
  <2>2. CASE slUp
    BY <1>9, <2>1, <2>2 DEF ReaderTells
  <2>3. CASE ~slUp
    BY <1>9, <2>1, <2>3 DEF ReaderTells
  <2> QED
    BY <2>2, <2>3
<1>10. CASE ReaderShuts
  BY <1>10 DEF ReaderShuts
<1>11. CASE ReaderEnds
  BY <1>11 DEF ReaderEnds
<1>12. CASE ReaderRestarts
  BY <1>12 DEF ReaderRestarts
<1>13. CASE WriterTells
  <2>1. (slBoth' = TRUE) \/ (slBoth' = slBoth /\ slReader # "shut")
    BY <1>13, Zenon DEF WriterTells, SlTypeOK
  <2>2. CASE slUp
    BY <1>13, <2>1, <2>2 DEF WriterTells
  <2>3. CASE ~slUp
    BY <1>13, <2>1, <2>3 DEF WriterTells
  <2> QED
    BY <2>2, <2>3
<1>14. CASE WriterShuts
  BY <1>14, ZenonT(30) DEF WriterShuts
<1>15. CASE WriterWoken
  BY <1>15 DEF WriterWoken
<1>16. CASE WriterEnds
  BY <1>16 DEF WriterEnds
<1>17. CASE PeerBreaks
  BY <1>17 DEF PeerBreaks
<1>18. CASE AppClose
  BY <1>18 DEF AppClose
<1>19. CASE AppCloses
  BY <1>19 DEF AppCloses
<1>20. CASE UNCHANGED slVars
  BY <1>20 DEF slVars
<1> QED
  BY <1>1, <1>2, <1>3, <1>4, <1>5, <1>6, <1>7, <1>8, <1>9, <1>10, <1>11, <1>12,
     <1>13, <1>14, <1>15, <1>16, <1>17, <1>18, <1>19, <1>20 DEF SlNext, SlStartStep,
     SlReaderStep, SlWriterStep

\* After a clean close() the right to start is with the reader, who drops it.
LEMMA SlCloseStep == SlTypeOK /\ SlTokenInv /\ SlCloseInv /\ [SlNext]_slVars => SlCloseInv'
<1> SUFFICES ASSUME SlTypeOK, SlTokenInv, SlCloseInv, [SlNext]_slVars PROVE SlCloseInv'
  OBVIOUS
<1> USE DEF SlTypeOK, SlStarts, SlStartAts, SlStartAt, slVars, slSession, slBounds, SlTokenInv, SlCloseInv, SlOne
<1>1. ASSUME NEW s \in SlStarts, AppStart(s) PROVE SlCloseInv'
  BY <1>1 DEF AppStart
<1>2. ASSUME NEW s \in SlStarts, RetryTimer(s) PROVE SlCloseInv'
  BY <1>2 DEF RetryTimer
<1>3. ASSUME NEW s \in SlStarts, ShortTimer(s) PROVE SlCloseInv'
  BY <1>3 DEF ShortTimer
<1>4. ASSUME NEW s \in SlStarts, WaitFiber(s) PROVE SlCloseInv'
  BY <1>4 DEF WaitFiber
<1>5. ASSUME NEW s \in SlStarts, StartFail(s) PROVE SlCloseInv'
  BY <1>5 DEF StartFail
<1>6. ASSUME NEW s \in SlStarts, StartRetry(s) PROVE SlCloseInv'
  BY <1>6 DEF StartRetry
<1>7. ASSUME NEW s \in SlStarts, NEW ok \in BOOLEAN, Dial(s, ok) PROVE SlCloseInv'
  BY <1>7 DEF Dial
<1>8. ASSUME NEW s \in SlStarts, NEW ok \in BOOLEAN, ConnectCb(s, ok) PROVE SlCloseInv'
  BY <1>8 DEF ConnectCb
<1>9. CASE ReaderTells
  BY <1>9 DEF ReaderTells
<1>10. CASE ReaderShuts
  BY <1>10 DEF ReaderShuts
<1>11. CASE ReaderEnds
  BY <1>11 DEF ReaderEnds
<1>12. CASE ReaderRestarts
  BY <1>12 DEF ReaderRestarts
<1>13. CASE WriterTells
  BY <1>13 DEF WriterTells
<1>14. CASE WriterShuts
  BY <1>14, ZenonT(30) DEF WriterShuts
<1>15. CASE WriterWoken
  BY <1>15 DEF WriterWoken
<1>16. CASE WriterEnds
  BY <1>16 DEF WriterEnds
<1>17. CASE PeerBreaks
  BY <1>17 DEF PeerBreaks
<1>18. CASE AppClose
  BY <1>18 DEF AppClose
<1>19. CASE AppCloses
  BY <1>19 DEF AppCloses
<1>20. CASE UNCHANGED slVars
  BY <1>20 DEF slVars
<1> QED
  BY <1>1, <1>2, <1>3, <1>4, <1>5, <1>6, <1>7, <1>8, <1>9, <1>10, <1>11, <1>12,
     <1>13, <1>14, <1>15, <1>16, <1>17, <1>18, <1>19, <1>20 DEF SlNext, SlStartStep,
     SlReaderStep, SlWriterStep

\* The initial state satisfies the invariant.
LEMMA SlInitInv == SlInit => SlInv
<1> SUFFICES ASSUME SlInit PROVE SlInv
  OBVIOUS
<1>1. SlTypeOK
  BY DEF SlInit, SlTypeOK, SlStarts, SlStartAts
<1>2. SlTokenInv /\ SlPermitInv
  BY DEF SlInit, SlTokenInv, SlPermitInv, SlOne, SlHolds, SlStarts
<1>3. SlConnInv /\ SlToldInv /\ SlCloseInv
  BY DEF SlInit, SlConnInv, SlToldInv, SlCloseInv, SlOne, SlStarts
<1> QED
  BY <1>1, <1>2, <1>3 DEF SlInv

\* Every end of a connection of an AsyncSocketStream is told to m_disconnectCb, once
\* unless the reader and the writer leave together, or it came from close(); and a
\* stream that close() found connected and reading is never connected again.
THEOREM SlOrderlyHolds == SlSpec => []SlOrderly
<1>1. SlInit => SlInv
  BY SlInitInv
<1>2. SlInv /\ [SlNext]_slVars => SlInv'
  BY SlTypeStep, SlTokenStep, SlPermitStep, SlConnStep, SlToldStep, SlCloseStep DEF SlInv
<1>3. SlInv => SlOrderly
  BY DEF SlInv, SlConnInv, SlToldInv, SlCloseInv, SlOrderly
<1> QED
  BY <1>1, <1>2, <1>3, PTL DEF SlSpec

-----------------------------------------------------------------------------
(***************************************************************************)
(* Discovery: the balancer follows the lists of providers.                 *)
(***************************************************************************)

SdTaskType ==
    [pc : {"idle", "register", "fetch", "swap", "diff", "update"},
     list : SUBSET SdAll, old : SUBSET SdAll, adds : SUBSET SdAll]

SdTypeOK ==
    /\ zkKids \subseteq SdAll /\ sdDatas \subseteq SdAll /\ sdLb \subseteq SdAll
    /\ sdTask \in [SdThreads -> SdTaskType]
    /\ sdStreams \in [SdAll -> Int]

\* The changes of callbacks that overlap are apart, but for the hosts that count as
\* muddled.
SdApart ==
    SdInCallback("zk") /\ SdInCallback("timer") => SdDelta("zk") \cap SdDelta("timer") \subseteq sdMuddled

\* A host that no callback is about to change is as the list in m_datas says.
SdSettledHost(h) ==
    /\ h \in sdLb <=> h \in sdDatas \ sdFailed
    /\ sdStreams[h] = (IF h \in sdLb THEN 1 ELSE 0)

\* A host that the callback of t adds or deletes is as the old list says until the
\* streams are made; then one that is new has its stream, and is not yet listed.
SdChangingHost(t, h) ==
    /\ h \in sdTask[t].list <=> h \in sdDatas
    /\ h \in sdTask[t].old => (h \in sdLb <=> h \notin sdFailed)
    /\ h \notin sdTask[t].old => h \notin sdLb
    /\ sdTask[t].pc = "diff" => sdStreams[h] = (IF h \in sdLb THEN 1 ELSE 0)
    /\ sdTask[t].pc = "update" =>
           /\ h \in sdTask[t].adds <=> h \notin sdTask[t].old /\ h \notin sdFailed
           /\ sdStreams[h] = (IF h \in sdLb \/ h \in sdTask[t].adds THEN 1 ELSE 0)

SdAlters(t, h) == SdInCallback(t) /\ h \in SdDelta(t)

SdHostInv(h) ==
    /\ (\A t \in SdThreads : ~SdAlters(t, h)) => SdSettledHost(h)
    /\ \A t \in SdThreads : SdAlters(t, h) => SdChangingHost(t, h)

\* Streams are made for hosts of the change only.
SdAddsInv ==
    \A t \in SdThreads :
        sdTask[t].pc = "update" => sdTask[t].adds \subseteq sdTask[t].list \ sdTask[t].old

\* A step that touches neither the books nor a callback.
SdQuiet ==
    /\ UNCHANGED <<sdDatas, sdBooks>>
    /\ \A t \in SdThreads : sdTask'[t] = sdTask[t] \/ (~SdInCallback(t) /\ ~SdInCallback(t)')

SdInv == SdTypeOK /\ SdApart /\ SdAddsInv /\ \A h \in SdAll \ sdMuddled : SdHostInv(h)

\* Every step keeps the types.
LEMMA SdTypeStep == SdTypeOK /\ [SdNext]_sdVars => SdTypeOK'
<1> SUFFICES ASSUME SdTypeOK, [SdNext]_sdVars PROVE SdTypeOK'
  OBVIOUS
<1> USE DEF SdTypeOK, SdTaskType, SdThreads, SdAll, SdGo, SdAt, SdIdle, ZkSetKids, sdVars, zkVars, sdBooks
<1>1. ASSUME NEW h \in SdHosts, ZkChange(h) PROVE SdTypeOK'
  BY <1>1 DEF ZkChange
<1>2. CASE ZkOldSessionEnds
  BY <1>2 DEF ZkOldSessionEnds
<1>3. CASE ZkExpire
  BY <1>3 DEF ZkExpire
<1>4. CASE SdEvent
  BY <1>4 DEF SdEvent
<1>5. CASE SdTimer
  BY <1>5 DEF SdTimer
<1>6. ASSUME NEW t \in SdThreads, SdRegister(t) PROVE SdTypeOK'
  BY <1>6 DEF SdRegister
<1>7. ASSUME NEW t \in SdThreads, SdFetch(t) PROVE SdTypeOK'
  BY <1>7 DEF SdFetch
<1>8. ASSUME NEW t \in SdThreads, SdSwap(t) PROVE SdTypeOK'
  BY <1>8 DEF SdSwap
<1>9. ASSUME NEW t \in SdThreads, NEW failing \in SUBSET SdHosts, SdCreate(t, failing) PROVE SdTypeOK'
  BY <1>9 DEF SdCreate
<1>10. ASSUME NEW t \in SdThreads, SdUpdate(t) PROVE SdTypeOK'
  BY <1>10 DEF SdUpdate
<1>11. CASE UNCHANGED sdVars
  BY <1>11 DEF sdVars
<1> QED
  BY <1>1, <1>2, <1>3, <1>4, <1>5, <1>6, <1>7, <1>8, <1>9, <1>10, <1>11 DEF SdNext,
     SdThread

\* What ZooKeeper does, its events, registering and fetching are such steps.
LEMMA SdQuietSteps ==
  ASSUME SdTypeOK
  PROVE  /\ \A h \in SdHosts : ZkChange(h) => SdQuiet
         /\ ZkOldSessionEnds \/ ZkExpire \/ SdEvent \/ SdTimer \/ UNCHANGED sdVars => SdQuiet
         /\ \A t \in SdThreads : SdRegister(t) \/ SdFetch(t) => SdQuiet
<1> USE DEF SdTypeOK, SdTaskType, SdThreads, SdGo, SdAt, SdIdle, SdQuiet, SdInCallback, sdBooks
<1>1. \A h \in SdHosts : ZkChange(h) => SdQuiet
  BY DEF ZkChange
<1>2. ZkOldSessionEnds \/ ZkExpire \/ UNCHANGED sdVars => SdQuiet
  BY DEF ZkOldSessionEnds, ZkExpire, sdVars
<1>3. SdEvent => SdQuiet
  BY DEF SdEvent
<1>4. SdTimer => SdQuiet
  BY DEF SdTimer
<1>5. ASSUME NEW t \in SdThreads, SdRegister(t) PROVE SdQuiet
  BY <1>5 DEF SdRegister
<1>6. ASSUME NEW t \in SdThreads, SdFetch(t) PROVE SdQuiet
  BY <1>6 DEF SdFetch
<1> QED
  BY <1>1, <1>2, <1>3, <1>4, <1>5, <1>6, Zenon

\* They keep the invariant.
LEMMA SdQuietStep ==
  ASSUME SdInv, SdQuiet
  PROVE  SdApart' /\ SdAddsInv' /\ \A h \in SdAll \ sdMuddled' : SdHostInv(h)'
<1> USE DEF SdInv, SdQuiet, sdBooks
<1>1. \A t \in SdThreads : /\ SdInCallback(t)' <=> SdInCallback(t)
                           /\ SdInCallback(t) => sdTask'[t] = sdTask[t]
  BY DEF SdInCallback
<1>2. \A t \in SdThreads : SdInCallback(t) => SdDelta(t)' = SdDelta(t)
  BY <1>1 DEF SdDelta
<1>3. SdApart'
  BY <1>1, <1>2 DEF SdApart, SdThreads
<1>4. SdAddsInv'
  BY <1>1 DEF SdAddsInv, SdInCallback
<1>5. ASSUME NEW h \in SdAll \ sdMuddled' PROVE SdHostInv(h)'
  <2>1. SdHostInv(h) /\ \A t \in SdThreads : SdAlters(t, h)' <=> SdAlters(t, h)
    BY <1>1, <1>2, <1>5 DEF SdAlters
  <2>2. \A t \in SdThreads : SdAlters(t, h) /\ SdChangingHost(t, h) => SdChangingHost(t, h)'
    BY <1>1 DEF SdAlters, SdChangingHost
  <2>3. SdSettledHost(h) => SdSettledHost(h)'
    BY DEF SdSettledHost
  <2> QED
    BY <2>1, <2>2, <2>3, Zenon DEF SdHostInv
<1> QED
  BY <1>3, <1>4, <1>5

\* The swap: a host that is as m_datas says is as the list says that the callback
\* will find as the old one, and one that the other callback is about to change is
\* either left alone or muddled.
LEMMA SdSwapStep ==
  ASSUME SdInv, NEW t \in SdThreads, SdSwap(t)
  PROVE  SdApart' /\ SdAddsInv' /\ \A h \in SdAll \ sdMuddled' : SdHostInv(h)'
<1> USE DEF SdInv
<1>1. PICK o \in SdThreads : o # t /\ (\A x \in SdThreads : x = t \/ x = o) /\ o = CHOOSE x \in SdThreads : x # t
  <2>1. \E x \in SdThreads : x # t
    BY DEF SdThreads
  <2>2. (CHOOSE x \in SdThreads : x # t) \in SdThreads /\ (CHOOSE x \in SdThreads : x # t) # t
    BY <2>1, Zenon
  <2> QED
    BY <2>2 DEF SdThreads
<1>2. /\ sdTask[t].pc = "swap" /\ sdTask'[o] = sdTask[o]
      /\ sdTask'[t].pc = "diff" /\ sdTask'[t].list = sdTask[t].list /\ sdTask'[t].old = sdDatas
      /\ sdDatas' = sdTask[t].list
      /\ UNCHANGED <<sdLb, sdStreams, sdFailed>>
  BY <1>1 DEF SdSwap, SdAt, SdTypeOK
<1>3. /\ SdInCallback(t)' /\ ~SdInCallback(t) /\ (SdInCallback(o)' <=> SdInCallback(o))
      /\ SdDelta(o)' = SdDelta(o)
      /\ \A h : h \in SdDelta(t)' <=> (h \in sdTask[t].list <=> h \notin sdDatas)
  BY <1>1, <1>2 DEF SdInCallback, SdDelta
<1>4. sdMuddled \subseteq sdMuddled' /\ (SdInCallback(o) => SdDelta(o) \cap SdDelta(t)' \subseteq sdMuddled')
  BY <1>1, <1>3 DEF SdSwap
<1>5. SdApart'
  BY <1>1, <1>3, <1>4 DEF SdApart, SdThreads
<1>6. SdAddsInv'
  BY <1>1, <1>2 DEF SdAddsInv
<1>7. ASSUME NEW h \in SdAll \ sdMuddled' PROVE SdHostInv(h)'
  <2>1. SdHostInv(h) /\ ~SdAlters(t, h) /\ (SdAlters(o, h)' <=> SdAlters(o, h))
    BY <1>3, <1>4, <1>7 DEF SdAlters
  <2>2. CASE SdAlters(o, h)
    <3>1. ~SdAlters(t, h)' /\ (h \in sdTask[t].list <=> h \in sdDatas)
      BY <2>2, <1>3, <1>4, <1>7 DEF SdAlters
    <3>2. SdChangingHost(o, h)
      BY <2>1, <2>2, <1>1 DEF SdHostInv
    <3>3. SdChangingHost(o, h)'
      BY <3>1, <3>2, <1>2 DEF SdChangingHost
    <3> QED
      BY <3>1, <3>3, <2>1, <2>2, <1>1, Zenon DEF SdHostInv
  <2>3. CASE ~SdAlters(o, h)
    <3>1. SdSettledHost(h)
      BY <2>1, <2>3, <1>1 DEF SdHostInv
    <3>2. SdAlters(t, h)' => SdChangingHost(t, h)'
      BY <3>1, <1>2, <1>3 DEF SdAlters, SdChangingHost, SdSettledHost
    <3>3. ~SdAlters(t, h)' => SdSettledHost(h)'
      BY <3>1, <1>2, <1>3 DEF SdAlters, SdSettledHost
    <3> QED
      BY <3>2, <3>3, <2>1, <2>3, <1>1, Zenon DEF SdHostInv
  <2> QED
    BY <2>2, <2>3
<1> QED
  BY <1>5, <1>6, <1>7

\* m_cb makes streams for the new hosts of this callback, and of no other.
LEMMA SdCreateStep ==
  ASSUME SdInv, NEW t \in SdThreads, NEW failing \in SUBSET SdHosts, SdCreate(t, failing)
  PROVE  SdApart' /\ SdAddsInv' /\ \A h \in SdAll \ sdMuddled' : SdHostInv(h)'
<1> USE DEF SdInv
<1>1. PICK o \in SdThreads : o # t /\ \A x \in SdThreads : x = t \/ x = o
  BY DEF SdThreads
<1> DEFINE news == sdTask[t].list \ sdTask[t].old
<1>2. /\ sdTask[t].pc = "diff" /\ sdTask'[o] = sdTask[o] /\ failing \subseteq news
      /\ sdTask'[t].pc = "update" /\ sdTask'[t].list = sdTask[t].list /\ sdTask'[t].old = sdTask[t].old
      /\ sdTask'[t].adds = news \ failing
      /\ sdFailed' = (sdFailed \ news) \cup failing
      /\ UNCHANGED <<sdDatas, sdLb, sdMuddled>>
  BY <1>1 DEF SdCreate, SdAt, SdTypeOK
<1>3. \A h \in SdAll : sdStreams'[h] = IF h \in news \ failing THEN sdStreams[h] + 1 ELSE sdStreams[h]
  BY DEF SdCreate
<1>4. \A x \in SdThreads : /\ SdInCallback(x)' <=> SdInCallback(x)
                           /\ SdDelta(x)' = SdDelta(x)
                           /\ \A h : SdAlters(x, h)' <=> SdAlters(x, h)
  BY <1>1, <1>2 DEF SdInCallback, SdDelta, SdAlters
<1>5. SdApart'
  BY <1>2, <1>4 DEF SdApart, SdThreads
<1>6. SdAddsInv'
  BY <1>1, <1>2 DEF SdAddsInv
<1>7. ASSUME NEW h \in SdAll \ sdMuddled' PROVE SdHostInv(h)'
  <2>1. SdHostInv(h) /\ ~(SdAlters(t, h) /\ SdAlters(o, h)) /\ (h \in news => SdAlters(t, h))
    BY <1>1, <1>2, <1>7 DEF SdAlters, SdApart, SdThreads, SdInCallback, SdDelta
  <2>2. CASE SdAlters(t, h)
    <3>1. SdChangingHost(t, h)
      BY <2>1, <2>2 DEF SdHostInv
    <3>2. sdStreams[h] = (IF h \in sdLb THEN 1 ELSE 0) /\ (h \in sdTask[t].list <=> h \notin sdTask[t].old)
      BY <3>1, <2>2, <1>2 DEF SdChangingHost, SdAlters, SdDelta
    <3>3. SdChangingHost(t, h)'
      BY <3>1, <3>2, <1>2, <1>3 DEF SdChangingHost
    <3> QED
      BY <3>3, <2>1, <2>2, <1>1, <1>4, Zenon DEF SdHostInv
  <2>3. CASE ~SdAlters(t, h)
    <3>1. h \notin news /\ sdStreams'[h] = sdStreams[h] /\ (h \in sdFailed' <=> h \in sdFailed)
      BY <2>1, <2>3, <1>2, <1>3
    <3>2. SdSettledHost(h) => SdSettledHost(h)'
      BY <3>1, <1>2 DEF SdSettledHost
    <3>3. SdChangingHost(o, h) => SdChangingHost(o, h)'
      BY <3>1, <1>2 DEF SdChangingHost
    <3> QED
      BY <3>2, <3>3, <2>1, <2>3, <1>1, <1>4, Zenon DEF SdHostInv
  <2> QED
    BY <2>2, <2>3
<1> QED
  BY <1>5, <1>6, <1>7

\* The balancer is brought up to date for the hosts of this callback, and the hosts
\* are as m_datas says.
LEMMA SdUpdateStep ==
  ASSUME SdInv, NEW t \in SdThreads, SdUpdate(t)
  PROVE  SdApart' /\ SdAddsInv' /\ \A h \in SdAll \ sdMuddled' : SdHostInv(h)'
<1> USE DEF SdInv
<1>1. PICK o \in SdThreads : o # t /\ \A x \in SdThreads : x = t \/ x = o
  BY DEF SdThreads
<1> DEFINE found == (sdTask[t].old \ sdTask[t].list) \cap sdLb
<1>2. /\ sdTask[t].pc = "update" /\ sdTask'[o] = sdTask[o] /\ sdTask'[t].pc = "idle"
      /\ sdLb' = (sdLb \ found) \cup sdTask[t].adds
      /\ UNCHANGED <<sdDatas, sdFailed, sdMuddled>>
  BY <1>1 DEF SdUpdate, SdIdle, SdAt, SdTypeOK
<1>3. \A h \in SdAll : sdStreams'[h] = IF h \in found THEN sdStreams[h] - 1 ELSE sdStreams[h]
  BY DEF SdUpdate
<1>4. /\ ~SdInCallback(t)' /\ (SdInCallback(o)' <=> SdInCallback(o)) /\ SdInCallback(t)
      /\ \A h : ~SdAlters(t, h)' /\ (SdAlters(o, h)' <=> SdAlters(o, h))
  BY <1>1, <1>2 DEF SdInCallback, SdDelta, SdAlters
<1>5. SdApart'
  BY <1>1, <1>4 DEF SdApart, SdThreads
<1>6. SdAddsInv'
  BY <1>1, <1>2 DEF SdAddsInv
<1>7. ASSUME NEW h \in SdAll \ sdMuddled' PROVE SdHostInv(h)'
  <2>1. /\ SdHostInv(h) /\ ~(SdAlters(t, h) /\ SdAlters(o, h))
        /\ h \in found \/ h \in sdTask[t].adds => SdAlters(t, h)
    BY <1>1, <1>2, <1>4, <1>7 DEF SdAlters, SdApart, SdAddsInv, SdThreads, SdDelta
  <2>2. CASE SdAlters(t, h)
    <3>1. SdChangingHost(t, h) /\ (h \in sdTask[t].list <=> h \notin sdTask[t].old)
      BY <2>1, <2>2 DEF SdHostInv, SdAlters, SdDelta
    <3>2. SdSettledHost(h)'
      BY <3>1, <1>2, <1>3, <1>7 DEF SdChangingHost, SdSettledHost
    <3> QED
      BY <3>2, <2>1, <2>2, <1>1, <1>4, Zenon DEF SdHostInv
  <2>3. CASE ~SdAlters(t, h)
    <3>1. sdStreams'[h] = sdStreams[h] /\ (h \in sdLb' <=> h \in sdLb)
      BY <2>1, <2>3, <1>2, <1>3
    <3>2. SdSettledHost(h) => SdSettledHost(h)'
      BY <3>1, <1>2 DEF SdSettledHost
    <3>3. SdChangingHost(o, h) => SdChangingHost(o, h)'
      BY <3>1, <1>2 DEF SdChangingHost
    <3> QED
      BY <3>2, <3>3, <2>1, <2>3, <1>1, <1>4, Zenon DEF SdHostInv
  <2> QED
    BY <2>2, <2>3
<1> QED
  BY <1>5, <1>6, <1>7

\* Whenever no thread is in onServiceChange(), the balancer has exactly the hosts of
\* m_datas whose stream could be made, each with one stream, and no other stream is
\* open, but for hosts that two overlapping callbacks both change; for any number of
\* hosts, changes and expired sessions.
THEOREM SdConsistentHolds == SdSpec => []SdConsistent
<1>1. SdInit => SdInv
  <2> SUFFICES ASSUME SdInit PROVE SdInv
    OBVIOUS
  <2>1. SdTypeOK
    BY DEF SdInit, SdTypeOK, SdTaskType, SdIdle, SdAt, SdAll
  <2>2. \A t \in SdThreads : sdTask[t].pc = "idle"
    BY DEF SdInit, SdIdle, SdAt
  <2>3. SdApart /\ SdAddsInv /\ \A t \in SdThreads, h \in SdAll : ~SdAlters(t, h)
    BY <2>2 DEF SdApart, SdAddsInv, SdAlters, SdInCallback, SdThreads
  <2>4. \A h \in SdAll : SdSettledHost(h)
    BY DEF SdInit, SdSettledHost
  <2> QED
    BY <2>1, <2>3, <2>4 DEF SdInv, SdHostInv
<1>2. SdInv /\ [SdNext]_sdVars => SdInv'
  <2> SUFFICES ASSUME SdInv, [SdNext]_sdVars PROVE SdInv'
    OBVIOUS
  <2>1. SdTypeOK /\ SdTypeOK'
    BY SdTypeStep DEF SdInv
  <2>2. SdApart' /\ SdAddsInv' /\ \A h \in SdAll \ sdMuddled' : SdHostInv(h)'
    <3>1. CASE SdQuiet
      BY <3>1, SdQuietStep
    <3>2. CASE \E t \in SdThreads : SdSwap(t)
      BY <3>2, SdSwapStep
    <3>3. CASE \E t \in SdThreads, failing \in SUBSET SdHosts : SdCreate(t, failing)
      BY <3>3, SdCreateStep
    <3>4. CASE \E t \in SdThreads : SdUpdate(t)
      BY <3>4, SdUpdateStep
    <3> QED
      BY <2>1, <3>1, <3>2, <3>3, <3>4, SdQuietSteps, Zenon DEF SdNext, SdThread
  <2> QED
    BY <2>1, <2>2 DEF SdInv, SdAll
<1>3. SdInv => SdConsistent
  BY Zenon DEF SdInv, SdConsistent, SdHostInv, SdAlters, SdSettledHost
<1> QED
  BY <1>1, <1>2, <1>3, PTL DEF SdSpec

-----------------------------------------------------------------------------
(***************************************************************************)
(* Remainders and extrema of sets of numbers.                              *)
(***************************************************************************)

\* A larger quotient makes a number larger by a whole divisor.
LEMMA Scale ==
  ASSUME NEW n \in Nat \ {0}, NEW a \in Int, NEW b \in Int, a >= b + 1
  PROVE  n * a >= n * b + n
<1>1. n * (a - b) >= n
  OBVIOUS
<1> QED
  BY <1>1

\* Quotient and remainder are unique.
LEMMA ModUnique ==
  ASSUME NEW n \in Nat \ {0}, NEW q \in Int, NEW r \in 0 .. n - 1
  PROVE  (n * q + r) % n = r
<1> DEFINE x == n * q + r
          d == x \div n
          m == x % n
<1>1. d \in Int /\ m \in 0 .. n - 1 /\ x = n * d + m
  OBVIOUS
<1>2. ~(d >= q + 1)
  BY <1>1, Scale
<1>3. ~(q >= d + 1)
  BY <1>1, Scale
<1> QED
  BY <1>1, <1>2, <1>3

\* A number below the divisor is its own remainder.
LEMMA ModSmall ==
  ASSUME NEW n \in Nat \ {0}, NEW r \in 0 .. n - 1
  PROVE  r % n = r
  BY ModUnique

\* Going back by the divisor leaves the remainder as it is.
LEMMA ModBack ==
  ASSUME NEW n \in Nat \ {0}, NEW x \in Int
  PROVE  (x - n) % n = x % n
<1>1. PICK q \in Int, r \in 0 .. n - 1 : x = n * q + r /\ x % n = r
  OBVIOUS
<1>2. x - n = n * (q - 1) + r /\ q - 1 \in Int
  BY <1>1
<1>3. (n * (q - 1) + r) % n = r
  BY <1>2, ModUnique
<1> QED
  BY <1>1, <1>2, <1>3, Zenon

\* Min picks a least element of a set of natural numbers.
LEMMA MinIs ==
  ASSUME NEW S \in SUBSET Nat, S # {}
  PROVE  Min(S) \in S /\ \A k \in S : Min(S) <= k
<1>1. PICK m \in S : \A k \in S : ~ (<<k, m>> \in OpToRel(<, Nat))
  BY NatLessThanWellFounded, WFMin
<1>2. \A k \in S : ~ (k < m)
  BY <1>1 DEF OpToRel
<1>3. \E x \in S : \A k \in S : x <= k
  BY <1>2
<1> QED
  BY <1>3 DEF Min

\* Max picks a greatest element of a bounded one.
LEMMA MaxIs ==
  ASSUME NEW S \in SUBSET Nat, S # {}, NEW n \in Nat, \A k \in S : k <= n
  PROVE  Max(S) \in S /\ \A k \in S : Max(S) >= k
<1> DEFINE D == {n - k : k \in S}
<1>1. D \in SUBSET Nat /\ D # {}
  <2>1. \A k \in S : n - k \in Nat
    OBVIOUS
  <2>2. PICK k \in S : TRUE
    OBVIOUS
  <2>3. n - k \in D
    BY <2>2
  <2> QED
    BY <2>1, <2>3
<1>2. PICK m \in D : \A d \in D : m <= d
  <2> HIDE DEF D
  <2> QED
    BY <1>1, MinIs
<1>3. PICK x \in S : m = n - x
  BY <1>2
<1>4. \A k \in S : n - x <= n - k
  BY <1>2, <1>3
<1>5. \E y \in S : \A k \in S : y >= k
  BY <1>3, <1>4
<1> QED
  BY <1>5 DEF Max

-----------------------------------------------------------------------------
(***************************************************************************)
(* LoadBalance: the ring of statistics.                                    *)
(***************************************************************************)

LbTypeOK ==
    /\ lbNow \in LbTimes /\ lbConn \subseteq LbItems /\ lbList \in Seq(LbItems)
    /\ lbDoing \in [LbItems -> [LbRing -> Nat]] /\ lbTotal \in [LbItems -> [LbRing -> Nat]]
    /\ lbLast \in [LbItems -> Nat]
    /\ lbCall \in [LbCalls -> {LbFree} \cup [item : LbItems, at : LbTimes]]
    /\ lbBegun \in [LbItems -> [LbTimes -> Nat]]
    /\ lbSpoilt \in [LbItems -> SUBSET Nat]

\* Nothing has begun after the last update of an item's ring, and the last update is
\* not in the future.
LbPastInv ==
    /\ \A i \in LbItems : lbLast[i] <= lbNow
    /\ \A i \in LbItems : \A t \in LbTimes : t > lbLast[i] => lbBegun[i][t] = 0
    /\ \A c \in LbCalls : lbCall[c] # LbFree => lbCall[c].at <= lbLast[lbCall[c].item]

LbOpen(i, t) == {c \in LbCalls : lbCall[c] = [item |-> i, at |-> t]}

LbInv == LbTypeOK /\ LbPastInv /\ LbWindow

\* The second that slot k stands for in a ring that was last updated at last.
LbSecondOf(last, k) == Max({0} \cup {t \in 0 .. last : t % LbSize = k})

\* It is the last one with this remainder.
LEMMA SecondIs ==
  ASSUME NEW last \in Nat, NEW k \in LbRing
  PROVE  /\ LbSecondOf(last, k) \in 0 .. last
         /\ LbSecondOf(last, k) = 0 \/ LbSecondOf(last, k) % LbSize = k
         /\ \A t \in 0 .. last : t % LbSize = k => t <= LbSecondOf(last, k)
<1> DEFINE S == {0} \cup {t \in 0 .. last : t % LbSize = k}
<1>1. S \in SUBSET Nat /\ S # {} /\ \A t \in S : t <= last
  OBVIOUS
<1>2. Max(S) \in S /\ \A t \in S : Max(S) >= t
  <2> HIDE DEF S
  <2> QED
    BY <1>1, MaxIs
<1> QED
  BY <1>2 DEF LbSecondOf

\* init() clears exactly the slots that come to stand for a later second, however
\* long ago the last update was.
LEMMA ClearedAreNew ==
  ASSUME NEW i \in LbItems, lbLast[i] \in Nat, lbNow \in Nat, lbLast[i] < lbNow, NEW k \in LbRing
  PROVE  /\ k \in LbCleared(i) => LbSecondOf(lbNow, k) > lbLast[i]
         /\ k \notin LbCleared(i) => LbSecondOf(lbNow, k) = LbSecondOf(lbLast[i], k)
<1> USE LoadBalanceAssumption
<1> DEFINE last == lbLast[i]
          upto == Min({lbNow, last + LbSize})
          new == LbSecondOf(lbNow, k)
          old == LbSecondOf(last, k)
<1>1. upto \in {lbNow, last + LbSize} /\ upto <= lbNow /\ upto <= last + LbSize
  <2>1. {lbNow, last + LbSize} \in SUBSET Nat /\ {lbNow, last + LbSize} # {}
    OBVIOUS
  <2> QED
    BY <2>1, MinIs
<1>2. k \in LbCleared(i) <=> \E t \in last + 1 .. upto : t % LbSize = k
  <2>1. LbCleared(i) = {t % LbSize : t \in last + 1 .. upto}
    BY DEF LbCleared
  <2> HIDE DEF upto
  <2> QED
    BY <2>1
<1>3. /\ new \in 0 .. lbNow /\ (new = 0 \/ new % LbSize = k)
      /\ \A t \in 0 .. lbNow : t % LbSize = k => t <= new
  BY SecondIs
<1>4. /\ old \in 0 .. last /\ (old = 0 \/ old % LbSize = k)
      /\ \A t \in 0 .. last : t % LbSize = k => t <= old
  BY SecondIs
<1> HIDE DEF upto, new, old
<1>5. ASSUME k \in LbCleared(i) PROVE new > last
  <2>1. PICK t \in last + 1 .. upto : t % LbSize = k
    BY <1>2, <1>5
  <2>2. t \in 0 .. lbNow
    BY <1>1, <2>1
  <2> QED
    BY <1>3, <2>1, <2>2
<1>6. ASSUME k \notin LbCleared(i), new > last PROVE FALSE
  <2> DEFINE T == {t \in last + 1 .. lbNow : t % LbSize = k}
  <2>1. T \in SUBSET Nat /\ T # {}
    <3>1. new \in last + 1 .. lbNow /\ new % LbSize = k
      BY <1>3, <1>6
    <3> QED
      BY <3>1
  <2>2. PICK m \in T : \A t \in T : m <= t
    <3> HIDE DEF T
    <3> QED
      BY <2>1, MinIs
  <2>3. m > last + LbSize
    <3>1. ~(m <= upto)
      BY <1>2, <1>6, <2>2
    <3> QED
      BY <1>1, <2>2, <3>1
  <2>4. (m - LbSize) % LbSize = k
    <3>1. m \in Int /\ m % LbSize = k /\ LbSize \in Nat \ {0}
      BY <2>2
    <3> HIDE DEF T
    <3>2. (m - LbSize) % LbSize = m % LbSize
      BY <3>1, ModBack
    <3> QED
      BY <3>1, <3>2, Zenon
  <2>5. m - LbSize \in T
    BY <2>2, <2>3, <2>4
  <2> QED
    BY <2>2, <2>5
<1>7. ASSUME k \notin LbCleared(i) PROVE new = old
  <2>1. new \in 0 .. last
    BY <1>3, <1>6, <1>7
  <2>2. old \in 0 .. lbNow
    BY <1>4
  <2>3. new <= old
    BY <1>3, <1>4, <2>1
  <2>4. old <= new
    BY <1>3, <1>4, <2>2
  <2> QED
    BY <2>1, <2>2, <2>3, <2>4
<1> QED
  BY <1>5, <1>7 DEF new, old

\* A property of the ring after init() of some items, before the counters are moved:
\* it is a window on the seconds up to now.
LEMMA FreshWindow ==
  ASSUME LbInv, NEW items \in SUBSET LbItems
  PROVE  /\ LbFresh(lbDoing, items) \in [LbItems -> [LbRing -> Nat]]
         /\ LbFresh(lbTotal, items) \in [LbItems -> [LbRing -> Nat]]
         /\ LbTouched(items) \in [LbItems -> Nat]
         /\ \A i \in LbItems : lbLast[i] <= LbTouched(items)[i] /\ LbTouched(items)[i] <= lbNow
         /\ \A i \in items : LbTouched(items)[i] = lbNow
         /\ \A i \in LbItems, k \in LbRing :
               LET t == LbSecondOf(LbTouched(items)[i], k)
               IN  t \in LbTimes =>
                      /\ LbFresh(lbTotal, items)[i][k] = lbBegun[i][t]
                      /\ t \notin lbSpoilt[i] => LbFresh(lbDoing, items)[i][k] = Cardinality(LbOpen(i, t))
<1> USE LoadBalanceAssumption DEF LbInv, LbTypeOK, LbPastInv
<1>0. lbNow \in Nat
  BY DEF LbTimes
<1>1. /\ LbFresh(lbDoing, items) \in [LbItems -> [LbRing -> Nat]]
      /\ LbFresh(lbTotal, items) \in [LbItems -> [LbRing -> Nat]]
  BY DEF LbFresh
<1>2. /\ LbTouched(items) \in [LbItems -> Nat]
      /\ \A i \in LbItems : lbLast[i] <= LbTouched(items)[i] /\ LbTouched(items)[i] <= lbNow
      /\ \A i \in items : LbTouched(items)[i] = lbNow
  BY <1>0 DEF LbTouched
<1>3. ASSUME NEW i \in LbItems, NEW k \in LbRing, NEW t, t = LbSecondOf(LbTouched(items)[i], k), t \in LbTimes
      PROVE  /\ LbFresh(lbTotal, items)[i][k] = lbBegun[i][t]
             /\ t \notin lbSpoilt[i] => LbFresh(lbDoing, items)[i][k] = Cardinality(LbOpen(i, t))
  <2>1. CASE i \in items /\ lbLast[i] < lbNow /\ k \in LbCleared(i)
    <3>1. t > lbLast[i] /\ t \in Nat
      <4>1. LbTouched(items)[i] = lbNow
        BY <2>1, <1>2
      <4>2. LbSecondOf(lbNow, k) > lbLast[i]
        BY <2>1, <1>0, ClearedAreNew
      <4> QED
        BY <1>3, <4>1, <4>2 DEF LbTimes
    <3>2. LbFresh(lbTotal, items)[i][k] = 0 /\ LbFresh(lbDoing, items)[i][k] = 0
      BY <2>1 DEF LbFresh
    <3>3. LbOpen(i, t) = {}
      <4>1. ASSUME NEW c \in LbCalls, lbCall[c] = [item |-> i, at |-> t] PROVE FALSE
        <5>1. lbCall[c].at = t /\ lbCall[c].item = i /\ lbCall[c] # LbFree
          BY <4>1, <3>1 DEF LbFree
        <5> QED
          BY <5>1, <3>1
      <4> QED
        BY <4>1 DEF LbOpen
    <3> QED
      BY <1>3, <3>1, <3>2, <3>3, FS_EmptySet
  <2>2. CASE ~(i \in items /\ lbLast[i] < lbNow /\ k \in LbCleared(i))
    <3>1. t = LbSecondOf(lbLast[i], k)
      <4>1. CASE i \in items /\ lbLast[i] < lbNow
        <5>1. LbSecondOf(lbNow, k) = LbSecondOf(lbLast[i], k)
          BY <2>2, <4>1, <1>0, ClearedAreNew
        <5> QED
          BY <1>2, <1>3, <4>1, <5>1
      <4>2. CASE ~(i \in items /\ lbLast[i] < lbNow)
        BY <1>3, <4>2 DEF LbTouched
      <4> QED
        BY <4>1, <4>2
    <3>2. LbFresh(lbTotal, items)[i][k] = lbTotal[i][k] /\ LbFresh(lbDoing, items)[i][k] = lbDoing[i][k]
      <4>1. lbLast[i] >= lbNow => LbCleared(i) = {}
        BY DEF LbCleared
      <4>2. ~(i \in items /\ k \in LbCleared(i))
        BY <2>2, <4>1, <1>0
      <4> QED
        BY <4>2 DEF LbFresh
    <3>3. t = LbSecond(i, k)
      BY <3>1 DEF LbSecond, LbSecondOf
    <3> QED
      BY <1>3, <3>2, <3>3 DEF LbWindow, LbOpen
  <2> QED
    BY <2>1, <2>2
<1> QED
  BY <1>1, <1>2, <1>3

\* LbSecond in the next state.
LEMMA SecondNext ==
  ASSUME NEW i, NEW k
  PROVE  LbSecond(i, k) = LbSecondOf(lbLast[i], k) /\ LbSecond(i, k)' = LbSecondOf(lbLast'[i], k)
  BY DEF LbSecond, LbSecondOf

\* get() returns an item that is connected.
LEMMA PickConnected ==
  ASSUME LbTypeOK, NEW dis, LbPick(dis) # "none"
  PROVE  LbPick(dis) \in lbConn
<1> DEFINE at(n) == lbList[((LbIdx(dis) - 1 + n) % Len(lbList)) + 1]
          good == {n \in 0 .. Len(lbList) - 1 : at(n) \in lbConn}
<1>1. good # {} /\ LbPick(dis) = at(Min(good))
  BY DEF LbPick
<1>2. good \in SUBSET Nat
  OBVIOUS
<1>3. Min(good) \in good
  <2> HIDE DEF good
  <2> QED
    BY <1>1, <1>2, MinIs
<1> QED
  BY <1>1, <1>3

\* The connected items make a list of items.
LEMMA ListOfItems ==
  ASSUME NEW S \in SUBSET LbItems
  PROVE  SetToSeq(S) \in Seq(LbItems)
<1>1. IsFiniteSet(S)
  BY LoadBalanceAssumption, FS_Subset
<1>2. Cardinality(S) \in Nat /\ ExistsBijection(1 .. Cardinality(S), S)
  BY <1>1, FS_CardinalityType
<1>3. PICK f : f \in Bijection(1 .. Cardinality(S), S)
  BY <1>2 DEF ExistsBijection
<1>4. f \in [1 .. Cardinality(S) -> S] /\ IsInjective(f)
  BY <1>3 DEF Bijection, Injection, Surjection, IsInjective
<1>5. SetToSeq(S) \in [1 .. Cardinality(S) -> S]
  BY <1>4 DEF SetToSeq
<1> QED
  BY <1>2, <1>5

\* A step of get() and of the clock leaves the rings alone.
LEMMA LbQuietStep ==
  ASSUME LbInv, UNCHANGED <<lbStats, lbCall>>,
         lbNow' \in LbTimes, lbNow' >= lbNow, lbConn' \subseteq LbItems, lbList' \in Seq(LbItems)
  PROVE  LbInv'
<1> USE LoadBalanceAssumption DEF LbInv, LbTypeOK, LbPastInv, lbStats
<1>1. LbTypeOK'
  OBVIOUS
<1>2. LbPastInv'
  BY DEF LbTimes
<1>3. LbWindow'
  <2>1. /\ UNCHANGED <<lbDoing, lbTotal, lbLast, lbBegun, lbSpoilt, lbCall>>
        /\ LbWindow
    OBVIOUS
  <2>2. \A i, k : LbSecond(i, k)' = LbSecond(i, k)
    BY <2>1 DEF LbSecond
  <2>3. ASSUME NEW i \in LbItems, NEW k \in LbRing, NEW t, t = LbSecond(i, k)', t \in LbTimes
        PROVE  /\ lbTotal'[i][k] = lbBegun'[i][t]
               /\ t \notin lbSpoilt'[i] =>
                    lbDoing'[i][k] = Cardinality({c \in LbCalls : lbCall'[c] = [item |-> i, at |-> t]})
    <3>1. t = LbSecond(i, k)
      BY <2>2, <2>3
    <3> QED
      BY <2>1, <2>3, <3>1 DEF LbWindow
  <2> HIDE DEF LbInv, LbTypeOK, LbPastInv, lbStats
  <2> QED
    BY <2>3, SMTT(30) DEF LbWindow
<1> QED
  BY <1>1, <1>2, <1>3

\* A refresh keeps the invariant.
LEMMA LbRefreshStep ==
  ASSUME LbInv, NEW w, LbRefresh(w)
  PROVE  LbInv'
<1> USE LoadBalanceAssumption
<1>1. /\ lbDoing' = LbFresh(lbDoing, lbConn) /\ lbTotal' = LbFresh(lbTotal, lbConn)
      /\ lbLast' = LbTouched(lbConn) /\ lbList' = SetToSeq(lbConn)
      /\ UNCHANGED <<lbNow, lbConn, lbCall, lbBegun, lbSpoilt>>
  BY DEF LbRefresh
<1>2. lbConn \in SUBSET LbItems
  BY DEF LbInv, LbTypeOK
<1>3. /\ lbDoing' \in [LbItems -> [LbRing -> Nat]] /\ lbTotal' \in [LbItems -> [LbRing -> Nat]]
      /\ lbLast' \in [LbItems -> Nat]
      /\ \A i \in LbItems : lbLast[i] <= lbLast'[i] /\ lbLast'[i] <= lbNow
      /\ \A i \in LbItems, k \in LbRing :
            LET t == LbSecondOf(lbLast'[i], k)
            IN  t \in LbTimes =>
                   /\ lbTotal'[i][k] = lbBegun[i][t]
                   /\ t \notin lbSpoilt[i] => lbDoing'[i][k] = Cardinality(LbOpen(i, t))
  BY <1>1, <1>2, FreshWindow
<1>4. LbTypeOK'
  <2>1. lbList' \in Seq(LbItems)
    BY <1>1, <1>2, ListOfItems
  <2> QED
    BY <1>1, <1>3, <2>1 DEF LbInv, LbTypeOK
<1>5. LbPastInv'
  <2> USE DEF LbInv, LbTypeOK, LbPastInv
  <2>1. \A i \in LbItems : lbLast'[i] <= lbNow'
    BY <1>1, <1>3
  <2>2. ASSUME NEW i \in LbItems, NEW t \in LbTimes, t > lbLast'[i] PROVE lbBegun'[i][t] = 0
    <3>1. t > lbLast[i]
      BY <1>3, <2>2 DEF LbTimes
    <3> QED
      BY <3>1, <1>1
  <2>3. ASSUME NEW c \in LbCalls, lbCall'[c] # LbFree PROVE lbCall'[c].at <= lbLast'[lbCall'[c].item]
    <3>1. lbCall'[c] = lbCall[c] /\ lbCall[c].item \in LbItems /\ lbCall[c].at \in LbTimes
      BY <1>1, <2>3
    <3>2. lbCall[c].at <= lbLast[lbCall[c].item]
      BY <2>3, <3>1
    <3> QED
      BY <3>1, <3>2, <1>3 DEF LbTimes
  <2> QED
    BY <2>1, <2>2, <2>3
<1>6. LbWindow'
  <2>1. ASSUME NEW i \in LbItems, NEW k \in LbRing, NEW t, t = LbSecond(i, k)', t \in LbTimes
        PROVE  /\ lbTotal'[i][k] = lbBegun'[i][t]
               /\ t \notin lbSpoilt'[i] =>
                    lbDoing'[i][k] = Cardinality({c \in LbCalls : lbCall'[c] = [item |-> i, at |-> t]})
    <3>1. t = LbSecondOf(lbLast'[i], k)
      BY <2>1, SecondNext
    <3>2. LbOpen(i, t) = {c \in LbCalls : lbCall'[c] = [item |-> i, at |-> t]}
      BY <1>1 DEF LbOpen
    <3> QED
      <4>1. /\ lbTotal'[i][k] = lbBegun[i][t]
            /\ t \notin lbSpoilt[i] => lbDoing'[i][k] = Cardinality(LbOpen(i, t))
        BY <1>3, <2>1, <3>1
      <4> QED
        BY <1>1, <3>2, <4>1
  <2> QED
    BY <2>1 DEF LbWindow
<1> QED
  BY <1>4, <1>5, <1>6 DEF LbInv


\* request(): the slot of this second counts one request more, and one more is open.
LEMMA LbRequestStep ==
  ASSUME LbInv, NEW c \in LbCalls, NEW dis, LbRequest(c, dis)
  PROVE  LbInv'
<1> USE LoadBalanceAssumption
<1> DEFINE i == LbPick(dis)
          slot == lbNow % LbSize
          doing == LbFresh(lbDoing, {i})
          total == LbFresh(lbTotal, {i})
<1>1. /\ lbCall[c] = LbFree /\ i # "none"
      /\ lbDoing' = [doing EXCEPT ![i][slot] = @ + 1]
      /\ lbTotal' = [total EXCEPT ![i][slot] = @ + 1]
      /\ lbLast' = LbTouched({i})
      /\ lbCall' = [lbCall EXCEPT ![c] = [item |-> i, at |-> lbNow]]
      /\ lbBegun' = [lbBegun EXCEPT ![i][lbNow] = @ + 1]
      /\ UNCHANGED <<lbNow, lbConn, lbList, lbSums, lbSpoilt>>
  BY DEF LbRequest
<1>2. i \in LbItems /\ {i} \in SUBSET LbItems
  BY <1>1, PickConnected DEF LbInv, LbTypeOK
<1>3. lbNow \in Nat /\ lbNow \in LbTimes /\ slot \in LbRing
  BY DEF LbInv, LbTypeOK, LbTimes, LbRing
<1> HIDE DEF i, slot
<1>4. /\ doing \in [LbItems -> [LbRing -> Nat]] /\ total \in [LbItems -> [LbRing -> Nat]]
      /\ lbLast' \in [LbItems -> Nat]
      /\ \A j \in LbItems : lbLast[j] <= lbLast'[j] /\ lbLast'[j] <= lbNow
      /\ lbLast'[i] = lbNow
      /\ \A j \in LbItems, k \in LbRing :
            LET t == LbSecondOf(lbLast'[j], k)
            IN  t \in LbTimes =>
                   /\ total[j][k] = lbBegun[j][t]
                   /\ t \notin lbSpoilt[j] => doing[j][k] = Cardinality(LbOpen(j, t))
  <2>1. /\ doing \in [LbItems -> [LbRing -> Nat]] /\ total \in [LbItems -> [LbRing -> Nat]]
        /\ lbLast' \in [LbItems -> Nat]
        /\ \A j \in LbItems : lbLast[j] <= lbLast'[j] /\ lbLast'[j] <= lbNow
        /\ \A j \in {i} : lbLast'[j] = lbNow
    BY <1>1, <1>2, FreshWindow
  <2>2. \A j \in LbItems, k \in LbRing :
            LET t == LbSecondOf(LbTouched({i})[j], k)
            IN  t \in LbTimes =>
                   /\ total[j][k] = lbBegun[j][t]
                   /\ t \notin lbSpoilt[j] => doing[j][k] = Cardinality(LbOpen(j, t))
    BY <1>2, FreshWindow
  <2> HIDE DEF doing, total
  <2>3. lbLast' = LbTouched({i})
    BY <1>1
  <2> QED
    BY <2>1, <2>2, <2>3
<1> HIDE DEF doing, total
<1>5. LbTypeOK'
  <2> USE DEF LbInv, LbTypeOK
  <2>1. lbDoing' \in [LbItems -> [LbRing -> Nat]] /\ lbTotal' \in [LbItems -> [LbRing -> Nat]]
    BY <1>1, <1>2, <1>3, <1>4, SMTT(30)
  <2>2. lbCall' \in [LbCalls -> {LbFree} \cup [item : LbItems, at : LbTimes]]
    BY <1>1, <1>2, <1>3
  <2>3. lbBegun' \in [LbItems -> [LbTimes -> Nat]]
    BY <1>1, <1>2, <1>3
  <2> QED
    BY <1>1, <1>4, <2>1, <2>2, <2>3
<1>6. LbPastInv'
  <2> USE DEF LbInv, LbTypeOK, LbPastInv
  <2>1. \A j \in LbItems : lbLast'[j] <= lbNow'
    BY <1>1, <1>4
  <2>2. ASSUME NEW j \in LbItems, NEW t \in LbTimes, t > lbLast'[j] PROVE lbBegun'[j][t] = 0
    <3>1. t > lbLast[j] /\ (j = i => t # lbNow)
      <4>1. t \in Nat /\ lbLast[j] \in Nat /\ lbLast'[j] \in Nat /\ lbLast[j] <= lbLast'[j]
        BY <1>4 DEF LbTimes
      <4>2. j = i => lbLast'[j] = lbNow
        BY <1>4
      <4> QED
        BY <1>3, <2>2, <4>1, <4>2
    <3>2. lbBegun'[j][t] = lbBegun[j][t]
      BY <1>1, <1>2, <1>3, <3>1
    <3> QED
      BY <3>1, <3>2
  <2>3. ASSUME NEW d \in LbCalls, lbCall'[d] # LbFree PROVE lbCall'[d].at <= lbLast'[lbCall'[d].item]
    <3>1. CASE d = c
      <4>1. lbCall'[d] = [item |-> i, at |-> lbNow]
        BY <1>1, <3>1
      <4> QED
        BY <4>1, <1>3, <1>4
    <3>2. CASE d # c
      <4>1. lbCall'[d] = lbCall[d]
        BY <1>1, <3>2
      <4>2. lbCall[d].item \in LbItems /\ lbCall[d].at \in LbTimes
        BY <2>3, <4>1
      <4>3. lbCall[d].at <= lbLast[lbCall[d].item]
        BY <2>3, <4>1
      <4> QED
        BY <4>1, <4>2, <4>3, <1>4, SMTT(30) DEF LbTimes
    <3> QED
      BY <3>1, <3>2
  <2> QED
    BY <2>1, <2>2, <2>3
<1>7. LbWindow'
  <2>1. ASSUME NEW j \in LbItems, NEW k \in LbRing, NEW t, t = LbSecond(j, k)', t \in LbTimes
        PROVE  /\ lbTotal'[j][k] = lbBegun'[j][t]
               /\ t \notin lbSpoilt'[j] =>
                    lbDoing'[j][k] = Cardinality({d \in LbCalls : lbCall'[d] = [item |-> j, at |-> t]})
    <3> DEFINE after == {d \in LbCalls : lbCall'[d] = [item |-> j, at |-> t]}
    <3>1. t = LbSecondOf(lbLast'[j], k) /\ t \in Nat /\ t # 0
      BY <2>1, SecondNext DEF LbTimes
    <3>2. /\ total[j][k] = lbBegun[j][t]
          /\ t \notin lbSpoilt[j] => doing[j][k] = Cardinality(LbOpen(j, t))
      BY <1>4, <2>1, <3>1
    <3>3. CASE j = i /\ k = slot
      <4>1. t = lbNow
        <5>1. LbSecondOf(lbNow, k) \in 0 .. lbNow /\ lbNow <= LbSecondOf(lbNow, k)
          BY <1>3, <3>3, SecondIs DEF slot
        <5> QED
          <6>1. t = LbSecondOf(lbNow, k)
            BY <3>1, <3>3, <1>4
          <6> QED
            BY <5>1, <6>1, <1>3
      <4>2. lbTotal'[j][k] = total[j][k] + 1 /\ lbDoing'[j][k] = doing[j][k] + 1
        BY <1>1, <1>2, <1>3, <1>4, <3>3
      <4>3. lbBegun'[j][t] = lbBegun[j][t] + 1
        BY <1>1, <1>2, <1>3, <3>3, <4>1 DEF LbInv, LbTypeOK
      <4>4. after = LbOpen(j, t) \cup {c}
        BY <1>1, <3>3, <4>1 DEF LbInv, LbTypeOK, LbOpen
      <4>5. c \notin LbOpen(j, t)
        <5>1. lbCall[c].at = 0
          BY <1>1 DEF LbFree
        <5>2. ASSUME lbCall[c] = [item |-> j, at |-> t] PROVE FALSE
          BY <5>1, <5>2, <3>1
        <5> QED
          BY <5>2 DEF LbOpen
      <4>6. IsFiniteSet(LbOpen(j, t))
        BY FS_Subset DEF LbOpen
      <4>7. Cardinality(after) = Cardinality(LbOpen(j, t)) + 1
        <5> HIDE DEF after
        <5> QED
          BY <4>4, <4>5, <4>6, FS_AddElement
      <4> HIDE DEF after
      <4>8. t \notin lbSpoilt'[j] => lbDoing'[j][k] = Cardinality(after)
        BY <1>1, <3>2, <4>2, <4>7
      <4> QED
        BY <3>2, <4>2, <4>3, <4>8 DEF after
    <3>4. CASE ~(j = i /\ k = slot)
      <4>1. ~(j = i /\ t = lbNow)
        <5>1. t % LbSize = k
          BY <1>4, <3>1, SecondIs
        <5> QED
          BY <5>1, <3>4 DEF slot
      <4>2. lbTotal'[j][k] = total[j][k] /\ lbDoing'[j][k] = doing[j][k]
        BY <1>1, <1>2, <1>3, <1>4, <3>4
      <4>3. lbBegun'[j][t] = lbBegun[j][t]
        BY <1>1, <1>2, <1>3, <2>1, <4>1 DEF LbInv, LbTypeOK
      <4>4. after = LbOpen(j, t)
        <5>1. ASSUME NEW d \in LbCalls
              PROVE  lbCall'[d] = [item |-> j, at |-> t] <=> lbCall[d] = [item |-> j, at |-> t]
          <6>1. CASE d = c
            <7>1. lbCall'[d] = [item |-> i, at |-> lbNow] /\ lbCall[d] = LbFree
              BY <1>1, <6>1 DEF LbInv, LbTypeOK
            <7> QED
              BY <7>1, <4>1, <3>1 DEF LbFree
          <6>2. CASE d # c
            BY <6>2, <1>1 DEF LbInv, LbTypeOK
          <6> QED
            BY <6>1, <6>2
        <5> QED
          BY <5>1 DEF LbOpen
      <4> QED
        BY <1>1, <3>2, <4>2, <4>3, <4>4
    <3> QED
      BY <3>3, <3>4
  <2> QED
    BY <2>1 DEF LbWindow
<1> QED
  BY <1>5, <1>6, <1>7 DEF LbInv

\* The end of a request: its slot counts it if it is still the slot of its second, and
\* the second that has taken the slot over is spoilt otherwise.
LEMMA LbFinishStep ==
  ASSUME LbInv, NEW c \in LbCalls, LbFinish(c)
  PROVE  LbInv'
<1> USE LoadBalanceAssumption
<1> DEFINE i == lbCall[c].item
          at == lbCall[c].at
          slot == at % LbSize
          now == LbSecond(i, slot)
<1>1. /\ lbCall[c] # LbFree
      /\ lbDoing' = [lbDoing EXCEPT ![i][slot] = (@ - 1) % LbUint]
      /\ lbCall' = [lbCall EXCEPT ![c] = LbFree]
      /\ lbSpoilt' = IF now = at THEN lbSpoilt ELSE [lbSpoilt EXCEPT ![i] = @ \cup {now}]
      /\ UNCHANGED <<lbNow, lbConn, lbList, lbSums, lbTotal, lbLast, lbBegun>>
  BY DEF LbFinish
<1>2. i \in LbItems /\ at \in LbTimes /\ at \in Nat /\ slot \in LbRing /\ lbCall[c] = [item |-> i, at |-> at]
  <2>1. lbCall[c] \in [item : LbItems, at : LbTimes]
    BY <1>1 DEF LbInv, LbTypeOK
  <2> QED
    BY <2>1 DEF LbTimes, LbRing
<1>3. now \in Nat
  <2>1. lbLast[i] \in Nat
    BY <1>2 DEF LbInv, LbTypeOK
  <2> QED
    BY <1>2, <2>1, SecondIs, SecondNext
<1>4. LbUint \in Nat \ {0} /\ Cardinality(LbCalls) \in Nat
  BY FS_CardinalityType
<1> HIDE DEF i, at, slot, now
<1>5. LbTypeOK'
  <2> USE DEF LbInv, LbTypeOK
  <2>1. lbDoing' \in [LbItems -> [LbRing -> Nat]]
    <3>1. lbDoing[i][slot] \in Nat
      BY <1>2
    <3>2. (lbDoing[i][slot] - 1) % LbUint \in Nat
      BY <1>4, <3>1
    <3> QED
      BY <1>1, <1>2, <3>2
  <2>2. lbSpoilt' \in [LbItems -> SUBSET Nat]
    BY <1>1, <1>2, <1>3
  <2> QED
    BY <1>1, <2>1, <2>2
<1>6. LbPastInv'
  BY <1>1 DEF LbInv, LbTypeOK, LbPastInv
<1>7. LbWindow'
  <2>1. ASSUME NEW j \in LbItems, NEW k \in LbRing, NEW t, t = LbSecond(j, k)', t \in LbTimes
        PROVE  /\ lbTotal'[j][k] = lbBegun'[j][t]
               /\ t \notin lbSpoilt'[j] =>
                    lbDoing'[j][k] = Cardinality({d \in LbCalls : lbCall'[d] = [item |-> j, at |-> t]})
    <3> DEFINE after == {d \in LbCalls : lbCall'[d] = [item |-> j, at |-> t]}
    <3>1. t = LbSecond(j, k) /\ t \in Nat /\ t # 0
      BY <2>1, <1>1, SecondNext DEF LbTimes
    <3>2. /\ lbTotal[j][k] = lbBegun[j][t]
          /\ t \notin lbSpoilt[j] => lbDoing[j][k] = Cardinality(LbOpen(j, t))
      BY <2>1, <3>1 DEF LbInv, LbWindow, LbOpen
    <3>3. t \notin lbSpoilt'[j] => t \notin lbSpoilt[j]
      BY <1>1, <1>2 DEF LbInv, LbTypeOK
    <3>4. CASE j = i /\ t = at
      <4>1. k = slot
        <5>1. t % LbSize = k
          <6>1. lbLast[j] \in Nat
            BY DEF LbInv, LbTypeOK
          <6> QED
            BY <6>1, <3>1, SecondIs, SecondNext
        <5> QED
          BY <5>1, <3>4 DEF slot
      <4>2. after = LbOpen(j, t) \ {c} /\ c \in LbOpen(j, t)
        <5>1. lbCall'[c] # [item |-> j, at |-> t]
          BY <1>1, <3>1 DEF LbInv, LbTypeOK, LbFree
        <5>2. \A d \in LbCalls : d # c => lbCall'[d] = lbCall[d]
          BY <1>1 DEF LbInv, LbTypeOK
        <5> QED
          BY <5>1, <5>2, <1>2, <3>4 DEF LbOpen
      <4> HIDE DEF after
      <4>3. IsFiniteSet(LbOpen(j, t)) /\ Cardinality(LbOpen(j, t)) <= Cardinality(LbCalls)
        BY FS_Subset DEF LbOpen
      <4>4. Cardinality(after) = Cardinality(LbOpen(j, t)) - 1
        BY <4>2, <4>3, FS_RemoveElement
      <4>5. Cardinality(after) \in Nat /\ Cardinality(after) < LbUint
        <5>1. IsFiniteSet(after)
          BY <4>2, <4>3, FS_Subset
        <5>2. Cardinality(after) \in Nat /\ Cardinality(LbOpen(j, t)) \in Nat
          BY <5>1, <4>3, FS_CardinalityType
        <5> QED
          BY <5>2, <4>3, <4>4, <1>4
      <4>6. Cardinality(after) % LbUint = Cardinality(after)
        BY <4>5, <1>4, ModSmall
      <4>7. ASSUME t \notin lbSpoilt'[j] PROVE lbDoing'[j][k] = Cardinality(after)
        <5>1. lbDoing[j][k] = Cardinality(LbOpen(j, t))
          BY <4>7, <3>2, <3>3
        <5>2. lbDoing'[j][k] = (lbDoing[j][k] - 1) % LbUint
          BY <1>1, <1>2, <3>4, <4>1 DEF LbInv, LbTypeOK
        <5> QED
          BY <5>1, <5>2, <4>4, <4>6
      <4> QED
        BY <1>1, <3>2, <4>7 DEF after
    <3>5. CASE ~(j = i /\ t = at)
      <4>1. after = LbOpen(j, t)
        <5>1. ASSUME NEW d \in LbCalls
              PROVE  lbCall'[d] = [item |-> j, at |-> t] <=> lbCall[d] = [item |-> j, at |-> t]
          <6>1. CASE d = c
            <7>1. lbCall'[d] = LbFree /\ lbCall[d] = [item |-> i, at |-> at]
              BY <1>1, <1>2, <6>1 DEF LbInv, LbTypeOK
            <7> QED
              BY <7>1, <3>5, <3>1 DEF LbFree
          <6>2. CASE d # c
            BY <6>2, <1>1 DEF LbInv, LbTypeOK
          <6> QED
            BY <6>1, <6>2
        <5> QED
          BY <5>1 DEF LbOpen
      <4>2. t \notin lbSpoilt'[j] => ~(j = i /\ k = slot)
        <5>1. ASSUME j = i, k = slot PROVE t \in lbSpoilt'[j]
          <6>1. t = now /\ now # at
            BY <5>1, <3>1, <3>5 DEF now
          <6> QED
            BY <6>1, <5>1, <1>1, <1>2 DEF LbInv, LbTypeOK
        <5> QED
          BY <5>1
      <4>3. ~(j = i /\ k = slot) => lbDoing'[j][k] = lbDoing[j][k]
        BY <1>1, <1>2 DEF LbInv, LbTypeOK
      <4> QED
        BY <1>1, <3>2, <3>3, <4>1, <4>2, <4>3
    <3> QED
      BY <3>4, <3>5
  <2> QED
    BY <2>1 DEF LbWindow
<1> QED
  BY <1>5, <1>6, <1>7 DEF LbInv

\* The balancer starts with its invariant.
LEMMA LbInitInv == LbInit => LbInv
<1> SUFFICES ASSUME LbInit PROVE LbInv
  OBVIOUS
<1> USE LoadBalanceAssumption DEF LbInit
<1>1. LbTypeOK /\ LbPastInv
  BY DEF LbTypeOK, LbPastInv, LbTimes, LbFree
<1>2. LbWindow
  <2>1. ASSUME NEW i \in LbItems, NEW k \in LbRing PROVE LbSecond(i, k) \notin LbTimes
    <3>1. lbLast[i] = 0
      OBVIOUS
    <3>2. LbSecond(i, k) \in 0 .. 0
      BY <3>1, SecondIs, SecondNext
    <3> QED
      BY <3>2 DEF LbTimes
  <2> QED
    BY <2>1 DEF LbWindow
<1> QED
  BY <1>1, <1>2 DEF LbInv

\* The ring of an item is a window on its last seconds: however long a ring has not been
\* brought up to date and however requests end after it has gone round, every slot holds
\* the number of the requests that began in the second it stands for, and of those that
\* are still open unless a request has ended there that had lost its slot.
THEOREM LbWindowHolds == LbSpec => []LbWindow
<1> USE LoadBalanceAssumption
<1>1. LbInit => LbInv
  BY LbInitInv
<1>2. LbInv /\ [LbNext]_lbVars => LbInv'
  <2> SUFFICES ASSUME LbInv, [LbNext]_lbVars PROVE LbInv'
    OBVIOUS
  <2>0. lbNow \in LbTimes /\ lbNow \in Nat /\ lbConn \subseteq LbItems /\ lbList \in Seq(LbItems)
    BY DEF LbInv, LbTypeOK, LbTimes
  <2>1. ASSUME NEW i \in LbItems, LbConnect(i) PROVE LbInv'
    <3>1. /\ UNCHANGED <<lbStats, lbCall>> /\ lbConn' \subseteq LbItems
          /\ lbNow' = lbNow /\ lbList' = lbList
      BY <2>1, <2>0 DEF LbConnect
    <3> QED
      BY <3>1, <2>0, LbQuietStep
  <2>2. ASSUME NEW w, LbRefresh(w) PROVE LbInv'
    BY <2>2, LbRefreshStep
  <2>3. ASSUME NEW c \in LbCalls, NEW dis, LbRequest(c, dis) PROVE LbInv'
    BY <2>3, LbRequestStep
  <2>4. ASSUME NEW c \in LbCalls, LbFinish(c) PROVE LbInv'
    BY <2>4, LbFinishStep
  <2>5. CASE LbTick
    <3>1. /\ UNCHANGED <<lbStats, lbCall>> /\ lbNow' \in LbTimes /\ lbNow' >= lbNow
          /\ lbConn' = lbConn /\ lbList' = lbList
      BY <2>5, <2>0 DEF LbTick, LbTimes
    <3> QED
      BY <3>1, <2>0, LbQuietStep
  <2>6. CASE UNCHANGED lbVars
    <3>1. /\ UNCHANGED <<lbStats, lbCall>> /\ lbNow' = lbNow
          /\ lbConn' = lbConn /\ lbList' = lbList
      BY <2>6 DEF lbVars
    <3> QED
      BY <3>1, <2>0, LbQuietStep
  <2> QED
    BY <2>1, <2>2, <2>3, <2>4, <2>5, <2>6 DEF LbNext
<1>3. LbInv => LbWindow
  BY DEF LbInv
<1> QED
  BY <1>1, <1>2, <1>3, PTL DEF LbSpec

-----------------------------------------------------------------------------
(***************************************************************************)
(* WsSession: messages cut into frames.                                    *)
(***************************************************************************)

WsKinds == {"text", "cont", "ping", "close"}
WsHeads == [k : {"head"}, op : WsKinds, fin : BOOLEAN, len : Nat, mask : BOOLEAN]
WsBytes == [k : {"byte"}, v : Nat]
WsTokens == WsHeads \cup WsBytes \cup [k : {"key"}]
WsMsgs == [op : {"none", "text"}, bytes : Seq(Nat)]

WsTypeOK ==
    /\ wsAt \in {"shake", "connect", "recv", "handle", "close", "ended"}
    /\ wsSkewed \in BOOLEAN /\ wsFrames \in Nat
    /\ wsWire \in Seq(WsTokens)
    /\ wsSent \in Seq(WsMsgs) /\ wsGot \in Seq(WsMsgs)
    /\ wsData \in WsMsgs /\ wsDraft \in WsMsgs

\* A station is the start of a frame, numbered from the start of the stream, with the
\* messages that were complete there and the one that was not.
WsStations == [at : Nat, sent : Seq(WsMsgs), draft : WsMsgs]

\* What a reader makes of a frame: the messages afterwards.
WsReads(head, payload, s, t) ==
    LET msg == [op |-> IF head.op = "cont" THEN s.draft.op ELSE head.op,
                bytes |-> s.draft.bytes \o payload]
    IN  IF head.op \in {"ping", "close"} THEN t.sent = s.sent /\ t.draft = s.draft
        ELSE /\ head.op = "cont" <=> s.draft.op # "none"
             /\ t.sent = IF head.fin THEN Append(s.sent, msg) ELSE s.sent
             /\ t.draft = IF head.fin THEN WsNoData ELSE msg

WsSize(head) == 1 + (IF head.mask THEN 1 ELSE 0) + head.len
WsPayload(w, p) == [j \in 1 .. w[p].len |-> w[p + WsSize(w[p]) - w[p].len - 1 + j].v]

\* A whole frame lies on the wire w between two stations, b tokens having been read.
WsFrame(w, b, s, t) ==
    LET p == s.at - b
    IN  /\ p \in 1 .. Len(w) /\ w[p] \in WsHeads
        /\ t.at = s.at + WsSize(w[p]) /\ t.at - b <= Len(w) + 1
        /\ \A j \in 1 .. w[p].len : w[p + WsSize(w[p]) - w[p].len - 1 + j] \in WsBytes
        /\ WsReads(w[p], WsPayload(w, p), s, t)

\* The stations along the wire, from the next token to be read to its end.
WsTrace(w, b, t, sent, draft) ==
    /\ b \in Nat /\ t \in Seq(WsStations) /\ Len(t) >= 1
    /\ t[1].at = b + 1
    /\ t[Len(t)] = [at |-> b + Len(w) + 1, sent |-> sent, draft |-> draft]
    /\ \A i \in 1 .. Len(t) - 1 : WsFrame(w, b, t[i], t[i + 1])
    /\ \A i, j \in 1 .. Len(t) : i <= j => t[i].at <= t[j].at
    /\ \A i \in 1 .. Len(t) : IsPrefix(t[i].sent, sent)

WsHandled == IF wsAt = "handle" THEN Append(wsGot, wsData) ELSE wsGot
WsPending == IF wsAt = "handle" THEN WsNoData ELSE wsData

\* As long as frames are read from their starts, what was handed out and what is still
\* on the wire together make what the client sent.
WsFlow ==
    ~wsSkewed => \E b \in Nat, t \in Seq(WsStations) :
        /\ WsTrace(wsWire, b, t, wsSent, wsDraft)
        /\ t[1].sent = WsHandled /\ t[1].draft = WsPending

WsInv == WsTypeOK /\ WsFlow

\* What was a prefix still is one when a message is added.
LEMMA WsPrefixAppend ==
  ASSUME NEW S, NEW s \in Seq(S), NEW t \in Seq(S), NEW m \in S, IsPrefix(s, t)
  PROVE  IsPrefix(s, Append(t, m))
<1>1. Len(s) \in Nat /\ Len(t) \in Nat /\ Len(s) <= Len(t)
  BY DEF IsPrefix
<1>2. Len(Append(t, m)) = Len(t) + 1 /\ \A i \in 1 .. Len(t) : Append(t, m)[i] = t[i]
  OBVIOUS
<1>3. SubSeq(Append(t, m), 1, Len(s)) = SubSeq(t, 1, Len(s))
  BY <1>1, <1>2
<1> QED
  BY <1>1, <1>2, <1>3 DEF IsPrefix

\* Without its last message a prefix is one, too.
LEMMA WsPrefixOf ==
  ASSUME NEW S, NEW s \in Seq(S), NEW t \in Seq(S), NEW m \in S, IsPrefix(Append(s, m), t)
  PROVE  IsPrefix(s, t)
<1> DEFINE a == Append(s, m)
<1>1. Len(s) \in Nat /\ Len(t) \in Nat /\ Len(a) = Len(s) + 1 /\ \A i \in 1 .. Len(s) : a[i] = s[i]
  OBVIOUS
<1>2. Len(a) <= Len(t) /\ SubSeq(a, 1, Len(a)) = SubSeq(t, 1, Len(a)) /\ a \in Seq(S)
  BY DEF IsPrefix
<1> HIDE DEF a
<1>3. ASSUME NEW i \in 1 .. Len(s) PROVE s[i] = t[i]
  <2>1. SubSeq(a, 1, Len(a))[i] = a[i] /\ SubSeq(t, 1, Len(a))[i] = t[i]
    BY <1>1, <1>2
  <2> QED
    BY <2>1, <1>1, <1>2
<1>4. SubSeq(s, 1, Len(s)) = SubSeq(t, 1, Len(s))
  BY <1>1, <1>2, <1>3
<1> QED
  BY <1>1, <1>2, <1>4 DEF IsPrefix

\* A frame is where it was when more is sent, and when what lies before it is read.
LEMMA WsFrameMoves ==
  ASSUME NEW w \in Seq(WsTokens), NEW v \in Seq(WsTokens), NEW b \in Nat, NEW n \in Nat,
         n <= Len(w), Len(v) >= Len(w) - n, \A i \in 1 .. Len(w) - n : v[i] = w[i + n],
         NEW s \in WsStations, NEW t \in WsStations, WsFrame(w, b, s, t), s.at > b + n
  PROVE  WsFrame(v, b + n, s, t)
<1> DEFINE p == s.at - b
           q == s.at - (b + n)
           size == WsSize(w[p])
           len == w[p].len
           lw == Len(w)
<1>1. /\ p \in 1 .. lw /\ w[p] \in WsHeads
      /\ t.at = s.at + size /\ t.at - b <= lw + 1
      /\ \A j \in 1 .. len : w[p + size - len - 1 + j] \in WsBytes
      /\ WsReads(w[p], WsPayload(w, p), s, t)
  BY DEF WsFrame
<1>2. s.at \in Nat /\ t.at \in Nat /\ lw \in Nat /\ Len(v) \in Nat
  BY DEF WsStations
<1>3. len \in Nat /\ size \in Nat /\ size >= 1 + len
  <2>1. \A h \in WsHeads : h.len \in Nat /\ WsSize(h) \in Nat /\ WsSize(h) >= 1 + h.len
    BY DEF WsHeads, WsSize
  <2> QED
    BY <1>1, <2>1
<1> HIDE DEF size, len, lw
<1>4. /\ p = q + n /\ q \in 1 .. lw - n /\ q \in 1 .. Len(v) /\ p \in Nat /\ q \in Nat /\ q >= 1
      /\ p + size <= lw + 1
  <2>1. p = s.at - b /\ q = s.at - (b + n) /\ Len(v) >= lw - n
    BY DEF lw
  <2>2. p \in 1 .. lw /\ t.at = s.at + size /\ t.at - b <= lw + 1
    BY <1>1
  <2>3. s.at > b + n
    OBVIOUS
  <2> HIDE DEF p, q
  <2>4. \A a, e, l, z \in Nat : e = a + z /\ e - b <= l + 1 /\ a > b + n
            => /\ a - b = (a - (b + n)) + n /\ a - (b + n) >= 1
               /\ (a - b) + z <= l + 1
    OBVIOUS
  <2>5. p = q + n /\ q >= 1 /\ p + size <= lw + 1
    BY <2>1, <2>2, <2>3, <2>4, <1>2, <1>3, Zenon
  <2>6. p \in Nat /\ p <= lw /\ q \in Int
    BY <2>1, <2>2, <1>2, SMTT(30)
  <2> QED
    BY ONLY <2>1, <2>5, <2>6, <1>2, n \in Nat, SMTT(30)
<1>5. v[q] = w[p]
  BY <1>4 DEF lw
<1>6. t.at = s.at + size /\ t.at - (b + n) <= Len(v) + 1
  BY <1>1, <1>2 DEF lw
<1> HIDE DEF p, q
<1>7. ASSUME NEW j \in 1 .. len PROVE v[q + size - len - 1 + j] = w[p + size - len - 1 + j]
  <2> DEFINE i == q + size - len - 1 + j
  <2>1. i \in 1 .. lw - n /\ i + n = p + size - len - 1 + j
    BY <1>2, <1>3, <1>4
  <2> HIDE DEF i
  <2>2. v[i] = w[i + n]
    BY <2>1 DEF lw
  <2> QED
    BY <2>1, <2>2 DEF i
<1>8. v[q].len = len /\ WsSize(v[q]) = size /\ w[p].len = len /\ WsSize(w[p]) = size
  BY <1>5 DEF size, len
<1>9. WsPayload(v, q) = WsPayload(w, p)
  BY <1>7, <1>8 DEF WsPayload
<1>10. \A j \in 1 .. v[q].len : v[q + WsSize(v[q]) - v[q].len - 1 + j] \in WsBytes
  BY <1>1, <1>7, <1>8
<1> QED
  BY <1>1, <1>4, <1>5, <1>6, <1>8, <1>9, <1>10 DEF WsFrame, q

\* A frame with its own station is added at the end.
LEMMA WsTraceGrows ==
  ASSUME NEW w \in Seq(WsTokens), NEW x \in Seq(WsTokens), NEW b \in Nat, NEW t \in Seq(WsStations),
         NEW sent \in Seq(WsMsgs), NEW draft \in WsMsgs, WsTrace(w, b, t, sent, draft),
         NEW sent2 \in Seq(WsMsgs), NEW draft2 \in WsMsgs,
         sent2 = sent \/ \E m \in WsMsgs : sent2 = Append(sent, m),
         WsFrame(w \o x, b, t[Len(t)], [at |-> b + Len(w \o x) + 1, sent |-> sent2, draft |-> draft2])
  PROVE  \E u \in Seq(WsStations) : WsTrace(w \o x, b, u, sent2, draft2) /\ u[1] = t[1]
<1> DEFINE last == [at |-> b + Len(w \o x) + 1, sent |-> sent2, draft |-> draft2]
           u == Append(t, last)
           n == Len(t)
<1>1. /\ n \in Nat /\ n >= 1 /\ t[1].at = b + 1
      /\ \A i \in 1 .. n - 1 : WsFrame(w, b, t[i], t[i + 1])
      /\ \A i \in 1 .. n : IsPrefix(t[i].sent, sent) /\ t[i] \in WsStations
      /\ \A i, j \in 1 .. n : i <= j => t[i].at <= t[j].at
      /\ t[n].at = b + Len(w) + 1
  BY DEF WsTrace
<1>2. Len(w \o x) \in Nat /\ last \in WsStations
  <2>1. w \o x \in Seq(WsTokens)
    OBVIOUS
  <2> QED
    BY <2>1 DEF WsStations
<1>3. u \in Seq(WsStations) /\ Len(u) = n + 1 /\ u[n + 1] = last /\ \A i \in 1 .. n : u[i] = t[i]
  BY <1>2
<1> HIDE DEF u
<1>4. ASSUME NEW i \in 1 .. n PROVE WsFrame(w \o x, b, u[i], u[i + 1])
  <2>1. CASE i = n
    BY <2>1, <1>3
  <2>2. CASE i # n
    <3>1. i \in 1 .. n - 1 /\ i + 1 \in 1 .. n
      BY <2>2, <1>1
    <3>2. WsFrame(w, b, t[i], t[i + 1]) /\ t[i].at > b
      <4>1. t[1].at <= t[i].at /\ t[i].at \in Nat
        <5>1. 1 \in 1 .. n /\ i \in 1 .. n /\ 1 <= i
          BY <3>1, <1>1
        <5> QED
          BY <5>1, <1>1 DEF WsStations
      <4> QED
        BY <4>1, <3>1, <1>1
    <3>3. WsFrame(w \o x, b + 0, t[i], t[i + 1])
      <4>1. /\ w \o x \in Seq(WsTokens) /\ Len(w \o x) >= Len(w) - 0 /\ 0 <= Len(w) /\ 0 \in Nat
            /\ \A k \in 1 .. Len(w) - 0 : (w \o x)[k] = w[k + 0]
        OBVIOUS
      <4>2. t[i].at > b + 0 /\ t[i] \in WsStations /\ t[i + 1] \in WsStations
        BY <3>1, <3>2, <1>1
      <4> QED
        BY ONLY <4>1, <4>2, <3>2, WsFrameMoves, b \in Nat, w \in Seq(WsTokens)
    <3> QED
      BY <3>1, <3>3, <1>3
  <2> QED
    BY <2>1, <2>2
<1>5. ASSUME NEW i \in 1 .. n PROVE IsPrefix(u[i].sent, sent2)
  <2>1. t[i].sent \in Seq(WsMsgs) /\ IsPrefix(t[i].sent, sent) /\ u[i] = t[i]
    BY <1>1, <1>3 DEF WsStations
  <2>2. CASE sent2 = sent
    BY <2>1, <2>2
  <2>3. ASSUME NEW m \in WsMsgs, sent2 = Append(sent, m) PROVE IsPrefix(u[i].sent, sent2)
    BY <2>1, <2>3, WsPrefixAppend
  <2> QED
    BY <2>2, <2>3
<1>6. IsPrefix(u[n + 1].sent, sent2)
  BY <1>2, <1>3 DEF IsPrefix
<1>7. ASSUME NEW i \in 1 .. n + 1, NEW j \in 1 .. n + 1, i <= j PROVE u[i].at <= u[j].at
  <2>1. CASE j \in 1 .. n
    <3>1. i \in 1 .. n
      BY <2>1, <1>7, <1>1
    <3> QED
      BY <3>1, <2>1, <1>1, <1>3, <1>7
  <2>2. CASE i \in 1 .. n /\ j = n + 1
    <3>1. n \in 1 .. n /\ i <= n
      BY <2>2, <1>1
    <3>2. t[i].at <= t[n].at /\ t[i].at \in Nat /\ t[n].at \in Nat
      BY <2>2, <3>1, <1>1 DEF WsStations
    <3>3. last.at >= t[n].at /\ last.at \in Nat
      BY <1>1, <1>2, SMTT(30)
    <3>4. u[i] = t[i] /\ u[j] = last
      BY <2>2, <1>3
    <3>5. u[i].at = t[i].at /\ u[j].at = last.at
      BY <3>4
    <3> HIDE DEF last, n
    <3>6. \A a, c, d \in Nat : a <= c /\ d >= c => a <= d
      OBVIOUS
    <3> QED
      BY <3>2, <3>3, <3>5, <3>6
  <2>3. CASE i = n + 1 /\ j = n + 1
    BY <2>3, <1>2, <1>3
  <2> QED
    BY <2>1, <2>2, <2>3, <1>1, <1>7
<1>8. WsTrace(w \o x, b, u, sent2, draft2)
  <2>1. \A i \in 1 .. Len(u) : IsPrefix(u[i].sent, sent2)
    <3>1. \A i \in 1 .. n + 1 : i \in 1 .. n \/ i = n + 1
      BY <1>1
    <3> QED
      BY <3>1, <1>3, <1>5, <1>6
  <2>2. \A i, j \in 1 .. Len(u) : i <= j => u[i].at <= u[j].at
    BY <1>3, <1>7
  <2>3. \A i \in 1 .. Len(u) - 1 : WsFrame(w \o x, b, u[i], u[i + 1])
    BY <1>1, <1>3, <1>4
  <2>4. u[1].at = b + 1 /\ Len(u) >= 1 /\ u[Len(u)] = last
    BY <1>1, <1>3, SMTT(30)
  <2> QED
    BY <1>3, <2>1, <2>2, <2>3, <2>4 DEF WsTrace
<1>9. u[1] = t[1]
  BY <1>1, <1>3
<1> QED
  BY <1>3, <1>8, <1>9

\* The frame at the head of the wire is read.
LEMMA WsTraceMoves ==
  ASSUME NEW w \in Seq(WsTokens), NEW b \in Nat, NEW t \in Seq(WsStations),
         NEW sent \in Seq(WsMsgs), NEW draft \in WsMsgs, WsTrace(w, b, t, sent, draft),
         NEW n \in Nat, Len(t) >= 2, t[2].at = b + 1 + n
  PROVE  WsTrace(SubSeq(w, n + 1, Len(w)), b + n, Tail(t), sent, draft)
<1> DEFINE u == Tail(t)
           v == SubSeq(w, n + 1, Len(w))
<1>1. /\ Len(t) \in Nat
      /\ t[Len(t)] = [at |-> b + Len(w) + 1, sent |-> sent, draft |-> draft]
      /\ \A i \in 1 .. Len(t) - 1 : WsFrame(w, b, t[i], t[i + 1])
      /\ \A i \in 1 .. Len(t) : IsPrefix(t[i].sent, sent) /\ t[i] \in WsStations
      /\ \A i, j \in 1 .. Len(t) : i <= j => t[i].at <= t[j].at
      /\ t[1].at = b + 1
  BY SMTT(30) DEF WsTrace
<1>2. u \in Seq(WsStations) /\ Len(u) = Len(t) - 1 /\ \A i \in 1 .. Len(t) - 1 : u[i] = t[i + 1]
  OBVIOUS
<1>3. n <= Len(w)
  <2>1. WsFrame(w, b, t[1], t[2])
    BY <1>1
  <2>2. t[2].at - b <= Len(w) + 1
    BY <2>1 DEF WsFrame
  <2> QED
    BY <2>2
<1>4. Len(v) = Len(w) - n /\ b + n \in Nat
  BY <1>3
<1>5. ASSUME NEW i \in 2 .. Len(t) PROVE t[i].at > b + n
  <2>1. i \in 1 .. Len(t) /\ 2 \in 1 .. Len(t)
    BY <1>1
  <2>2. t[2].at <= t[i].at /\ t[2].at \in Nat /\ t[i].at \in Nat
    BY <2>1, <1>1, SMTT(30) DEF WsStations
  <2> QED
    BY <2>2
<1>6. ASSUME NEW i \in 1 .. Len(u) - 1 PROVE WsFrame(v, b + n, u[i], u[i + 1])
  <2>1. i + 1 \in 1 .. Len(t) - 1 /\ i + 1 \in 2 .. Len(t) /\ i + 2 \in 1 .. Len(t)
    BY <1>1, <1>2
  <2>2. WsFrame(w, b, t[i + 1], t[i + 2]) /\ t[i + 1].at > b + n
    <3>1. PICK j : j = i + 1
      OBVIOUS
    <3>2. j \in 1 .. Len(t) - 1 /\ j \in 2 .. Len(t) /\ j + 1 = i + 2
      BY <3>1, <2>1
    <3>3. WsFrame(w, b, t[j], t[j + 1]) /\ t[j].at > b + n
      BY <3>2, <1>1, <1>5 DEF WsStations
    <3> QED
      BY <3>1, <3>2, <3>3
  <2>3. u[i] = t[i + 1] /\ u[i + 1] = t[i + 2]
    BY <2>1, <1>2
  <2> HIDE DEF u, v
  <2> QED
    <3>1. /\ v \in Seq(WsTokens) /\ Len(v) >= Len(w) - n
          /\ \A k \in 1 .. Len(w) - n : v[k] = w[k + n]
      BY <1>3 DEF v
    <3>2. t[i + 1] \in WsStations /\ t[i + 2] \in WsStations
      BY <2>1, <1>1
    <3> QED
      BY ONLY <3>1, <3>2, <2>2, <2>3, <1>3, WsFrameMoves, b \in Nat, w \in Seq(WsTokens), n \in Nat
<1>7. u[Len(u)] = [at |-> (b + n) + Len(v) + 1, sent |-> sent, draft |-> draft]
  <2>1. u[Len(u)] = t[Len(t)]
    BY <1>1, <1>2
  <2>2. (b + n) + Len(v) + 1 = b + Len(w) + 1
    <3>1. Len(w) \in Nat /\ Len(v) = Len(w) - n
      BY <1>4
    <3> HIDE DEF v
    <3> QED
      BY <3>1
  <2> QED
    BY <2>1, <2>2, <1>1
<1>8. /\ \A i \in 1 .. Len(u) : IsPrefix(u[i].sent, sent)
      /\ \A i, j \in 1 .. Len(u) : i <= j => u[i].at <= u[j].at
  BY <1>1, <1>2
<1>9. u[1].at = b + n + 1 /\ Len(u) >= 1
  BY <1>1, <1>2
<1>10. \A i \in 1 .. Len(u) - 1 : WsFrame(v, b + n, u[i], u[i + 1])
  BY <1>6
<1> HIDE DEF u, v
<1>11. WsTrace(v, b + n, u, sent, draft)
  BY <1>2, <1>4, <1>7, <1>8, <1>9, <1>10 DEF WsTrace
<1> QED
  BY <1>11 DEF u, v

\* The tokens of a frame.
LEMMA WsFrameTokens ==
  ASSUME NEW op \in WsKinds, NEW fin \in BOOLEAN, NEW len \in Nat, NEW mask \in BOOLEAN, wsFrames \in Nat
  PROVE  \A h, x : h = WsHead(op, fin, len, mask) /\ x = <<h>> \o WsKey(mask) \o WsBody(len) =>
             /\ x \in Seq(WsTokens) /\ h \in WsHeads /\ Len(x) = WsSize(h) /\ x[1] = h
             /\ \A j \in 1 .. len : x[WsSize(h) - len + j] = [k |-> "byte", v |-> wsFrames]
             /\ \A w \in Seq(WsTokens) : w \o x = w \o <<h>> \o WsKey(mask) \o WsBody(len)
<1> DEFINE h == WsHead(op, fin, len, mask)
           key == WsKey(mask)
           body == WsBody(len)
           m == IF mask THEN 1 ELSE 0
<1>1. h \in WsHeads /\ h \in WsTokens /\ WsSize(h) = 1 + m + len /\ m \in Nat
  BY DEF WsHead, WsHeads, WsTokens, WsSize, WsKinds
<1>2. key \in Seq(WsTokens) /\ Len(key) = m
  <2>1. [k |-> "key"] \in WsTokens
    BY DEF WsTokens
  <2> QED
    BY <2>1 DEF WsKey
<1>3. body \in Seq(WsTokens) /\ Len(body) = len
      /\ \A j \in 1 .. len : body[j] = [k |-> "byte", v |-> wsFrames]
  <2>1. [k |-> "byte", v |-> wsFrames] \in WsTokens
    BY DEF WsTokens, WsBytes
  <2> QED
    BY <2>1 DEF WsBody
<1> HIDE DEF h, key, body, m
<1> DEFINE y == <<h>> \o key
<1>4. y \in Seq(WsTokens) /\ Len(y) = 1 + m /\ y[1] = h
  BY <1>1, <1>2
<1>5. ASSUME NEW w \in Seq(WsTokens) PROVE w \o (y \o body) = w \o <<h>> \o key \o body
  <2>1. <<h>> \in Seq(WsTokens)
    BY <1>1
  <2>2. w \o y = w \o <<h>> \o key
    BY <2>1, <1>2, ConcatAssociative
  <2>3. w \o (y \o body) = (w \o y) \o body
    BY <1>3, <1>4, ConcatAssociative, SMTT(30)
  <2> QED
    BY <2>2, <2>3
<1> HIDE DEF y
<1>6. /\ y \o body \in Seq(WsTokens) /\ Len(y \o body) = 1 + m + len
      /\ (y \o body)[1] = h
      /\ \A j \in 1 .. len : (y \o body)[1 + m + j] = body[j]
  BY <1>1, <1>3, <1>4
<1>7. ASSUME NEW j \in 1 .. len PROVE (y \o body)[WsSize(h) - len + j] = [k |-> "byte", v |-> wsFrames]
  <2>1. WsSize(h) - len + j = 1 + m + j
    BY <1>1
  <2> QED
    BY <2>1, <1>3, <1>6
<1> DEFINE x == y \o body
<1>8. /\ x \in Seq(WsTokens) /\ h \in WsHeads /\ Len(x) = WsSize(h) /\ x[1] = h
      /\ \A j \in 1 .. len : x[WsSize(h) - len + j] = [k |-> "byte", v |-> wsFrames]
      /\ \A w \in Seq(WsTokens) : w \o x = w \o <<h>> \o key \o body
  BY <1>1, <1>5, <1>6, <1>7
<1>9. x = <<h>> \o WsKey(mask) \o WsBody(len) /\ h = WsHead(op, fin, len, mask)
  BY DEF x, y, h, key, body
<1> HIDE DEF x
<1> QED
  BY <1>8, <1>9 DEF key, body

\* The client sends a frame.
LEMMA WsSendStep ==
  ASSUME WsInv, NEW op \in WsKinds, NEW fin \in BOOLEAN, NEW len \in WsLens, NEW mask \in BOOLEAN,
         WsClientSends(op, fin, len, mask)
  PROVE  WsInv'
<1> DEFINE h == WsHead(op, fin, len, mask)
           x == <<h>> \o WsKey(mask) \o WsBody(len)
           pay == [j \in 1 .. len |-> wsFrames]
           first == IF op = "cont" THEN wsDraft.op ELSE op
           msg == [op |-> first, bytes |-> wsDraft.bytes \o pay]
           st == [at |-> 0, sent |-> wsSent, draft |-> wsDraft]
           st2 == [at |-> 0, sent |-> wsSent', draft |-> wsDraft']
<1>1. WsTypeOK /\ WsFlow /\ len \in Nat
  BY WsSessionAssumption DEF WsInv
<1>2. /\ x \in Seq(WsTokens) /\ h \in WsHeads /\ Len(x) = WsSize(h) /\ x[1] = h
      /\ \A j \in 1 .. len : x[WsSize(h) - len + j] = [k |-> "byte", v |-> wsFrames]
      /\ \A w \in Seq(WsTokens) : w \o x = w \o <<h>> \o WsKey(mask) \o WsBody(len)
  <2>1. wsFrames \in Nat
    BY <1>1 DEF WsTypeOK
  <2> QED
    <3>1. h = WsHead(op, fin, len, mask) /\ x = <<h>> \o WsKey(mask) \o WsBody(len)
      OBVIOUS
    <3> HIDE DEF h, x
    <3>2. len \in Nat
      BY <1>1
    <3>3. \A g, y : g = WsHead(op, fin, len, mask) /\ y = <<g>> \o WsKey(mask) \o WsBody(len) =>
             /\ y \in Seq(WsTokens) /\ g \in WsHeads /\ Len(y) = WsSize(g) /\ y[1] = g
             /\ \A j \in 1 .. len : y[WsSize(g) - len + j] = [k |-> "byte", v |-> wsFrames]
             /\ \A w \in Seq(WsTokens) : w \o y = w \o <<g>> \o WsKey(mask) \o WsBody(len)
      BY <3>2, <2>1, WsFrameTokens, ZenonT(60)
    <3> QED
      BY <3>1, <3>3, ZenonT(30)
<1>3. h.op = op /\ h.fin = fin /\ h.len = len /\ h.mask = mask
  BY DEF WsHead
<1>4. wsWire' = wsWire \o x /\ wsFrames' \in Nat
  <2>1. wsWire' = wsWire \o <<h>> \o WsKey(mask) \o WsBody(len)
    BY DEF WsClientSends
  <2>2. wsWire \in Seq(WsTokens) /\ wsFrames \in Nat
    BY <1>1 DEF WsTypeOK
  <2>3. wsFrames' \in Nat
    BY <2>2 DEF WsClientSends
  <2> QED
    BY <2>1, <2>2, <2>3, <1>2, Zenon
<1>5. pay \in Seq(Nat) /\ wsDraft.bytes \o pay \in Seq(Nat)
  BY <1>1 DEF WsTypeOK, WsMsgs
<1>6. op \notin {"ping", "close"} => (op = "cont" <=> wsDraft.op # "none") /\ msg \in WsMsgs
  BY <1>1, <1>5 DEF WsTypeOK, WsMsgs, WsClientSends, WsKinds
<1>7. IF op \in {"ping", "close"} THEN wsSent' = wsSent /\ wsDraft' = wsDraft
      ELSE /\ wsSent' = IF fin THEN Append(wsSent, msg) ELSE wsSent
           /\ wsDraft' = IF fin THEN WsNoData ELSE msg
  BY DEF WsClientSends
<1> HIDE DEF h, x, msg
<1>8. /\ wsSent' \in Seq(WsMsgs) /\ wsDraft' \in WsMsgs
      /\ wsSent' = wsSent \/ \E m \in WsMsgs : wsSent' = Append(wsSent, m)
  <2>1. WsNoData \in WsMsgs
    BY DEF WsNoData, WsMsgs
  <2>2. wsSent \in Seq(WsMsgs) /\ wsDraft \in WsMsgs
    BY <1>1 DEF WsTypeOK
  <2>3. CASE op \in {"ping", "close"}
    BY <2>2, <2>3, <1>7
  <2>4. CASE op \notin {"ping", "close"} /\ fin
    <3>1. wsSent' = Append(wsSent, msg) /\ wsDraft' = WsNoData /\ msg \in WsMsgs
      BY <2>4, <1>6, <1>7
    <3> QED
      BY <3>1, <2>1, <2>2
  <2>5. CASE op \notin {"ping", "close"} /\ ~fin
    <3>1. wsSent' = wsSent /\ wsDraft' = msg /\ msg \in WsMsgs
      BY <2>5, <1>6, <1>7
    <3> QED
      BY <3>1, <2>2
  <2> QED
    BY <2>3, <2>4, <2>5
<1>9. WsReads(h, pay, st, st2)
  BY <1>3, <1>6, <1>7 DEF WsReads, msg
<1>10. WsTypeOK'
  <2>1. wsWire' \in Seq(WsTokens)
    BY <1>1, <1>2, <1>4 DEF WsTypeOK
  <2>2. UNCHANGED <<wsAt, wsData, wsGot, wsSkewed>>
    BY DEF WsClientSends
  <2> QED
    BY <2>1, <2>2, <1>1, <1>4, <1>8 DEF WsTypeOK
<1>11. ASSUME ~wsSkewed', NEW b \in Nat, NEW t \in Seq(WsStations),
              WsTrace(wsWire, b, t, wsSent, wsDraft), t[1].sent = WsHandled, t[1].draft = WsPending
       PROVE  WsFlow'
  <2> DEFINE w == wsWire
             last == [at |-> b + Len(w \o x) + 1, sent |-> wsSent', draft |-> wsDraft']
             s == t[Len(t)]
             p == Len(w) + 1
             v == w \o x
  <2>1. s = [at |-> b + Len(w) + 1, sent |-> wsSent, draft |-> wsDraft] /\ w \in Seq(WsTokens) /\ Len(w) \in Nat
    BY <1>1, <1>11 DEF WsTrace, WsTypeOK
  <2>2. /\ v \in Seq(WsTokens) /\ Len(v) = Len(w) + WsSize(h)
        /\ \A i \in 1 .. WsSize(h) : v[Len(w) + i] = x[i]
    <3>1. x \in Seq(WsTokens) /\ Len(x) = WsSize(h)
      BY <1>2
    <3> HIDE DEF w
    <3>2. w \in Seq(WsTokens) /\ Len(w) \in Nat
      BY <2>1
    <3>3. /\ v \in Seq(WsTokens) /\ Len(v) = Len(w) + Len(x)
          /\ \A i \in 1 .. Len(w) + Len(x) : v[i] = IF i <= Len(w) THEN w[i] ELSE x[i - Len(w)]
      BY ONLY <3>1, <3>2, ConcatProperties
    <3>4. WsSize(h) \in Nat
      BY <3>1
    <3> HIDE DEF v
    <3>5. ASSUME NEW i \in 1 .. WsSize(h) PROVE v[Len(w) + i] = x[i]
      <4>1. Len(w) + i \in 1 .. Len(w) + Len(x) /\ ~(Len(w) + i <= Len(w)) /\ (Len(w) + i) - Len(w) = i
        BY <3>1, <3>2, <3>4
      <4> QED
        BY <4>1, <3>3
    <3> QED
      BY <3>1, <3>3, <3>5
  <2>3. WsSize(h) \in Nat /\ WsSize(h) >= 1 + len
    BY <1>1, <1>2, <1>3 DEF WsSize
  <2> HIDE DEF w, v, s
  <2>4. /\ v[p] = h /\ p \in 1 .. Len(v) /\ s.at - b = p
        /\ last.at - b = Len(v) + 1 /\ last.at = s.at + WsSize(h)
    <3>1. v[Len(w) + 1] = h
      BY <2>2, <2>3, <1>1, <1>2
    <3>2. s.at = b + Len(w) + 1 /\ last.at = b + Len(v) + 1
      BY <2>1 DEF v
    <3> HIDE DEF last
    <3> QED
      BY <3>1, <3>2, <2>1, <2>2, <2>3, <1>1
  <2>5. ASSUME NEW j \in 1 .. len
        PROVE  v[p + WsSize(h) - len - 1 + j] = [k |-> "byte", v |-> wsFrames]
    <3>1. WsSize(h) - len + j \in 1 .. WsSize(h)
          /\ p + WsSize(h) - len - 1 + j = Len(w) + (WsSize(h) - len + j)
      BY <2>1, <2>3, <1>1
    <3> QED
      BY <3>1, <2>2, <1>2
  <2>6. [k |-> "byte", v |-> wsFrames] \in WsBytes
    BY <1>1 DEF WsTypeOK, WsBytes
  <2>7. WsPayload(v, p) = pay
    BY <2>4, <2>5, <1>3 DEF WsPayload
  <2>8. WsReads(h, pay, s, last)
    BY <1>9, <2>1 DEF WsReads
  <2>9. WsFrame(v, b, s, last)
    <3>1. \A j \in 1 .. h.len : v[p + WsSize(h) - h.len - 1 + j] \in WsBytes
      BY <2>5, <2>6, <1>3
    <3>2. last.at - b <= Len(v) + 1
      BY <2>2, <2>4
    <3> HIDE DEF last, p, pay
    <3> QED
      BY <3>1, <3>2, <2>4, <2>7, <2>8, <1>2 DEF WsFrame
  <2>10. PICK u \in Seq(WsStations) : WsTrace(w \o x, b, u, wsSent', wsDraft') /\ u[1] = t[1]
    <3>1. wsSent \in Seq(WsMsgs) /\ wsDraft \in WsMsgs /\ WsTrace(w, b, t, wsSent, wsDraft)
      BY <1>1, <1>11 DEF WsTypeOK, w
    <3> HIDE DEF last
    <3>2. WsFrame(w \o x, b, t[Len(t)], [at |-> b + Len(w \o x) + 1, sent |-> wsSent', draft |-> wsDraft'])
      BY <2>9 DEF v, s, last
    <3> QED
      BY <3>1, <3>2, <2>1, <1>2, <1>8, WsTraceGrows
  <2>11. WsHandled' = WsHandled /\ WsPending' = WsPending
    BY DEF WsHandled, WsPending, WsClientSends
  <2> QED
    BY <2>10, <2>11, <1>4, <1>11 DEF WsFlow, w
<1>12. wsSkewed' = wsSkewed
  BY DEF WsClientSends
<1>13. WsFlow'
  <2>1. CASE wsSkewed
    BY <2>1, <1>12 DEF WsFlow
  <2>2. CASE ~wsSkewed
    BY <2>2, <1>1, <1>11, <1>12 DEF WsFlow
  <2> QED
    BY <2>1, <2>2
<1> QED
  BY <1>10, <1>13 DEF WsInv

\* What lies at the head of the wire: a whole frame.
LEMMA WsFirstFrame ==
  ASSUME WsTypeOK, wsWire # <<>>, NEW b \in Nat, NEW t \in Seq(WsStations),
         WsTrace(wsWire, b, t, wsSent, wsDraft)
  PROVE  LET h == Head(wsWire) IN
         /\ Len(t) >= 2 /\ t[1] \in WsStations /\ t[2] \in WsStations
         /\ h \in WsHeads /\ t[2].at = b + 1 + WsSize(h)
         /\ WsReads(h, WsPayload(wsWire, 1), t[1], t[2])
         /\ h.mask => WsPayload(wsWire, 1) = [j \in 1 .. h.len |-> wsWire[2 + j].v]
         /\ WsPayload(wsWire, 1) \in Seq(Nat)
<1> DEFINE h == Head(wsWire)
<1>1. Len(t) \in Nat /\ t[1].at = b + 1 /\ Len(t) >= 1 /\ t[Len(t)].at = b + Len(wsWire) + 1
  BY DEF WsTrace
<1>2. wsWire \in Seq(WsTokens) /\ Len(wsWire) \in Nat /\ Len(wsWire) # 0 /\ Head(wsWire) = wsWire[1]
  BY DEF WsTypeOK
<1>3. Len(t) # 1
  BY <1>1, <1>2
<1>4. Len(t) >= 2 /\ t[1] \in WsStations /\ t[2] \in WsStations
  BY <1>1, <1>3
<1>5. WsFrame(wsWire, b, t[1], t[2])
  <2>1. 1 \in 1 .. Len(t) - 1
    BY <1>1, <1>4
  <2>2. WsFrame(wsWire, b, t[1], t[1 + 1])
    BY <2>1 DEF WsTrace
  <2> QED
    BY <2>2
<1>6. t[1].at - b = 1
  BY <1>1
<1>7. /\ h \in WsHeads /\ t[2].at = t[1].at + WsSize(h)
      /\ \A j \in 1 .. h.len : wsWire[1 + WsSize(h) - h.len - 1 + j] \in WsBytes
      /\ WsReads(h, WsPayload(wsWire, 1), t[1], t[2])
  BY <1>2, <1>5, <1>6 DEF WsFrame
<1>8. h.len \in Nat /\ WsSize(h) \in Nat /\ (h.mask => WsSize(h) = 2 + h.len)
  BY <1>7 DEF WsHeads, WsSize
<1>9. WsPayload(wsWire, 1) = [j \in 1 .. h.len |-> wsWire[1 + WsSize(h) - h.len - 1 + j].v]
  BY <1>2 DEF WsPayload
<1>10. WsPayload(wsWire, 1) \in Seq(Nat)
  <2>1. \A j \in 1 .. h.len : wsWire[1 + WsSize(h) - h.len - 1 + j].v \in Nat
    BY <1>7 DEF WsBytes
  <2> HIDE DEF h
  <2> QED
    BY <2>1, <1>8, <1>9
<1>11. ASSUME h.mask PROVE WsPayload(wsWire, 1) = [j \in 1 .. h.len |-> wsWire[2 + j].v]
  <2>1. \A j \in 1 .. h.len : 1 + WsSize(h) - h.len - 1 + j = 2 + j
    BY <1>8, <1>11
  <2> HIDE DEF h
  <2> QED
    BY <2>1, <1>9
<1>12. t[2].at = b + 1 + WsSize(h)
  BY <1>1, <1>7
<1> QED
  BY <1>4, <1>7, <1>10, <1>11, <1>12

\* The server reads a frame of a message.
LEMMA WsFragmentStep ==
  ASSUME WsInv, wsAt = "recv", ~wsSkewed, wsWire # <<>>, WsFragment(Head(wsWire))
  PROVE  WsInv'
<1> DEFINE h == Head(wsWire)
           pay == [j \in 1 .. h.len |-> wsWire[2 + j].v]
<1>1. WsTypeOK /\ WsFlow
  BY DEF WsInv
<1>2. PICK b \in Nat, t \in Seq(WsStations) :
        /\ WsTrace(wsWire, b, t, wsSent, wsDraft)
        /\ t[1].sent = wsGot /\ t[1].draft = wsData
  BY <1>1 DEF WsFlow, WsHandled, WsPending
<1>3. h.mask /\ h.op \in {"text", "cont"}
  BY DEF WsFragment, WsRefused
<1>4. /\ Len(t) >= 2 /\ t[1] \in WsStations /\ t[2] \in WsStations
      /\ h \in WsHeads /\ t[2].at = b + 1 + WsSize(h)
      /\ WsReads(h, pay, t[1], t[2]) /\ pay \in Seq(Nat)
  BY <1>1, <1>2, <1>3, WsFirstFrame
<1>5. WsSize(h) = 2 + h.len /\ h.len \in Nat /\ h.fin \in BOOLEAN
  BY <1>3, <1>4 DEF WsHeads, WsSize
<1> DEFINE n == 2 + h.len
           msg == [op |-> IF h.op = "cont" THEN wsData.op ELSE h.op, bytes |-> wsData.bytes \o pay]
<1>6. /\ wsWire' = SubSeq(wsWire, n + 1, Len(wsWire))
      /\ wsData' = [op |-> IF wsData.op = "none" /\ h.op # "cont" THEN h.op ELSE wsData.op,
                    bytes |-> wsData.bytes \o pay]
      /\ wsAt' = IF h.fin THEN "handle" ELSE "recv"
      /\ UNCHANGED <<wsGot, wsSent, wsDraft, wsFrames, wsSkewed>>
  BY DEF WsFragment, WsAppend
<1> HIDE DEF h, pay
<1>7. /\ h.op = "cont" <=> wsData.op # "none"
      /\ t[2].sent = IF h.fin THEN Append(wsGot, msg) ELSE wsGot
      /\ t[2].draft = IF h.fin THEN WsNoData ELSE msg
  BY <1>2, <1>3, <1>4 DEF WsReads
<1>8. wsData' = msg
  BY <1>3, <1>6, <1>7
<1>9. msg \in WsMsgs
  <2>1. wsData \in WsMsgs
    BY <1>1 DEF WsTypeOK
  <2>2. wsData.bytes \o pay \in Seq(Nat)
    BY <2>1, <1>4 DEF WsMsgs
  <2> QED
    BY <2>1, <2>2, <1>3, <1>7 DEF WsMsgs
<1> HIDE DEF msg
<1>10. WsTrace(wsWire', b + n, Tail(t), wsSent, wsDraft)
  <2>1. n \in Nat /\ t[2].at = b + 1 + n
    BY <1>4, <1>5
  <2>2. wsWire \in Seq(WsTokens) /\ wsSent \in Seq(WsMsgs) /\ wsDraft \in WsMsgs
    BY <1>1 DEF WsTypeOK
  <2> HIDE DEF n
  <2>3. WsTrace(SubSeq(wsWire, n + 1, Len(wsWire)), b + n, Tail(t), wsSent, wsDraft)
    BY ONLY <2>1, <2>2, <1>2, <1>4, b \in Nat, t \in Seq(WsStations), WsTraceMoves
  <2> QED
    BY <2>3, <1>6 DEF n
<1>11. Tail(t) \in Seq(WsStations) /\ Tail(t)[1] = t[2] /\ b + n \in Nat
  BY <1>4, <1>5
<1>12. WsFlow'
  <2>1. Tail(t)[1].sent = WsHandled' /\ Tail(t)[1].draft = WsPending'
    BY <1>5, <1>6, <1>7, <1>8, <1>11 DEF WsHandled, WsPending
  <2> QED
    BY <2>1, <1>6, <1>10, <1>11 DEF WsFlow
<1>13. WsTypeOK'
  <2>1. wsWire' \in Seq(WsTokens)
    BY <1>1, <1>5, <1>6 DEF WsTypeOK
  <2> QED
    BY <2>1, <1>1, <1>5, <1>6, <1>8, <1>9 DEF WsTypeOK
<1> QED
  BY <1>12, <1>13 DEF WsInv

\* The server reads the head of a control frame: without a key and a payload it is the
\* whole frame.
LEMMA WsControlStep ==
  ASSUME WsInv, wsAt = "recv", ~wsSkewed, wsWire # <<>>, WsControl(Head(wsWire))
  PROVE  WsInv'
<1> DEFINE h == Head(wsWire)
<1>1. WsTypeOK /\ WsFlow
  BY DEF WsInv
<1>2. PICK b \in Nat, t \in Seq(WsStations) :
        /\ WsTrace(wsWire, b, t, wsSent, wsDraft)
        /\ t[1].sent = wsGot /\ t[1].draft = wsData
  BY <1>1 DEF WsFlow, WsHandled, WsPending
<1>3. /\ Len(t) >= 2 /\ t[1] \in WsStations /\ t[2] \in WsStations
      /\ h \in WsHeads /\ t[2].at = b + 1 + WsSize(h)
      /\ WsReads(h, WsPayload(wsWire, 1), t[1], t[2])
  BY <1>1, <1>2, WsFirstFrame
<1>4. /\ wsWire' = Tail(wsWire) /\ h.op \in {"ping", "close"}
      /\ wsSkewed' = (h.mask \/ h.len > 0)
      /\ UNCHANGED <<wsAt, wsData, wsGot, wsSent, wsDraft, wsFrames>>
  BY DEF WsControl
<1>5. t[2].sent = wsGot /\ t[2].draft = wsData /\ h.mask \in BOOLEAN /\ h.len \in Nat
  BY <1>2, <1>3, <1>4 DEF WsReads, WsHeads
<1> HIDE DEF h
<1>6. WsTypeOK'
  <2>1. Tail(wsWire) \in Seq(WsTokens)
    BY <1>1 DEF WsTypeOK
  <2> QED
    BY <2>1, <1>1, <1>4, <1>5 DEF WsTypeOK
<1>7. ASSUME ~wsSkewed' PROVE WsFlow'
  <2>1. WsSize(h) = 1
    <3>1. ~(h.mask \/ h.len > 0)
      BY <1>4, <1>7, Zenon
    <3>2. ~h.mask /\ h.len = 0
      BY <3>1, <1>5
    <3> QED
      BY <3>2 DEF WsSize
  <2>2. wsWire' = SubSeq(wsWire, 1 + 1, Len(wsWire))
    BY <1>1, <1>4 DEF WsTypeOK
  <2>3. WsTrace(wsWire', b + 1, Tail(t), wsSent, wsDraft)
    BY <2>1, <2>2, <1>1, <1>2, <1>3, WsTraceMoves DEF WsTypeOK
  <2>4. Tail(t) \in Seq(WsStations) /\ Tail(t)[1] = t[2] /\ b + 1 \in Nat
    BY <1>3
  <2>5. Tail(t)[1].sent = WsHandled' /\ Tail(t)[1].draft = WsPending'
    BY <1>4, <1>5, <2>4 DEF WsHandled, WsPending
  <2> QED
    BY <2>3, <2>4, <2>5, <1>4 DEF WsFlow
<1> QED
  BY <1>6, <1>7 DEF WsInv, WsFlow

\* The invariant is inductive.
LEMMA WsInvNext == WsInv /\ [WsNext]_wsVars => WsInv'
<1> SUFFICES ASSUME WsInv, [WsNext]_wsVars PROVE WsInv'
  OBVIOUS
<1>0. WsTypeOK /\ WsFlow
  BY DEF WsInv
<1>a. ASSUME UNCHANGED <<wsWire, wsData, wsGot, wsSent, wsDraft, wsFrames, wsSkewed>>,
             wsAt' \in {"shake", "connect", "recv", "handle", "close", "ended"},
             wsAt' = "handle" <=> wsAt = "handle"
      PROVE  WsInv'
  BY <1>0, <1>a DEF WsInv, WsTypeOK, WsFlow, WsHandled, WsPending
<1>b. CASE WsGiveUp /\ wsAt = "recv"
  BY <1>a, <1>b DEF WsGiveUp
<1>1. ASSUME NEW op \in WsKinds, NEW fin \in BOOLEAN, NEW len \in WsLens, NEW mask \in BOOLEAN,
             WsClientSends(op, fin, len, mask)
      PROVE  WsInv'
  BY <1>1, WsSendStep
<1>2. CASE WsBreak
  BY <1>0, <1>2, <1>a DEF WsBreak, WsTypeOK
<1>3. ASSUME NEW ok \in BOOLEAN, WsShake(ok) PROVE WsInv'
  BY <1>3, <1>a DEF WsShake
<1>4. ASSUME NEW ok \in BOOLEAN, WsConnect(ok) PROVE WsInv'
  BY <1>4, <1>a DEF WsConnect
<1>5. CASE WsRecv
  BY <1>5, <1>b, WsFragmentStep, WsControlStep DEF WsRecv
<1>6. CASE WsRecvSkewed
  <2>1. wsSkewed /\ UNCHANGED <<wsGot, wsSent, wsDraft, wsFrames, wsSkewed>>
    BY <1>6 DEF WsRecvSkewed, WsGiveUp
  <2>2. /\ wsWire' \in Seq(WsTokens) /\ wsData' \in WsMsgs
        /\ wsAt' \in {"shake", "connect", "recv", "handle", "close", "ended"}
    <3>1. wsWire # <<>> => Tail(wsWire) \in Seq(WsTokens)
      BY <1>0 DEF WsTypeOK
    <3>2. [op |-> "text", bytes |-> <<0>>] \in WsMsgs /\ <<>> \in Seq(WsTokens)
      BY DEF WsMsgs
    <3> QED
      BY <3>1, <3>2, <1>0, <1>6 DEF WsRecvSkewed, WsGiveUp, WsTypeOK
  <2> QED
    BY <2>1, <2>2, <1>0 DEF WsInv, WsTypeOK, WsFlow
<1>7. CASE WsClose
  BY <1>7, <1>a DEF WsClose
<1>8. ASSUME NEW e \in {"pong", "echo", "none"}, WsHandle(e) PROVE WsInv'
  <2>1. /\ wsAt = "handle" /\ wsAt' = "recv" /\ wsGot' = Append(wsGot, wsData) /\ wsData' = WsNoData
        /\ UNCHANGED <<wsWire, wsSent, wsDraft, wsFrames, wsSkewed>>
    BY <1>8 DEF WsHandle
  <2>2. WsHandled' = WsHandled /\ WsPending' = WsPending
    BY <2>1 DEF WsHandled, WsPending, WsNoData
  <2>3. WsNoData \in WsMsgs
    BY DEF WsNoData, WsMsgs
  <2>4. WsTypeOK'
    BY <2>1, <2>3, <1>0 DEF WsTypeOK
  <2> QED
    BY <2>1, <2>2, <2>4, <1>0 DEF WsInv, WsFlow
<1>9. CASE UNCHANGED wsVars
  BY <1>0, <1>9, <1>a DEF wsVars, WsTypeOK
<1> QED
  <2>1. {"text", "cont"} \subseteq WsKinds /\ {"ping", "close"} \subseteq WsKinds /\ TRUE \in BOOLEAN
    BY DEF WsKinds
  <2> QED
    BY <2>1, <1>1, <1>2, <1>3, <1>4, <1>5, <1>6, <1>7, <1>8, <1>9 DEF WsNext

\* The first station is where the wire is empty.
LEMMA WsInvInit == WsInit => WsInv
<1> SUFFICES ASSUME WsInit PROVE WsInv
  OBVIOUS
<1> DEFINE s == [at |-> 1, sent |-> <<>>, draft |-> WsNoData]
<1>1. WsNoData \in WsMsgs
  BY DEF WsNoData, WsMsgs
<1>2. WsTypeOK
  <2>1. <<>> \in Seq(WsTokens) /\ <<>> \in Seq(WsMsgs)
    OBVIOUS
  <2> QED
    BY <1>1, <2>1 DEF WsInit, WsTypeOK
<1>3. s \in WsStations /\ <<s>> \in Seq(WsStations) /\ Len(<<s>>) = 1 /\ <<s>>[1] = s
  BY <1>1 DEF WsStations
<1>4. WsTrace(<<>>, 0, <<s>>, <<>>, WsNoData)
  <2>1. IsPrefix(<<>>, <<>>)
    BY DEF IsPrefix
  <2> QED
    BY <2>1, <1>3 DEF WsTrace
<1>5. WsFlow
  BY <1>3, <1>4 DEF WsInit, WsFlow, WsHandled, WsPending
<1> QED
  BY <1>2, <1>5 DEF WsInv

\* What the invariant says about messages that were handed out.
LEMMA WsInvDelivers == WsInv => WsDelivers
<1> SUFFICES ASSUME WsInv, ~wsSkewed PROVE WsDelivers
  BY DEF WsDelivers
<1>1. WsTypeOK /\ WsFlow
  BY DEF WsInv
<1>2. PICK b \in Nat, t \in Seq(WsStations) :
        /\ WsTrace(wsWire, b, t, wsSent, wsDraft)
        /\ t[1].sent = WsHandled
  BY <1>1 DEF WsFlow
<1>3. IsPrefix(WsHandled, wsSent)
  BY <1>2 DEF WsTrace
<1>4. IsPrefix(wsGot, wsSent)
  <2>1. CASE wsAt # "handle"
    BY <2>1, <1>3 DEF WsHandled
  <2>2. CASE wsAt = "handle"
    <3>1. IsPrefix(Append(wsGot, wsData), wsSent)
      BY <2>2, <1>3 DEF WsHandled
    <3> QED
      BY <3>1, <1>1, WsPrefixOf DEF WsTypeOK
  <2> QED
    BY <2>1, <2>2
<1>5. ASSUME wsAt = "recv", wsWire = <<>> PROVE wsGot = wsSent
  <2>1. t[1].at = b + 1 /\ t[Len(t)].at = b + 0 + 1 /\ t[Len(t)].sent = wsSent
    BY <1>2, <1>5 DEF WsTrace
  <2>2. Len(t) = 1
    <3>0. Len(t) \in Nat /\ Len(t) >= 1
      BY <1>2 DEF WsTrace
    <3>1. ASSUME Len(t) # 1 PROVE FALSE
      <4>1. 1 \in 1 .. Len(t) - 1
        BY <3>0, <3>1
      <4>2. WsFrame(wsWire, b, t[1], t[1 + 1])
        BY <4>1, <1>2 DEF WsTrace
      <4>3. t[1].at - b \in 1 .. Len(wsWire)
        BY <4>2 DEF WsFrame
      <4> QED
        BY <4>3, <2>1, <1>5
    <3> QED
      BY <3>1
  <2> QED
    BY <2>1, <2>2, <1>2, <1>5 DEF WsHandled
<1> QED
  BY <1>4, <1>5 DEF WsDelivers

\* As long as no control frame with a key or a payload has come, the callback gets the
\* messages of the client, whole, once and in order, however they were cut into frames
\* and wherever control frames lay between them; a live session that has read all there
\* was has handed out all (WSRecvMessage() in handleClient()'s loop).
THEOREM WsDelivery == WsSpec => []WsDelivers
<1>1. WsSpec => []WsInv
  BY WsInvInit, WsInvNext, PTL DEF WsSpec
<1> QED
  BY <1>1, WsInvDelivers, PTL

=============================================================================
