------------------------------ MODULE FdFlags ------------------------------
(***************************************************************************)
(* What the hooks know of a descriptor: FdManager and FdCtx                *)
(* (src/src/net/fd_manager.cpp) and the hooks that keep them, socket(),    *)
(* accept(), close(), fcntl() and ioctl() (src/src/net/hook.cpp).  The     *)
(* kernel's sockets must not block, so that do_io() can suspend a          *)
(* coroutine instead of its thread; whether the user asked for a blocking  *)
(* one, and the timeouts do_io() waits with, are in the FdCtx.             *)
(*                                                                         *)
(* The setsockopt() of hook.cpp that copies a timeout into the FdCtx is    *)
(* defined behind the end of extern "C": it is CIM::setsockopt, which no   *)
(* header declares, and Socket::setOption reaches the libc's.              *)
(*                                                                         *)
(* Threads of a scheduler run with hooks, others without.  Descriptor      *)
(* numbers are used again as soon as the kernel has closed them; fcBorn    *)
(* numbers the sockets, so that one is told from the next with its number. *)
(***************************************************************************)
EXTENDS Integers, FiniteSets

CONSTANTS
    FcThreads,   \* threads
    FcHooked,    \* those that run with hooks (is_hook_enable())
    FcFds,       \* descriptor numbers
    FcTimes,     \* timeouts
    FcMaxSocks,  \* bound: sockets
    FcMaxOps     \* bound: changes of flags and timeouts

ASSUME FdFlagsAssumption ==
    FcHooked \subseteq FcThreads /\ FcFds \subseteq Nat /\ FcTimes \subseteq Nat /\ FcMaxSocks \in Nat /\ FcMaxOps \in Nat

VARIABLES
    fcKern,  \* the kernel: the socket with a number (0: closed), and whether it blocks
    fcCtx,   \* m_fdCtxs: who it was made for (0: none), flags and timeout
    fcWant,  \* what the user of a socket asked for: non-blocking, timeout
    fcMade,  \* sockets that accept() or a hooked socket() made
    fcOdd,   \* sockets excused by FcExact
    fcAt,    \* the call a thread is in, and its descriptor
    fcBorn,  \* sockets so far
    fcOps    \* changes so far

fcVars == <<fcKern, fcCtx, fcWant, fcMade, fcOdd, fcAt, fcBorn, fcOps>>

FcNone == [born |-> 0, user |-> FALSE, sys |-> FALSE, time |-> -1]
FcIdle == [op |-> "idle", fd |-> 0]
FcUnasked == [user |-> FALSE, time |-> -1]

FcInit ==
    /\ fcKern = [n \in FcFds |-> [born |-> 0, nb |-> FALSE]]
    /\ fcCtx = [n \in FcFds |-> FcNone]
    /\ fcWant = [n \in FcFds |-> FcUnasked]
    /\ fcMade = {} /\ fcOdd = {} /\ fcAt = [t \in FcThreads |-> FcIdle] /\ fcBorn = 0 /\ fcOps = 0

\* A socket that is open and that no thread is in a call about: its user.
FcFree(n) == fcKern[n].born # 0 /\ \A t \in FcThreads : fcAt[t].fd # n \/ fcAt[t] = FcIdle

-----------------------------------------------------------------------------
(* Making and closing a socket. *)

\* The kernel gives the lowest free number.
FcOpens(t, listed) ==
    /\ fcAt[t] = FcIdle /\ fcBorn < FcMaxSocks
    /\ \E n \in FcFds :
          /\ fcKern[n].born = 0 /\ \A m \in FcFds : m < n => fcKern[m].born # 0
          /\ fcKern' = [fcKern EXCEPT ![n] = [born |-> fcBorn + 1, nb |-> FALSE]]
          /\ fcWant' = [fcWant EXCEPT ![n] = FcUnasked]
          /\ fcAt' = [fcAt EXCEPT ![t] = IF listed THEN [op |-> "made", fd |-> n] ELSE FcIdle]
          /\ fcOdd' = IF listed \/ fcCtx[n].born = 0 THEN fcOdd ELSE fcOdd \cup {fcBorn + 1}
    /\ fcMade' = IF listed THEN fcMade \cup {fcBorn + 1} ELSE fcMade
    /\ fcBorn' = fcBorn + 1 /\ UNCHANGED <<fcCtx, fcOps>>

\* socket() lists the descriptor only under hooks, accept() always.
FcSocket(t) == FcOpens(t, t \in FcHooked)
FcAccept(t) == FcOpens(t, TRUE)

\* FdManager::get(fd, true): an entry that is there is taken as it is; a new
\* FdCtx makes the kernel's socket non-blocking.
FcList(t) ==
    LET n == fcAt[t].fd
    IN  /\ fcAt[t].op = "made"
        /\ IF fcCtx[n].born # 0
           THEN fcOdd' = fcOdd \cup {fcKern[n].born} /\ UNCHANGED <<fcCtx, fcKern>>
           ELSE /\ fcCtx' = [fcCtx EXCEPT ![n] = [born |-> fcKern[n].born, user |-> FALSE, sys |-> TRUE, time |-> -1]]
                /\ fcKern' = [fcKern EXCEPT ![n] = [born |-> @.born, nb |-> TRUE]]
                /\ UNCHANGED fcOdd
        /\ fcAt' = [fcAt EXCEPT ![t] = FcIdle]
        /\ UNCHANGED <<fcWant, fcMade, fcBorn, fcOps>>

\* close(): without hooks at once; with hooks the FdCtx is deleted first (the
\* cancelAll() between is in IOManager), and while the number is still taken.
FcClose(t) ==
    /\ fcAt[t] = FcIdle
    /\ \E n \in FcFds :
          /\ FcFree(n)
          /\ fcAt' = [fcAt EXCEPT ![t] = [op |-> IF t \in FcHooked /\ fcCtx[n].born # 0 THEN "del" ELSE "close", fd |-> n]]
    /\ UNCHANGED <<fcKern, fcCtx, fcWant, fcMade, fcOdd, fcBorn, fcOps>>

FcKernelCloses(n) == [fcKern EXCEPT ![n] = [born |-> 0, nb |-> FALSE]]

\* Mistake for the mutation tests: the number is free before the FdCtx is gone.
FcDelLate(t) ==
    LET n == fcAt[t].fd
    IN  /\ \/ /\ fcAt[t].op = "del" /\ fcKern' = FcKernelCloses(n)
              /\ fcAt' = [fcAt EXCEPT ![t] = [op |-> "close", fd |-> n]] /\ UNCHANGED fcCtx
           \/ /\ fcAt[t].op = "close" /\ fcCtx' = [fcCtx EXCEPT ![n] = FcNone]
              /\ fcAt' = [fcAt EXCEPT ![t] = FcIdle] /\ UNCHANGED fcKern
        /\ UNCHANGED <<fcWant, fcMade, fcOdd, fcBorn, fcOps>>
FcDel(t) ==
    LET n == fcAt[t].fd
    IN  /\ \/ /\ fcAt[t].op = "del" /\ fcCtx' = [fcCtx EXCEPT ![n] = FcNone]
              /\ fcAt' = [fcAt EXCEPT ![t] = [op |-> "close", fd |-> n]] /\ UNCHANGED fcKern
           \/ /\ fcAt[t].op = "close" /\ fcKern' = FcKernelCloses(n)
              /\ fcAt' = [fcAt EXCEPT ![t] = FcIdle] /\ UNCHANGED fcCtx
        /\ UNCHANGED <<fcWant, fcMade, fcOdd, fcBorn, fcOps>>

-----------------------------------------------------------------------------
(* Flags and timeouts, changed by the user of a socket. *)

FcChange(t, n) ==
    /\ fcAt[t] = FcIdle /\ FcFree(n) /\ fcOps < FcMaxOps /\ fcOps' = fcOps + 1
    /\ UNCHANGED <<fcMade, fcAt, fcBorn>>

\* fcntl(F_SETFL): recorded as the user's wish, the kernel keeps m_sysNonBlock.
FcSetFlags(t, n, v) ==
    /\ FcChange(t, n)
    /\ fcWant' = [fcWant EXCEPT ![n] = [user |-> v, time |-> @.time]]
    /\ IF fcCtx[n].born # 0
       THEN /\ fcCtx' = [fcCtx EXCEPT ![n] = [born |-> @.born, user |-> v, sys |-> @.sys, time |-> @.time]]
            /\ fcKern' = [fcKern EXCEPT ![n] = [born |-> @.born, nb |-> fcCtx[n].sys]]
       ELSE fcKern' = [fcKern EXCEPT ![n] = [born |-> @.born, nb |-> v]] /\ UNCHANGED fcCtx
    /\ UNCHANGED fcOdd

\* ioctl(FIONBIO): recorded as the system's flag, and the kernel gets it.
FcIoctl(t, n, v) ==
    /\ FcChange(t, n)
    /\ fcWant' = [fcWant EXCEPT ![n] = [user |-> v, time |-> @.time]]
    /\ fcKern' = [fcKern EXCEPT ![n] = [born |-> @.born, nb |-> v]]
    /\ IF fcCtx[n].born # 0
       THEN /\ fcCtx' = [fcCtx EXCEPT ![n] = [born |-> @.born, user |-> @.user, sys |-> v, time |-> @.time]]
            /\ fcOdd' = fcOdd \cup {fcKern[n].born}
       ELSE UNCHANGED <<fcCtx, fcOdd>>

\* Socket::setRecvTimeout(): the kernel hears of it, the FdCtx does not, and
\* the kernel has no use for it on a socket that does not block.
FcTimeout(t, n, v) ==
    /\ FcChange(t, n)
    /\ fcWant' = [fcWant EXCEPT ![n] = [user |-> @.user, time |-> v]]
    /\ UNCHANGED <<fcCtx, fcKern, fcOdd>>

\* fcntl(F_GETFL) as its caller sees it.
FcGetFlags(n) == IF fcCtx[n].born # 0 THEN fcCtx[n].user ELSE fcKern[n].nb

FcNext ==
    \E t \in FcThreads :
        \/ FcSocket(t) \/ FcAccept(t) \/ FcList(t) \/ FcClose(t) \/ FcDel(t)
        \/ \E n \in FcFds, v \in BOOLEAN : FcSetFlags(t, n, v) \/ FcIoctl(t, n, v)
        \/ \E n \in FcFds, v \in FcTimes : FcTimeout(t, n, v)

FcSpec == FcInit /\ [][FcNext]_fcVars

-----------------------------------------------------------------------------
\* A socket that is in use has the flags its user sees and, if the hooks know
\* it, a context of its own and a kernel that does not block -- whatever
\* sockets had its number before and whichever thread is closing or making
\* others.  Excused are a socket whose number was closed by a thread without
\* hooks, which leaves the old context, and one on which ioctl(FIONBIO) was
\* called.
FcExact ==
    \A n \in FcFds : FcFree(n) /\ fcKern[n].born \notin fcOdd =>
        /\ FcGetFlags(n) = fcWant[n].user
        /\ IF fcKern[n].born \in fcMade
           THEN fcCtx[n].born = fcKern[n].born /\ fcKern[n].nb
           ELSE fcCtx[n].born = 0

\* The timeout that the user of a hooked socket set is the one in its FdCtx,
\* with which do_io() waits: what the comment of the setsockopt() in hook.cpp
\* says.  The run fd_timeout shows that it never gets there.
FcTimeoutKnown ==
    \A n \in FcFds : FcFree(n) /\ fcKern[n].born \in fcMade \ fcOdd => fcCtx[n].time = fcWant[n].time
=============================================================================
