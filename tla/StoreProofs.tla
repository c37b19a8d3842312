---------------------------- MODULE StoreProofs ----------------------------
(***************************************************************************)
(* Proofs about what several coroutines or threads share: the context      *)
(* table of IOManager, the descriptors of FdManager, the queues of         *)
(* FoxThread, the MySQL connections, the HTTP connections and the          *)
(* containers of the caches.                                               *)
(***************************************************************************)
EXTENDS FdTable, FdFlags, FoxRedis, SqlPool, HttpPool, Caches,
        FiniteSetTheorems, SequenceTheorems, WellFoundedInduction, TLAPS

(***************************************************************************)
(* FdTable: the context table of IOManager, for any descriptors, any       *)
(* number of threads and any initial size of at least two.                 *)
(***************************************************************************)

PCs == {"out", "grow", "add", "cancel", "wild"}

FdTableTypeOK ==
    /\ size \in Nat
    /\ gen \in [Fds -> Nat]
    /\ reg \subseteq Fds \X Nat
    /\ pc \in [Threads -> PCs]
    /\ arg \in [Threads -> Nat]
    /\ held \in [Threads -> Nat]
    /\ \A t \in Threads : pc[t] \in {"grow", "add", "cancel"} => arg[t] \in Fds

\* However often it is resized the table keeps two entries, and a thread that
\* is about to resize it does so for a descriptor of two or more.
SizeInv ==
    /\ size >= 2
    /\ \A t \in Threads : pc[t] = "grow" => arg[t] >= 2
    /\ InRange

RangeInv == FdTableTypeOK /\ SizeInv

-----------------------------------------------------------------------------
\* fd * 1.5, rounded down, is beyond fd for every fd from two on.
LEMMA NewSizeBeyond ==
    ASSUME NEW f \in Nat, f >= 2
    PROVE  NewSize(f) \in Nat /\ NewSize(f) > f /\ NewSize(f) >= 2
  BY DEF NewSize

\* The table has its invariant at the start.
LEMMA RangeInit == Init => RangeInv
  BY FdTableAssumption
  DEF Init, RangeInv, FdTableTypeOK, SizeInv, InRange, PCs

\* Every step of the table keeps it.
LEMMA RangeStep == RangeInv /\ [Next]_vars => RangeInv'
<1> SUFFICES ASSUME RangeInv, [Next]_vars PROVE RangeInv'
  OBVIOUS
<1> USE FdTableAssumption DEF RangeInv, FdTableTypeOK, SizeInv, InRange, PCs
<1>1. ASSUME NEW t \in Threads, NEW f \in Fds, AddFound(t, f) PROVE RangeInv'
  BY <1>1 DEF AddFound
<1>2. ASSUME NEW t \in Threads, NEW f \in Fds, AddTooSmall(t, f) PROVE RangeInv'
  <2>1. f \in Nat /\ f >= 2
    BY <1>2 DEF AddTooSmall
  <2> QED
    BY <1>2, <2>1 DEF AddTooSmall
<1>3. ASSUME NEW t \in Threads, NEW f \in Fds, CancelFound(t, f) PROVE RangeInv'
  BY <1>3 DEF CancelFound
<1>4. ASSUME NEW t \in Threads, Grow(t) PROVE RangeInv'
  <2> DEFINE n == NewSize(arg[t])
  <2>1. arg[t] \in Fds /\ arg[t] \in Nat /\ arg[t] >= 2
    BY <1>4 DEF Grow
  <2>2. n \in Nat /\ n > arg[t] /\ n >= 2
    BY <2>1, NewSizeBeyond
  <2> HIDE DEF n
  <2>3. /\ size' = n
        /\ gen' = [g \in Fds |-> IF size <= g /\ g < n THEN gen[g] + 1 ELSE gen[g]]
        /\ pc' = [pc EXCEPT ![t] = "add"]
        /\ held' = [held EXCEPT ![t] = gen'[arg[t]]]
        /\ reg' = reg /\ arg' = arg
    BY <1>4, <2>2 DEF Grow, n
  <2>4. gen' \in [Fds -> Nat]
    BY <2>3
  <2>5. gen'[arg[t]] \in Nat
    BY <2>4, <2>1
  <2> QED
    BY <2>1, <2>2, <2>3, <2>4, <2>5
<1>5. ASSUME NEW t \in Threads, Register(t) PROVE RangeInv'
  BY <1>5 DEF Register
<1>6. ASSUME NEW t \in Threads, CancelDo(t) PROVE RangeInv'
  BY <1>6 DEF CancelDo
<1>7. ASSUME NEW r \in reg, Trigger(r) PROVE RangeInv'
  BY <1>7 DEF Trigger
<1>8. CASE UNCHANGED vars
  BY <1>8 DEF vars
<1> QED
  BY <1>1, <1>2, <1>3, <1>4, <1>5, <1>6, <1>7, <1>8 DEF Next, Step

\* addEvent never reads beyond the end of m_fdContexts, however many threads
\* resize the table at the same time.
THEOREM InRangeCorrect == Spec => []InRange
<1>1. RangeInv => InRange
  BY DEF RangeInv, SizeInv
<1> QED
  BY <1>1, RangeInit, RangeStep, PTL DEF Spec

-----------------------------------------------------------------------------
(* A resize drops entries only when two threads grow the table at once; what *)
(* makes the other registered contexts findable is that every context in     *)
(* use is the table's own.                                                   *)

\* Unless two threads were about to grow the table at once, there is at most
\* one, it still must, and no entry has ever been dropped.
GrowerInv ==
    \/ raced
    \/ /\ cut = {}
       /\ \A t \in Threads : pc[t] = "grow" => arg[t] >= size
       /\ \A t, u \in Threads : pc[t] = "grow" /\ pc[u] = "grow" => t = u

\* A context that a thread has looked up is the table's entry.
HeldInv ==
    \A t \in Threads : pc[t] \in {"add", "cancel"} =>
        arg[t] \in cut \/ (arg[t] < size /\ held[t] = gen[arg[t]])

\* A context with a registered event is the table's entry.
RegInv == \A r \in reg : r[1] \in cut \/ (r[1] < size /\ r[2] = gen[r[1]])

FindInv == RangeInv /\ GrowerInv /\ HeldInv /\ RegInv

\* The table has the invariant at the start.
LEMMA FindInit == Init => FindInv
<1> SUFFICES ASSUME Init PROVE FindInv
  OBVIOUS
<1>1. RangeInv
  BY RangeInit
<1> QED
  BY <1>1 DEF Init, FindInv, GrowerInv, HeldInv, RegInv

\* Every step keeps it.
LEMMA FindStep == FindInv /\ [Next]_vars => FindInv'
<1> SUFFICES ASSUME FindInv, [Next]_vars PROVE FindInv'
  OBVIOUS
<1>0. RangeInv'
  BY RangeStep DEF FindInv
<1> USE FdTableAssumption, <1>0
    DEF FindInv, GrowerInv, HeldInv, RegInv, RangeInv, FdTableTypeOK, PCs
<1>1. ASSUME NEW t \in Threads, NEW f \in Fds, AddFound(t, f) PROVE FindInv'
  BY <1>1 DEF AddFound
<1>2. ASSUME NEW t \in Threads, NEW f \in Fds, AddTooSmall(t, f) PROVE FindInv'
  <2>1. GrowerInv'
    <3>1. CASE raced'
      BY <3>1
    <3>2. CASE ~raced'
      <4>1. ~raced /\ \A u \in Threads : pc[u] # "grow"
        BY <1>2, <3>2 DEF AddTooSmall
      <4> QED
        BY <1>2, <4>1 DEF AddTooSmall
    <3> QED
      BY <3>1, <3>2
  <2>2. HeldInv' /\ RegInv'
    BY <1>2 DEF AddTooSmall
  <2> QED
    BY <2>1, <2>2
<1>3. ASSUME NEW t \in Threads, NEW f \in Fds, CancelFound(t, f) PROVE FindInv'
  BY <1>3 DEF CancelFound
<1>4. ASSUME NEW t \in Threads, Grow(t) PROVE FindInv'
  <2> DEFINE n == NewSize(arg[t])
  <2>1. arg[t] \in Fds /\ arg[t] \in Nat /\ arg[t] >= 2 /\ size \in Nat
    BY <1>4 DEF Grow, SizeInv
  <2>2. n \in Nat /\ n > arg[t]
    BY <2>1, NewSizeBeyond
  <2> HIDE DEF n
  <2>3. /\ size' = n
        /\ gen' = [g \in Fds |-> IF size <= g /\ g < n THEN gen[g] + 1 ELSE gen[g]]
        /\ pc' = [pc EXCEPT ![t] = "add"]
        /\ held' = [held EXCEPT ![t] = gen'[arg[t]]]
        /\ cut' = cut \cup {g \in Fds : n <= g /\ g < size}
        /\ reg' = reg /\ arg' = arg /\ raced' = raced /\ pc[t] = "grow"
    BY <1>4, <2>2 DEF Grow, n
  <2>4. \A g \in Fds : g < size => g \in cut' \/ (g < n /\ gen'[g] = gen[g])
    BY <2>2, <2>3
  <2>5. RegInv'
    <3> SUFFICES ASSUME NEW r \in reg PROVE r[1] \in cut' \/ (r[1] < n /\ r[2] = gen'[r[1]])
      BY <2>3
    <3>1. r[1] \in Fds
      OBVIOUS
    <3> QED
      BY <2>3, <2>4, <3>1
  <2>6. HeldInv'
    <3> SUFFICES ASSUME NEW u \in Threads, pc'[u] \in {"add", "cancel"}
                 PROVE  arg[u] \in cut' \/ (arg[u] < n /\ held'[u] = gen'[arg[u]])
      BY <2>3
    <3>1. CASE u = t
      BY <2>1, <2>2, <2>3, <3>1
    <3>2. CASE u # t
      <4>1. arg[u] \in Fds /\ held'[u] = held[u] /\ pc[u] \in {"add", "cancel"}
        BY <2>3, <3>2
      <4> QED
        BY <2>3, <2>4, <4>1
    <3> QED
      BY <3>1, <3>2
  <2>7. GrowerInv'
    <3>1. CASE raced
      BY <2>3, <3>1
    <3>2. CASE ~raced
      <4>1. /\ cut = {} /\ arg[t] >= size
            /\ \A u \in Threads : pc'[u] # "grow"
        BY <2>3, <3>2
      <4>2. \A g \in Fds : g < size => ~(n <= g)
        BY <2>1, <2>2, <4>1
      <4>3. cut' = {}
        BY <2>3, <4>1, <4>2, Zenon
      <4> QED
        BY <4>1, <4>3
    <3> QED
      BY <3>1, <3>2
  <2> QED
    BY <2>5, <2>6, <2>7
<1>5. ASSUME NEW t \in Threads, Register(t) PROVE FindInv'
  BY <1>5 DEF Register
<1>6. ASSUME NEW t \in Threads, CancelDo(t) PROVE FindInv'
  BY <1>6 DEF CancelDo
<1>7. ASSUME NEW r \in reg, Trigger(r) PROVE FindInv'
  BY <1>7 DEF Trigger
<1>8. CASE UNCHANGED vars
  BY <1>8 DEF vars
<1> QED
  BY <1>1, <1>2, <1>3, <1>4, <1>5, <1>6, <1>7, <1>8 DEF Next, Step

\* cancelAll and cancelEvent find every registered context whose entry no resize
\* has dropped, and a resize drops entries only after two threads were between
\* the test of the size and the resize at the same time.
THEOREM CancelFindsCorrect == Spec => []CancelFinds
<1>1. FindInv => CancelFinds
  BY DEF FindInv, GrowerInv, RegInv, CancelFinds
<1> QED
  BY <1>1, FindInit, FindStep, PTL DEF Spec

(***************************************************************************)
(* FdFlags: the descriptors as the hooks know them.                        *)
(***************************************************************************)

FcKernType == [born : Nat, nb : BOOLEAN]
FcCtxType == [born : Nat, user : BOOLEAN, sys : BOOLEAN, time : Int]
FcWantType == [user : BOOLEAN, time : Int]
FcCallType == [op : {"made", "del", "close"}, fd : FcFds]

FcTypeOK ==
    /\ fcKern \in [FcFds -> FcKernType]
    /\ fcCtx \in [FcFds -> FcCtxType]
    /\ fcWant \in [FcFds -> FcWantType]
    /\ fcAt \in [FcThreads -> {FcIdle} \cup FcCallType]
    /\ fcBorn \in Nat
    /\ fcMade \subseteq 1 .. fcBorn
    /\ \A n \in FcFds : fcKern[n].born <= fcBorn

\* A thread in socket(), accept() or close() has a descriptor that is open, and has
\* it alone; one that socket() or accept() has just opened is not listed yet, and
\* its user has asked for nothing.
FcCallInv ==
    /\ \A t \in FcThreads : fcAt[t] # FcIdle => fcKern[fcAt[t].fd].born # 0
    /\ \A t, u \in FcThreads :
          fcAt[t] # FcIdle /\ fcAt[u] # FcIdle /\ fcAt[t].fd = fcAt[u].fd => t = u
    /\ \A t \in FcThreads : fcAt[t].op = "made" =>
          /\ fcKern[fcAt[t].fd].born \in fcMade
          /\ fcWant[fcAt[t].fd] = FcUnasked

\* What FcExact says of one descriptor, and that the flag of FdCtx which fcntl()
\* gives back to the kernel is set.
FcFine(n) ==
    FcFree(n) /\ fcKern[n].born \notin fcOdd =>
        /\ FcGetFlags(n) = fcWant[n].user
        /\ IF fcKern[n].born \in fcMade
           THEN fcCtx[n].born = fcKern[n].born /\ fcKern[n].nb /\ fcCtx[n].sys
           ELSE fcCtx[n].born = 0

FcFineAll == \A n \in FcFds : FcFine(n)

FcInv == FcTypeOK /\ FcCallInv /\ FcFineAll

\* The initial values have their types.
LEMMA FcTypeInit == FcInit => FcTypeOK
  BY DEF FcInit, FcTypeOK, FcNone, FcUnasked, FcKernType, FcCtxType, FcWantType

\* Every step keeps the types.
LEMMA FcTypeStep == FcTypeOK /\ [FcNext]_fcVars => FcTypeOK'
<1> SUFFICES ASSUME FcTypeOK, [FcNext]_fcVars PROVE FcTypeOK'
  OBVIOUS
<1> USE FdFlagsAssumption DEF FcTypeOK, FcUnasked, FcNone, FcKernType, FcCtxType, FcWantType, FcCallType
<1>1. ASSUME NEW t \in FcThreads, FcSocket(t) PROVE FcTypeOK'
  BY <1>1 DEF FcSocket, FcOpens
<1>2. ASSUME NEW t \in FcThreads, FcAccept(t) PROVE FcTypeOK'
  BY <1>2 DEF FcAccept, FcOpens
<1>3. ASSUME NEW t \in FcThreads, FcList(t) PROVE FcTypeOK'
  <2>0. fcAt[t] \in FcCallType /\ fcAt[t].fd \in FcFds
    BY <1>3 DEF FcList, FcIdle
  <2>1. PICK n \in FcFds : n = fcAt[t].fd
    BY <2>0, Zenon
  <2>2. /\ fcAt[t].op = "made" /\ fcAt' = [fcAt EXCEPT ![t] = FcIdle]
        /\ fcWant' = fcWant /\ fcMade' = fcMade /\ fcBorn' = fcBorn
    BY <1>3 DEF FcList
  <2>3. CASE fcCtx[n].born # 0
    <3>1. fcOdd' = fcOdd \cup {fcKern[n].born} /\ fcCtx' = fcCtx /\ fcKern' = fcKern
      BY <1>3, <2>1, <2>3 DEF FcList
    <3> QED
      BY <2>0, <2>1, <2>2, <2>3, <3>1
  <2>4. CASE fcCtx[n].born = 0
    <3>1. /\ fcOdd' = fcOdd
          /\ fcCtx' = [fcCtx EXCEPT ![n] = [born |-> fcKern[n].born, user |-> FALSE, sys |-> TRUE, time |-> -1]]
          /\ fcKern' = [fcKern EXCEPT ![n] = [born |-> fcKern[n].born, nb |-> TRUE]]
      BY <1>3, <2>1, <2>4 DEF FcList
    <3> QED
      BY <2>0, <2>1, <2>2, <2>4, <3>1
  <2> QED
    BY <2>3, <2>4
<1>4. ASSUME NEW t \in FcThreads, FcClose(t) PROVE FcTypeOK'
  BY <1>4 DEF FcClose
<1>5. ASSUME NEW t \in FcThreads, FcDel(t) PROVE FcTypeOK'
  <2>0. fcAt[t] \in FcCallType /\ fcAt[t].fd \in FcFds
    BY <1>5 DEF FcDel, FcIdle
  <2>1. PICK n \in FcFds : n = fcAt[t].fd
    BY <2>0, Zenon
  <2>2. fcWant' = fcWant /\ fcMade' = fcMade /\ fcOdd' = fcOdd /\ fcBorn' = fcBorn
    BY <1>5 DEF FcDel
  <2>3. CASE fcAt[t].op = "del"
    <3>1. /\ fcCtx' = [fcCtx EXCEPT ![n] = FcNone] /\ fcKern' = fcKern
          /\ fcAt' = [fcAt EXCEPT ![t] = [op |-> "close", fd |-> n]]
      BY <1>5, <2>1, <2>3 DEF FcDel
    <3> QED
      BY <2>0, <2>1, <2>2, <2>3, <3>1
  <2>4. CASE fcAt[t].op = "close"
    <3>1. /\ fcKern' = [fcKern EXCEPT ![n] = [born |-> 0, nb |-> FALSE]]
          /\ fcAt' = [fcAt EXCEPT ![t] = FcIdle] /\ fcCtx' = fcCtx
      BY <1>5, <2>1, <2>4 DEF FcDel, FcKernelCloses
    <3> QED
      BY <2>0, <2>1, <2>2, <2>4, <3>1
  <2> QED
    BY <1>5, <2>3, <2>4 DEF FcDel
<1>6. ASSUME NEW t \in FcThreads, NEW n \in FcFds, NEW v \in BOOLEAN, FcSetFlags(t, n, v) PROVE FcTypeOK'
  BY <1>6 DEF FcSetFlags, FcChange
<1>7. ASSUME NEW t \in FcThreads, NEW n \in FcFds, NEW v \in BOOLEAN, FcIoctl(t, n, v) PROVE FcTypeOK'
  BY <1>7 DEF FcIoctl, FcChange
<1>8. ASSUME NEW t \in FcThreads, NEW n \in FcFds, NEW v \in FcTimes, FcTimeout(t, n, v) PROVE FcTypeOK'
  BY <1>8 DEF FcTimeout, FcChange
<1>9. CASE UNCHANGED fcVars
  BY <1>9 DEF fcVars
<1> HIDE DEF FcTypeOK, FcCallInv
<1> QED
  BY <1>1, <1>2, <1>3, <1>4, <1>5, <1>6, <1>7, <1>8, <1>9 DEF FcNext

\* Every step keeps the calls apart.
LEMMA FcCallStep == FcTypeOK /\ FcCallInv /\ [FcNext]_fcVars => FcCallInv'
<1> SUFFICES ASSUME FcTypeOK, FcCallInv, [FcNext]_fcVars PROVE FcCallInv'
  OBVIOUS
<1> USE FdFlagsAssumption DEF FcTypeOK, FcCallInv, FcFree, FcIdle, FcUnasked, FcNone, FcKernType, FcCtxType, FcWantType, FcCallType
<1>1. ASSUME NEW t \in FcThreads, FcSocket(t) PROVE FcCallInv'
  BY <1>1 DEF FcSocket, FcOpens
<1>2. ASSUME NEW t \in FcThreads, FcAccept(t) PROVE FcCallInv'
  BY <1>2 DEF FcAccept, FcOpens
<1>3. ASSUME NEW t \in FcThreads, FcList(t) PROVE FcCallInv'
  <2>0. fcAt[t] \in FcCallType /\ fcAt[t].fd \in FcFds
    BY <1>3 DEF FcList, FcIdle
  <2>1. PICK n \in FcFds : n = fcAt[t].fd
    BY <2>0, Zenon
  <2>2. /\ fcAt[t].op = "made" /\ fcAt' = [fcAt EXCEPT ![t] = FcIdle]
        /\ fcWant' = fcWant /\ fcMade' = fcMade /\ fcBorn' = fcBorn
    BY <1>3 DEF FcList
  <2>3. CASE fcCtx[n].born # 0
    <3>1. fcOdd' = fcOdd \cup {fcKern[n].born} /\ fcCtx' = fcCtx /\ fcKern' = fcKern
      BY <1>3, <2>1, <2>3 DEF FcList
    <3> QED
      BY <2>0, <2>1, <2>2, <2>3, <3>1
  <2>4. CASE fcCtx[n].born = 0
    <3>1. /\ fcOdd' = fcOdd
          /\ fcCtx' = [fcCtx EXCEPT ![n] = [born |-> fcKern[n].born, user |-> FALSE, sys |-> TRUE, time |-> -1]]
          /\ fcKern' = [fcKern EXCEPT ![n] = [born |-> fcKern[n].born, nb |-> TRUE]]
      BY <1>3, <2>1, <2>4 DEF FcList
    <3> QED
      BY <2>0, <2>1, <2>2, <2>4, <3>1
  <2> QED
    BY <2>3, <2>4
<1>4. ASSUME NEW t \in FcThreads, FcClose(t) PROVE FcCallInv'
  BY <1>4 DEF FcClose
<1>5. ASSUME NEW t \in FcThreads, FcDel(t) PROVE FcCallInv'
  <2>0. fcAt[t] \in FcCallType /\ fcAt[t].fd \in FcFds
    BY <1>5 DEF FcDel, FcIdle
  <2>1. PICK n \in FcFds : n = fcAt[t].fd
    BY <2>0, Zenon
  <2>2. fcWant' = fcWant /\ fcMade' = fcMade /\ fcOdd' = fcOdd /\ fcBorn' = fcBorn
    BY <1>5 DEF FcDel
  <2>3. CASE fcAt[t].op = "del"
    <3>1. /\ fcCtx' = [fcCtx EXCEPT ![n] = FcNone] /\ fcKern' = fcKern
          /\ fcAt' = [fcAt EXCEPT ![t] = [op |-> "close", fd |-> n]]
      BY <1>5, <2>1, <2>3 DEF FcDel
    <3> QED
      BY <2>0, <2>1, <2>2, <2>3, <3>1
  <2>4. CASE fcAt[t].op = "close"
    <3>1. /\ fcKern' = [fcKern EXCEPT ![n] = [born |-> 0, nb |-> FALSE]]
          /\ fcAt' = [fcAt EXCEPT ![t] = FcIdle] /\ fcCtx' = fcCtx
      BY <1>5, <2>1, <2>4 DEF FcDel, FcKernelCloses
    <3> QED
      BY <2>0, <2>1, <2>2, <2>4, <3>1
  <2> QED
    BY <1>5, <2>3, <2>4 DEF FcDel
<1>6. ASSUME NEW t \in FcThreads, NEW n \in FcFds, NEW v \in BOOLEAN, FcSetFlags(t, n, v) PROVE FcCallInv'
  <2>1. \A m \in FcFds : fcKern'[m].born = fcKern[m].born /\ (m # n => fcWant'[m] = fcWant[m])
    <3>1. CASE fcCtx[n].born # 0
      BY <1>6, <3>1 DEF FcSetFlags, FcChange
    <3>2. CASE fcCtx[n].born = 0
      BY <1>6, <3>2 DEF FcSetFlags, FcChange
    <3> QED
      BY <3>1, <3>2
  <2>2. fcAt' = fcAt /\ fcMade' = fcMade /\ FcFree(n)
    BY <1>6 DEF FcSetFlags, FcChange
  <2>3. \A u \in FcThreads : fcAt[u] # FcIdle => fcAt[u] \in FcCallType /\ fcAt[u].fd \in FcFds /\ fcAt[u].fd # n
    BY <2>2
  <2>4. ASSUME NEW u \in FcThreads PROVE fcAt'[u] # FcIdle => fcKern'[fcAt'[u].fd].born # 0
    BY <2>1, <2>2, <2>3
  <2>5. ASSUME NEW u \in FcThreads, fcAt'[u].op = "made"
        PROVE  fcKern'[fcAt'[u].fd].born \in fcMade' /\ fcWant'[fcAt'[u].fd] = FcUnasked
    <3>1. fcAt[u] # FcIdle /\ fcAt[u].op = "made"
      BY <2>2, <2>5
    <3>2. PICK m \in FcFds : m = fcAt[u].fd /\ m # n
      BY <2>3, <3>1
    <3>3. fcKern[m].born \in fcMade /\ fcWant[m] = FcUnasked
      BY <3>1, <3>2
    <3> QED
      BY <2>1, <2>2, <3>2, <3>3
  <2>6. \A t1, u \in FcThreads :
          fcAt'[t1] # FcIdle /\ fcAt'[u] # FcIdle /\ fcAt'[t1].fd = fcAt'[u].fd => t1 = u
    BY <2>2
  <2> QED
    BY <2>4, <2>5, <2>6
<1>7. ASSUME NEW t \in FcThreads, NEW n \in FcFds, NEW v \in BOOLEAN, FcIoctl(t, n, v) PROVE FcCallInv'
  BY <1>7 DEF FcIoctl, FcChange
<1>8. ASSUME NEW t \in FcThreads, NEW n \in FcFds, NEW v \in FcTimes, FcTimeout(t, n, v) PROVE FcCallInv'
  BY <1>8 DEF FcTimeout, FcChange
<1>9. CASE UNCHANGED fcVars
  BY <1>9 DEF fcVars
<1> HIDE DEF FcTypeOK, FcCallInv
<1> QED
  BY <1>1, <1>2, <1>3, <1>4, <1>5, <1>6, <1>7, <1>8, <1>9 DEF FcNext

\* Every step keeps what FdCtx and the kernel have of a socket in use.
LEMMA FcFineStep == FcInv /\ [FcNext]_fcVars => FcFineAll'
<1> SUFFICES ASSUME FcInv, [FcNext]_fcVars PROVE FcFineAll'
  OBVIOUS
<1> USE FdFlagsAssumption DEF FcInv, FcTypeOK, FcCallInv, FcFine, FcFineAll, FcGetFlags, FcFree, FcIdle, FcUnasked, FcNone, FcKernType, FcCtxType, FcWantType, FcCallType
<1>1. ASSUME NEW t \in FcThreads, FcSocket(t) PROVE FcFineAll'
  <2>1. PICK n \in FcFds :
          /\ fcKern[n].born = 0
          /\ fcKern' = [fcKern EXCEPT ![n] = [born |-> fcBorn + 1, nb |-> FALSE]]
          /\ fcWant' = [fcWant EXCEPT ![n] = FcUnasked]
          /\ fcAt' = [fcAt EXCEPT ![t] = IF t \in FcHooked THEN [op |-> "made", fd |-> n] ELSE FcIdle]
          /\ fcOdd' = IF t \in FcHooked \/ fcCtx[n].born = 0 THEN fcOdd ELSE fcOdd \cup {fcBorn + 1}
    BY <1>1 DEF FcSocket, FcOpens
  <2>2. /\ fcAt[t] = FcIdle /\ fcCtx' = fcCtx
        /\ fcMade' = IF t \in FcHooked THEN fcMade \cup {fcBorn + 1} ELSE fcMade
    BY <1>1 DEF FcSocket, FcOpens
  <2>3. ASSUME NEW m \in FcFds, m # n PROVE FcFine(m)'
    <3>1. fcKern'[m] = fcKern[m] /\ fcWant'[m] = fcWant[m] /\ fcCtx'[m] = fcCtx[m]
      BY <2>1, <2>2, <2>3
    <3>2. FcFree(m)' => FcFree(m)
      BY <2>1, <2>2, <3>1
    <3>3. fcKern[m].born \in fcOdd => fcKern[m].born \in fcOdd'
      BY <2>1
    <3>4. fcKern[m].born \in fcMade' <=> fcKern[m].born \in fcMade
      BY <2>2
    <3> HIDE DEF FcFree, FcTypeOK, FcCallInv
    <3> QED
      BY <3>1, <3>2, <3>3, <3>4
  <2>4. FcFine(n)'
    <3>1. /\ fcKern'[n].born = fcBorn + 1 /\ fcKern'[n].nb = FALSE
          /\ fcWant'[n].user = FALSE /\ fcCtx'[n] = fcCtx[n]
      BY <2>1, <2>2
    <3>2. t \in FcHooked => ~ FcFree(n)'
      BY <2>1
    <3>3. ~ t \in FcHooked => fcBorn + 1 \notin fcMade'
      BY <2>2
    <3>4. ~ t \in FcHooked /\ fcBorn + 1 \notin fcOdd' => fcCtx[n].born = 0
      BY <2>1
    <3> HIDE DEF FcFree, FcTypeOK, FcCallInv
    <3> QED
      BY <3>1, <3>2, <3>3, <3>4
  <2> QED
    BY <2>3, <2>4
<1>2. ASSUME NEW t \in FcThreads, FcAccept(t) PROVE FcFineAll'
  <2>1. PICK n \in FcFds :
          /\ fcKern[n].born = 0
          /\ fcKern' = [fcKern EXCEPT ![n] = [born |-> fcBorn + 1, nb |-> FALSE]]
          /\ fcWant' = [fcWant EXCEPT ![n] = FcUnasked]
          /\ fcAt' = [fcAt EXCEPT ![t] = [op |-> "made", fd |-> n]]
          /\ fcOdd' = fcOdd
    BY <1>2 DEF FcAccept, FcOpens
  <2>2. /\ fcAt[t] = FcIdle /\ fcCtx' = fcCtx
        /\ fcMade' = fcMade \cup {fcBorn + 1}
    BY <1>2 DEF FcAccept, FcOpens
  <2>3. ASSUME NEW m \in FcFds, m # n PROVE FcFine(m)'
    <3>1. fcKern'[m] = fcKern[m] /\ fcWant'[m] = fcWant[m] /\ fcCtx'[m] = fcCtx[m]
      BY <2>1, <2>2, <2>3
    <3>2. FcFree(m)' => FcFree(m)
      BY <2>1, <2>2, <3>1
    <3>3. fcKern[m].born \in fcOdd => fcKern[m].born \in fcOdd'
      BY <2>1
    <3>4. fcKern[m].born \in fcMade' <=> fcKern[m].born \in fcMade
      BY <2>2
    <3> HIDE DEF FcFree, FcTypeOK, FcCallInv
    <3> QED
      BY <3>1, <3>2, <3>3, <3>4
  <2>4. FcFine(n)'
    BY <2>1
  <2> QED
    BY <2>3, <2>4
<1>3. ASSUME NEW t \in FcThreads, FcList(t) PROVE FcFineAll'
  <2>0. fcAt[t] \in FcCallType /\ fcAt[t].fd \in FcFds
    BY <1>3 DEF FcList, FcIdle
  <2>1. PICK n \in FcFds : n = fcAt[t].fd
    BY <2>0, Zenon
  <2>2. /\ fcAt[t].op = "made" /\ fcAt' = [fcAt EXCEPT ![t] = FcIdle]
        /\ fcWant' = fcWant /\ fcMade' = fcMade /\ fcBorn' = fcBorn
    BY <1>3 DEF FcList
  <2>3. CASE fcCtx[n].born # 0
    <3>1. fcOdd' = fcOdd \cup {fcKern[n].born} /\ fcCtx' = fcCtx /\ fcKern' = fcKern
      BY <1>3, <2>1, <2>3 DEF FcList
    <3>2. ASSUME NEW m \in FcFds PROVE FcFine(m)'
      <4>1. CASE m = n
        BY <2>0, <2>1, <2>2, <2>3, <3>1, <4>1
      <4>2. CASE m # n
        <5>1. fcKern'[m] = fcKern[m] /\ fcWant'[m] = fcWant[m] /\ fcCtx'[m] = fcCtx[m]
          BY <2>1, <2>2, <3>1, <4>2
        <5>2. FcFree(m)' => FcFree(m)
          BY <2>0, <2>1, <2>2, <3>1, <4>2, <5>1
        <5>3. fcOdd \subseteq fcOdd' /\ fcMade' = fcMade
          BY <2>2, <3>1
        <5> HIDE DEF FcFree, FcTypeOK, FcCallInv
        <5> QED
          BY <5>1, <5>2, <5>3
      <4> QED
        BY <4>1, <4>2
    <3> QED
      BY <3>2
  <2>4. CASE fcCtx[n].born = 0
    <3>1. /\ fcOdd' = fcOdd
          /\ fcCtx' = [fcCtx EXCEPT ![n] = [born |-> fcKern[n].born, user |-> FALSE, sys |-> TRUE, time |-> -1]]
          /\ fcKern' = [fcKern EXCEPT ![n] = [born |-> fcKern[n].born, nb |-> TRUE]]
      BY <1>3, <2>1, <2>4 DEF FcList
    <3>2. ASSUME NEW m \in FcFds PROVE FcFine(m)'
      <4>1. CASE m = n
        <5>1. fcWant[n] = FcUnasked
          BY <2>1, <2>2
        <5>2. fcWant'[n].user = FALSE /\ fcWant'[n].time = -1 /\ fcKern'[n].born \in fcMade'
          BY <2>0, <2>1, <2>2, <3>1, <5>1
        <5>3. /\ fcKern'[n].born = fcKern[n].born /\ fcKern'[n].nb = TRUE
              /\ fcCtx'[n].born = fcKern[n].born /\ fcCtx'[n].user = FALSE
              /\ fcCtx'[n].sys = TRUE /\ fcCtx'[n].time = -1
          BY <3>1
        <5>4. fcKern[n].born # 0
          BY <2>0, <2>1
        <5> HIDE DEF FcFree, FcTypeOK, FcCallInv
        <5> QED
          BY <4>1, <5>2, <5>3, <5>4
      <4>2. CASE m # n
        <5>1. fcKern'[m] = fcKern[m] /\ fcWant'[m] = fcWant[m] /\ fcCtx'[m] = fcCtx[m]
          BY <2>1, <2>2, <3>1, <4>2
        <5>2. FcFree(m)' => FcFree(m)
          BY <2>0, <2>1, <2>2, <3>1, <4>2, <5>1
        <5>3. fcOdd \subseteq fcOdd' /\ fcMade' = fcMade
          BY <2>2, <3>1
        <5> HIDE DEF FcFree, FcTypeOK, FcCallInv
        <5> QED
          BY <5>1, <5>2, <5>3
      <4> QED
        BY <4>1, <4>2
    <3> QED
      BY <3>2
  <2> QED
    BY <2>3, <2>4
<1>4. ASSUME NEW t \in FcThreads, FcClose(t) PROVE FcFineAll'
  <2>1. ASSUME NEW m \in FcFds PROVE FcFine(m)'
    <3>1. FcFree(m)' => FcFree(m)
      BY <1>4 DEF FcClose
    <3>2. UNCHANGED <<fcKern, fcCtx, fcWant, fcMade, fcOdd>>
      BY <1>4 DEF FcClose
    <3> HIDE DEF FcFree, FcTypeOK, FcCallInv
    <3> QED
      BY <3>1, <3>2
  <2> QED
    BY <2>1
<1>5. ASSUME NEW t \in FcThreads, FcDel(t) PROVE FcFineAll'
  <2>0. fcAt[t] \in FcCallType /\ fcAt[t].fd \in FcFds
    BY <1>5 DEF FcDel, FcIdle
  <2>1. PICK n \in FcFds : n = fcAt[t].fd
    BY <2>0, Zenon
  <2>2. fcWant' = fcWant /\ fcMade' = fcMade /\ fcOdd' = fcOdd /\ fcBorn' = fcBorn
    BY <1>5 DEF FcDel
  <2>3. CASE fcAt[t].op = "del"
    <3>1. /\ fcCtx' = [fcCtx EXCEPT ![n] = FcNone] /\ fcKern' = fcKern
          /\ fcAt' = [fcAt EXCEPT ![t] = [op |-> "close", fd |-> n]]
      BY <1>5, <2>1, <2>3 DEF FcDel
    <3>2. ASSUME NEW m \in FcFds PROVE FcFine(m)'
      <4>1. CASE m = n
        BY <2>0, <2>1, <2>2, <2>3, <3>1, <4>1
      <4>2. CASE m # n
        <5>1. fcKern'[m] = fcKern[m] /\ fcWant'[m] = fcWant[m] /\ fcCtx'[m] = fcCtx[m]
          BY <2>1, <2>2, <3>1, <4>2
        <5>2. FcFree(m)' => FcFree(m)
          BY <2>0, <2>1, <2>2, <3>1, <4>2, <5>1
        <5>3. fcOdd \subseteq fcOdd' /\ fcMade' = fcMade
          BY <2>2, <3>1
        <5> HIDE DEF FcFree, FcTypeOK, FcCallInv
        <5> QED
          BY <5>1, <5>2, <5>3
      <4> QED
        BY <4>1, <4>2
    <3> QED
      BY <3>2
  <2>4. CASE fcAt[t].op = "close"
    <3>1. /\ fcKern' = [fcKern EXCEPT ![n] = [born |-> 0, nb |-> FALSE]]
          /\ fcAt' = [fcAt EXCEPT ![t] = FcIdle] /\ fcCtx' = fcCtx
      BY <1>5, <2>1, <2>4 DEF FcDel, FcKernelCloses
    <3>2. ASSUME NEW m \in FcFds PROVE FcFine(m)'
      <4>1. CASE m = n
        BY <2>0, <2>1, <2>2, <2>4, <3>1, <4>1
      <4>2. CASE m # n
        <5>1. fcKern'[m] = fcKern[m] /\ fcWant'[m] = fcWant[m] /\ fcCtx'[m] = fcCtx[m]
          BY <2>1, <2>2, <3>1, <4>2
        <5>2. FcFree(m)' => FcFree(m)
          BY <2>0, <2>1, <2>2, <3>1, <4>2, <5>1
        <5>3. fcOdd \subseteq fcOdd' /\ fcMade' = fcMade
          BY <2>2, <3>1
        <5> HIDE DEF FcFree, FcTypeOK, FcCallInv
        <5> QED
          BY <5>1, <5>2, <5>3
      <4> QED
        BY <4>1, <4>2
    <3> QED
      BY <3>2
  <2> QED
    BY <1>5, <2>3, <2>4 DEF FcDel
<1>6. ASSUME NEW t \in FcThreads, NEW n \in FcFds, NEW v \in BOOLEAN, FcSetFlags(t, n, v) PROVE FcFineAll'
  BY <1>6 DEF FcSetFlags, FcChange
<1>7. ASSUME NEW t \in FcThreads, NEW n \in FcFds, NEW v \in BOOLEAN, FcIoctl(t, n, v) PROVE FcFineAll'
  BY <1>7 DEF FcIoctl, FcChange
<1>8. ASSUME NEW t \in FcThreads, NEW n \in FcFds, NEW v \in FcTimes, FcTimeout(t, n, v) PROVE FcFineAll'
  BY <1>8 DEF FcTimeout, FcChange
<1>9. CASE UNCHANGED fcVars
  BY <1>9 DEF fcVars
<1> HIDE DEF FcInv, FcFineAll
<1> QED
  BY <1>1, <1>2, <1>3, <1>4, <1>5, <1>6, <1>7, <1>8, <1>9 DEF FcNext

(***************************************************************************)
(* A socket that is in use shows the flags its user set and, if the hooks  *)
(* know it, has a context of its own and does not block the thread,        *)
(* whatever number it was given and whichever threads open, list and close *)
(* others, except where FcExact excuses it.                                *)
(***************************************************************************)
THEOREM FcExactHolds == FcSpec => []FcExact
<1>1. FcInit => FcInv
  BY FcTypeInit DEF FcInv, FcInit, FcCallInv, FcFineAll, FcFine, FcFree, FcIdle
<1>2. FcInv /\ [FcNext]_fcVars => FcInv'
  BY FcTypeStep, FcCallStep, FcFineStep DEF FcInv
<1>3. FcInv => FcExact
  BY DEF FcInv, FcFineAll, FcFine, FcExact
<1> QED
  BY <1>1, <1>2, <1>3, PTL DEF FcSpec

-----------------------------------------------------------------------------
(***************************************************************************)
(* Lists: what is in one, and what is in it at most once.                  *)
(***************************************************************************)

SeqHas(c, s) == \E i \in 1 .. Len(s) : s[i] = c
SeqOnce(K, s) == \A i, j \in 1 .. Len(s) : s[i] \in K /\ s[i] = s[j] => i = j

\* Putting an element at the end.
LEMMA SeqHasAppend ==
  ASSUME NEW S, NEW K, NEW s \in Seq(S), NEW c \in S
  PROVE  /\ Append(s, c) \in Seq(S)
         /\ \A d : SeqHas(d, Append(s, c)) <=> SeqHas(d, s) \/ d = c
         /\ SeqOnce(K, s) /\ (c \in K => ~SeqHas(c, s)) => SeqOnce(K, Append(s, c))
<1>1. /\ Append(s, c) \in Seq(S) /\ Len(Append(s, c)) = Len(s) + 1 /\ Len(s) \in Nat
      /\ \A i \in 1 .. Len(s) : Append(s, c)[i] = s[i]
      /\ Append(s, c)[Len(s) + 1] = c
  OBVIOUS
<1>2. \A i \in 1 .. Len(s) + 1 : i \in 1 .. Len(s) \/ i = Len(s) + 1
  BY <1>1
<1>3. Len(s) + 1 \in 1 .. Len(s) + 1 /\ \A i \in 1 .. Len(s) : i \in 1 .. Len(s) + 1
  BY <1>1
<1>4. ASSUME NEW d PROVE SeqHas(d, Append(s, c)) <=> SeqHas(d, s) \/ d = c
  BY <1>1, <1>2, <1>3 DEF SeqHas
<1>5. ASSUME SeqOnce(K, s), c \in K => ~SeqHas(c, s) PROVE SeqOnce(K, Append(s, c))
  BY <1>1, <1>2, <1>5 DEF SeqOnce, SeqHas
<1> QED
  BY <1>1, <1>4, <1>5

\* Taking the first element.
LEMMA SeqHasTail ==
  ASSUME NEW S, NEW K, NEW s \in Seq(S), s # <<>>
  PROVE  /\ Tail(s) \in Seq(S) /\ Head(s) \in S /\ SeqHas(Head(s), s)
         /\ \A d : SeqHas(d, Tail(s)) => SeqHas(d, s)
         /\ SeqOnce(K, s) => SeqOnce(K, Tail(s))
         /\ SeqOnce(K, s) /\ Head(s) \in K => ~SeqHas(Head(s), Tail(s))
<1>1. /\ Tail(s) \in Seq(S) /\ Len(s) \in Nat \ {0} /\ Len(Tail(s)) = Len(s) - 1
      /\ \A i \in 1 .. Len(s) - 1 : Tail(s)[i] = s[i + 1]
      /\ Head(s) = s[1] /\ Head(s) \in S
  OBVIOUS
<1>2. \A i \in 1 .. Len(s) - 1 : i + 1 \in 1 .. Len(s) /\ i + 1 # 1
  BY <1>1
<1>3. 1 \in 1 .. Len(s)
  BY <1>1
<1>4. SeqHas(Head(s), s)
  BY <1>1, <1>3 DEF SeqHas
<1>5. ASSUME NEW d, SeqHas(d, Tail(s)) PROVE SeqHas(d, s)
  BY <1>1, <1>2, <1>5 DEF SeqHas
<1>6. ASSUME SeqOnce(K, s) PROVE SeqOnce(K, Tail(s))
  BY <1>1, <1>2, <1>6 DEF SeqOnce
<1>7. ASSUME SeqOnce(K, s), Head(s) \in K PROVE ~SeqHas(Head(s), Tail(s))
  BY <1>1, <1>2, <1>3, <1>7 DEF SeqOnce, SeqHas
<1> QED
  BY <1>1, <1>4, <1>5, <1>6, <1>7

\* The empty list.
LEMMA SeqHasEmpty == \A K : SeqOnce(K, <<>>) /\ \A d : ~SeqHas(d, <<>>)
  BY DEF SeqOnce, SeqHas

\* Taking a part of a finite set away takes its number away.
LEMMA CardSplit ==
  ASSUME NEW A, NEW D, IsFiniteSet(A), D \subseteq A
  PROVE  /\ IsFiniteSet(A \ D) /\ IsFiniteSet(D)
         /\ Cardinality(A) = Cardinality(A \ D) + Cardinality(D)
<1>1. IsFiniteSet(A \ D) /\ IsFiniteSet(D)
  BY FS_Subset
<1>2. A = (A \ D) \cup D /\ (A \ D) \cap D = {}
  OBVIOUS
<1>3. Cardinality((A \ D) \cup D)
        = Cardinality(A \ D) + Cardinality(D) - Cardinality((A \ D) \cap D)
  BY <1>1, FS_Union
<1>4. Cardinality(A \ D) \in Nat /\ Cardinality(D) \in Nat /\ Cardinality((A \ D) \cap D) = 0
  BY <1>1, <1>2, FS_CardinalityType, FS_EmptySet
<1>5. Cardinality(A) = Cardinality((A \ D) \cup D)
  BY <1>2, Zenon
<1>6. Cardinality(A) = Cardinality(A \ D) + Cardinality(D) - 0
  BY <1>3, <1>4, <1>5, Zenon
<1> QED
  BY <1>1, <1>4, <1>6

-----------------------------------------------------------------------------
(***************************************************************************)
(* FoxRedis: the calls, and the FCtx of each on its coroutine's stack.     *)
(***************************************************************************)

\* What the libevent thread may hold of a call.  Before the command is issued it is
\* in the list or among the callbacks swapped out, then in hiredis' queue; as long
\* as a Ctx has not timed out its coroutine has not been woken, and as long as it
\* has not been woken it has not returned.
FxHeld(c) ==
    /\ fxAt[c] = "out" => fxCtx[c] = "none" /\ ~SeqHas(c, fxQueue) /\ ~SeqHas(c, fxBatch)
    /\ SeqHas(c, fxQueue) \/ SeqHas(c, fxBatch) => fxFiber[c] /\ fxCtx[c] = "none"
    /\ ~(SeqHas(c, fxQueue) /\ SeqHas(c, fxBatch))
    /\ SeqHas(c, fxPending) => fxCtx[c] \in {"armed", "late"}
    /\ fxCtx[c] = "armed" => fxFiber[c]
    /\ fxFiber[c] => fxAt[c] \in {"send", "hold"}
    /\ fxRpy[c] => fxCtx[c] = "gone"

FxHeldInv ==
    /\ SeqOnce(FxCmds, fxQueue) /\ SeqOnce(FxCmds, fxBatch) /\ SeqOnce(FxCmds, fxPending)
    /\ \A c \in FxCmds : FxHeld(c)

FxInv == FxTypeOK /\ FxHeldInv /\ ~fxTouched

\* The initial values have their types.
LEMMA FxTypeInit == FxInit => FxTypeOK
<1> SUFFICES ASSUME FxInit PROVE FxTypeOK
  OBVIOUS
<1>1. fxQueue \in Seq(FxCmds \cup {"pinit", "stop"})
  <2>1. "pinit" \in FxCmds \cup {"pinit", "stop"}
    OBVIOUS
  <2> QED
    BY <2>1 DEF FxInit
<1>2. fxBatch \in Seq(FxCmds \cup {"pinit", "stop"}) /\ fxPending \in Seq(FxCmds)
  BY DEF FxInit
<1>3. fxBytes \in 0 .. FxPipeSize
  BY FxAssumption DEF FxInit
<1> QED
  BY <1>1, <1>2, <1>3 DEF FxInit, FxTypeOK

\* Every step keeps the types.
LEMMA FxTypeStep == FxTypeOK /\ [FxNext]_fxVars => FxTypeOK'
<1> SUFFICES ASSUME FxTypeOK, [FxNext]_fxVars PROVE FxTypeOK'
  OBVIOUS
<1> USE FxAssumption DEF FxTypeOK
<1>1. ASSUME NEW c \in FxCmds, FxCmd(c) PROVE FxTypeOK'
  BY <1>1 DEF FxCmd, fxCallVars, fxThreadVars, fxConnVars
<1>2. ASSUME NEW c \in FxCmds, FxSend(c) PROVE FxTypeOK'
  BY <1>2 DEF FxSend, fxCallVars, fxThreadVars, fxConnVars, FxPoke
<1>3. ASSUME NEW c \in FxCmds, FxResume(c) PROVE FxTypeOK'
  BY <1>3 DEF FxResume, fxCallVars, fxThreadVars, fxConnVars
<1>4. ASSUME NEW c \in FxCmds, FxEventCb(c) PROVE FxTypeOK'
  BY <1>4 DEF FxEventCb, fxCallVars, fxThreadVars, fxConnVars, FxWake
<1>5. CASE FxStop
  BY <1>5 DEF FxStop, fxCallVars, fxThreadVars, fxConnVars, FxPoke
<1>6. CASE FxRecv
  BY <1>6 DEF FxRecv, fxCallVars, fxThreadVars, fxConnVars
<1>7. CASE FxSwap
  BY <1>7 DEF FxSwap, fxCallVars, fxThreadVars, fxConnVars
<1>8. CASE FxRun
  <2> DEFINE h == Head(fxBatch)
  <2>1. /\ Tail(fxBatch) \in Seq(FxCmds \cup {"pinit", "stop"}) /\ h \in FxCmds \cup {"pinit", "stop"}
        /\ <<>> \in Seq(FxCmds \cup {"pinit", "stop"})
    BY <1>8 DEF FxRun
  <2>2. fxBatch' \in Seq(FxCmds \cup {"pinit", "stop"}) /\ fxThread' \in {"poll", "swap", "run", "left"}
    BY <1>8, <2>1 DEF FxRun
  <2>3. UNCHANGED <<fxAt, fxQueue, fxBytes, fxStops>>
    BY <1>8 DEF FxRun
  <2>4. CASE h = "stop"
    BY <1>8, <2>2, <2>3, <2>4 DEF FxRun, fxCallVars, fxConnVars
  <2>5. CASE h = "pinit"
    BY <1>8, <2>2, <2>3, <2>5 DEF FxRun, FxPinit, fxCallVars, fxConnVars
  <2>6. CASE h \in FxCmds
    <3>1. FxPcmd(h)
      BY <1>8, <2>6 DEF FxRun
    <3> HIDE DEF h
    <3>2. CASE fxStatus = "UNCONNECTED"
      <4>1. fxFiber' \in [FxCmds -> BOOLEAN] /\ fxRpy' \in [FxCmds -> BOOLEAN] /\ fxTouched' \in BOOLEAN
        BY <3>1, <3>2 DEF FxPcmd, FxWake
      <4>2. /\ fxStatus' \in {"UNCONNECTED", "CONNECTING", "CONNECTED"} /\ fxConnects' \in Nat
            /\ UNCHANGED <<fxCtx, fxPending, fxDown>>
        BY <3>1, <3>2 DEF FxPcmd, FxPinit, fxConnVars
      <4> QED
        BY <2>2, <2>3, <4>1, <4>2
    <3>3. CASE fxStatus # "UNCONNECTED"
      <4>1. /\ fxCtx' = [fxCtx EXCEPT ![h] = "armed"] /\ fxPending' = Append(fxPending, h)
            /\ UNCHANGED <<fxFiber, fxRpy, fxStatus, fxConnects, fxDown>>
        BY <3>1, <3>3 DEF FxPcmd
      <4>2. fxTouched' \in BOOLEAN
        BY <3>1, <3>3 DEF FxPcmd
      <4>3. fxCtx' \in [FxCmds -> {"none", "armed", "late", "gone"}] /\ fxPending' \in Seq(FxCmds)
        BY <2>6, <4>1
      <4> QED
        BY <2>2, <2>3, <4>1, <4>2, <4>3
    <3> QED
      BY <3>2, <3>3
  <2> QED
    BY <2>1, <2>4, <2>5, <2>6
<1>9. CASE FxRunDone
  BY <1>9 DEF FxRunDone, fxCallVars, fxThreadVars, fxConnVars
<1>10. ASSUME NEW ok \in BOOLEAN, FxReply(ok) PROVE FxTypeOK'
  BY <1>10 DEF FxReply, fxCallVars, fxThreadVars, fxConnVars, FxCmdCb, FxWake
<1>11. CASE FxConnected
  BY <1>11 DEF FxConnected, fxCallVars, fxThreadVars, fxConnVars
<1>12. CASE FxLost
  BY <1>12 DEF FxLost, fxCallVars, fxThreadVars, fxConnVars, FxCmdCb, FxWake
<1>13. CASE FxTimeCb
  BY <1>13 DEF FxTimeCb, fxCallVars, fxThreadVars, fxConnVars
<1>14. CASE UNCHANGED fxVars
  BY <1>14 DEF fxVars
<1> HIDE DEF FxTypeOK
<1> QED
  BY <1>1, <1>2, <1>3, <1>4, <1>5, <1>6, <1>7, <1>8, <1>9, <1>10, <1>11, <1>12,
     <1>13, <1>14 DEF FxNext, FxThreadStep

\* Every step keeps what the libevent thread holds of the calls.
LEMMA FxHeldStep == FxInv /\ [FxNext]_fxVars => (FxHeldInv /\ ~fxTouched)'
<1> SUFFICES ASSUME FxInv, [FxNext]_fxVars PROVE (FxHeldInv /\ ~fxTouched)'
  OBVIOUS
<1> USE DEF FxInv, FxTypeOK, FxHeldInv
<1>1. ASSUME NEW c \in FxCmds, FxCmd(c) PROVE (FxHeldInv /\ ~fxTouched)'
  <2>1. /\ fxAt[c] = "out" /\ fxAt' = [fxAt EXCEPT ![c] = "send"]
        /\ fxFiber' = [fxFiber EXCEPT ![c] = TRUE] /\ fxQueue' = Append(fxQueue, c)
        /\ UNCHANGED <<fxRpy, fxCtx, fxBatch, fxPending, fxTouched>>
    BY <1>1 DEF FxCmd, fxConnVars
  <2>2. /\ SeqOnce(FxCmds, fxQueue') /\ \A d : SeqHas(d, fxQueue') <=> SeqHas(d, fxQueue) \/ d = c
    BY <2>1, SeqHasAppend DEF FxHeld
  <2>3. ASSUME NEW d \in FxCmds PROVE FxHeld(d)'
    <3>1. CASE d = c
      BY <2>1, <2>2, <3>1 DEF FxHeld
    <3>2. CASE d # c
      BY <2>1, <2>2, <3>2 DEF FxHeld
    <3> QED
      BY <3>1, <3>2
  <2> QED
    BY <2>1, <2>2, <2>3
<1>2. ASSUME NEW c \in FxCmds, FxSend(c) PROVE (FxHeldInv /\ ~fxTouched)'
  <2>1. /\ fxAt[c] = "send" /\ fxAt' = [fxAt EXCEPT ![c] = "hold"]
        /\ UNCHANGED <<fxQueue, fxBatch, fxPending, fxFiber, fxRpy, fxCtx, fxTouched>>
    BY <1>2 DEF FxSend, fxCallVars, fxConnVars
  <2> QED
    BY <2>1 DEF FxHeld
<1>3. ASSUME NEW c \in FxCmds, FxResume(c) PROVE (FxHeldInv /\ ~fxTouched)'
  <2>1. /\ fxAt[c] = "hold" /\ ~fxFiber[c] /\ fxAt' = [fxAt EXCEPT ![c] = "back"]
        /\ UNCHANGED <<fxQueue, fxBatch, fxPending, fxFiber, fxRpy, fxCtx, fxTouched>>
    BY <1>3 DEF FxResume, fxCallVars, fxThreadVars, fxConnVars
  <2> QED
    BY <2>1 DEF FxHeld
<1>4. ASSUME NEW c \in FxCmds, FxEventCb(c) PROVE (FxHeldInv /\ ~fxTouched)'
  <2>1. /\ fxCtx[c] = "armed" /\ fxCtx' = [fxCtx EXCEPT ![c] = "late"]
        /\ fxTouched' = (fxTouched \/ fxAt[c] = "back")
        /\ fxFiber' = [d \in FxCmds |-> fxFiber[d] /\ d # c]
        /\ \A d \in FxCmds : fxRpy'[d] = fxRpy[d]
        /\ UNCHANGED <<fxAt, fxQueue, fxBatch, fxPending>>
    BY <1>4 DEF FxEventCb, FxWake, fxThreadVars, fxConnVars
  <2>2. fxFiber[c] /\ fxAt[c] # "back"
    BY <2>1 DEF FxHeld
  <2>3. ~fxTouched'
    BY <2>1, <2>2
  <2>4. ASSUME NEW d \in FxCmds PROVE FxHeld(d)'
    <3>1. CASE d = c
      BY <2>1, <2>2, <3>1 DEF FxHeld
    <3>2. CASE d # c
      BY <2>1, <3>2 DEF FxHeld
    <3> QED
      BY <3>1, <3>2
  <2> QED
    BY <2>1, <2>3, <2>4
<1>5. CASE FxStop
  <2>1. /\ fxQueue' = Append(fxQueue, "stop")
        /\ UNCHANGED <<fxAt, fxFiber, fxRpy, fxCtx, fxBatch, fxPending, fxTouched>>
    BY <1>5 DEF FxStop, fxCallVars, fxConnVars
  <2>2. SeqOnce(FxCmds, fxQueue') /\ \A d \in FxCmds : SeqHas(d, fxQueue') <=> SeqHas(d, fxQueue)
    <3>1. "stop" \notin FxCmds /\ "stop" \in FxCmds \cup {"pinit", "stop"}
      BY FxAssumption
    <3> QED
      BY <2>1, <3>1, SeqHasAppend
  <2> QED
    BY <2>1, <2>2 DEF FxHeld
<1>6. CASE FxRecv
  <2>1. UNCHANGED <<fxAt, fxFiber, fxRpy, fxCtx, fxQueue, fxBatch, fxPending, fxTouched>>
    BY <1>6 DEF FxRecv, fxCallVars, fxThreadVars, fxConnVars
  <2> QED
    BY <2>1 DEF FxHeld
<1>7. CASE FxSwap
  <2>1. /\ fxBatch' = fxQueue /\ fxQueue' = <<>>
        /\ UNCHANGED <<fxAt, fxFiber, fxRpy, fxCtx, fxPending, fxTouched>>
    BY <1>7 DEF FxSwap, fxCallVars, fxConnVars
  <2> QED
    BY <2>1, SeqHasEmpty DEF FxHeld
<1>8. CASE FxRun
  <2> DEFINE h == Head(fxBatch)
  <2>1. fxBatch # <<>> /\ fxBatch' = (IF h = "stop" THEN <<>> ELSE Tail(fxBatch)) /\ UNCHANGED <<fxAt, fxQueue>>
    BY <1>8 DEF FxRun
  <2>2. /\ h \in FxCmds \cup {"pinit", "stop"} /\ SeqHas(h, fxBatch)
        /\ \A d : SeqHas(d, fxBatch') => SeqHas(d, fxBatch)
        /\ SeqOnce(FxCmds, fxBatch') /\ (h \in FxCmds => ~SeqHas(h, fxBatch'))
    <3>1. /\ h \in FxCmds \cup {"pinit", "stop"} /\ SeqHas(h, fxBatch) /\ SeqOnce(FxCmds, Tail(fxBatch))
          /\ \A d : SeqHas(d, Tail(fxBatch)) => SeqHas(d, fxBatch)
          /\ h \in FxCmds => ~SeqHas(h, Tail(fxBatch))
      BY <2>1, SeqHasTail, ZenonT(30)
    <3> QED
      BY <2>1, <3>1, SeqHasEmpty
  <2>3. CASE h = "stop" \/ h = "pinit"
    <3>1. UNCHANGED <<fxFiber, fxRpy, fxCtx, fxPending, fxTouched>>
      BY <1>8, <2>3, FxAssumption DEF FxRun, FxPinit, fxCallVars, fxConnVars
    <3> QED
      BY <2>1, <2>2, <3>1 DEF FxHeld
  <2>4. CASE h \in FxCmds
    <3>1. FxPcmd(h)
      BY <1>8, <2>4, FxAssumption DEF FxRun
    <3>2. fxFiber[h] /\ fxCtx[h] = "none" /\ fxAt[h] \in {"send", "hold"} /\ ~SeqHas(h, fxPending) /\ ~SeqHas(h, fxQueue)
      BY <2>2, <2>4 DEF FxHeld
    <3> HIDE DEF h
    <3>3. CASE fxStatus = "UNCONNECTED"
      <4>1. /\ fxTouched' = (fxTouched \/ fxAt[h] = "back")
            /\ fxFiber' = [d \in FxCmds |-> fxFiber[d] /\ d # h]
            /\ \A d \in FxCmds : fxRpy'[d] = fxRpy[d]
            /\ UNCHANGED <<fxCtx, fxPending>>
        BY <3>1, <3>3 DEF FxPcmd, FxPinit, FxWake, fxConnVars
      <4>2. ~fxTouched'
        BY <3>2, <4>1
      <4>3. ASSUME NEW d \in FxCmds PROVE FxHeld(d)'
        <5>1. CASE d = h
          BY <2>1, <2>2, <2>4, <3>2, <4>1, <5>1 DEF FxHeld
        <5>2. CASE d # h
          BY <2>1, <2>2, <4>1, <5>2 DEF FxHeld
        <5> QED
          BY <5>1, <5>2
      <4> QED
        BY <2>1, <2>2, <4>1, <4>2, <4>3
    <3>4. CASE fxStatus # "UNCONNECTED"
      <4>1. /\ fxCtx' = [fxCtx EXCEPT ![h] = "armed"] /\ fxPending' = Append(fxPending, h)
            /\ fxTouched' = (fxTouched \/ fxAt[h] = "back")
            /\ UNCHANGED <<fxFiber, fxRpy>>
        BY <3>1, <3>4 DEF FxPcmd
      <4>2. ~fxTouched'
        BY <3>2, <4>1
      <4>3. SeqOnce(FxCmds, fxPending') /\ \A d : SeqHas(d, fxPending') <=> SeqHas(d, fxPending) \/ d = h
        BY <2>4, <3>2, <4>1, SeqHasAppend
      <4>4. ASSUME NEW d \in FxCmds PROVE FxHeld(d)'
        <5>1. CASE d = h
          BY <2>1, <2>2, <2>4, <3>2, <4>1, <4>3, <5>1 DEF FxHeld
        <5>2. CASE d # h
          BY <2>1, <2>2, <4>1, <4>3, <5>2 DEF FxHeld
        <5> QED
          BY <5>1, <5>2
      <4> QED
        BY <2>1, <2>2, <4>2, <4>3, <4>4
    <3> QED
      BY <3>3, <3>4
  <2> QED
    BY <2>2, <2>3, <2>4
<1>9. CASE FxRunDone
  <2>1. UNCHANGED <<fxAt, fxFiber, fxRpy, fxCtx, fxQueue, fxBatch, fxPending, fxTouched>>
    BY <1>9 DEF FxRunDone, fxCallVars, fxThreadVars, fxConnVars
  <2> QED
    BY <2>1 DEF FxHeld
<1>10. ASSUME NEW ok \in BOOLEAN, FxReply(ok) PROVE (FxHeldInv /\ ~fxTouched)'
  <2>1. PICK h : h = Head(fxPending)
    OBVIOUS
  <2>2. /\ fxPending # <<>> /\ fxPending' = Tail(fxPending) /\ FxCmdCb({h}, ok)
        /\ UNCHANGED <<fxAt, fxQueue, fxBatch>>
    BY <1>10, <2>1 DEF FxReply, fxThreadVars
  <2>3. /\ h \in FxCmds /\ SeqHas(h, fxPending) /\ SeqOnce(FxCmds, fxPending') /\ ~SeqHas(h, fxPending')
        /\ \A d : SeqHas(d, fxPending') => SeqHas(d, fxPending)
    BY <2>1, <2>2, SeqHasTail
  <2> DEFINE W == {d \in {h} : fxCtx[d] # "late"}
  <2>4. /\ fxTouched' = (fxTouched \/ \E d \in W : fxAt[d] = "back")
        /\ fxFiber' = [d \in FxCmds |-> fxFiber[d] /\ d \notin W]
        /\ fxRpy' = [d \in FxCmds |-> fxRpy[d] \/ (ok /\ d \in W /\ fxFiber[d])]
        /\ fxCtx' = [d \in FxCmds |-> IF d \in {h} THEN "gone" ELSE fxCtx[d]]
    BY <2>2 DEF FxCmdCb, FxWake
  <2>5. \A d \in W : fxAt[d] # "back"
    BY <2>3 DEF FxHeld
  <2>6. ~fxTouched'
    BY <2>4, <2>5
  <2>7. ASSUME NEW d \in FxCmds PROVE FxHeld(d)'
    <3>1. CASE d = h
      BY <2>2, <2>3, <2>4, <3>1 DEF FxHeld
    <3>2. CASE d # h
      BY <2>2, <2>3, <2>4, <3>2 DEF FxHeld
    <3> QED
      BY <3>1, <3>2
  <2> QED
    BY <2>2, <2>3, <2>6, <2>7
<1>11. CASE FxConnected
  <2>1. UNCHANGED <<fxAt, fxFiber, fxRpy, fxCtx, fxQueue, fxBatch, fxPending, fxTouched>>
    BY <1>11 DEF FxConnected, fxCallVars, fxThreadVars, fxConnVars
  <2> QED
    BY <2>1 DEF FxHeld
<1>12. CASE FxLost
  <2> DEFINE P == {fxPending[i] : i \in DOMAIN fxPending}
             W == {d \in P : fxCtx[d] # "late"}
  <2>1. /\ fxPending' = <<>> /\ UNCHANGED <<fxAt, fxQueue, fxBatch>>
        /\ fxTouched' = (fxTouched \/ \E d \in W : fxAt[d] = "back")
        /\ fxFiber' = [d \in FxCmds |-> fxFiber[d] /\ d \notin W]
        /\ \A d \in FxCmds : fxRpy'[d] = fxRpy[d]
        /\ fxCtx' = [d \in FxCmds |-> IF d \in P THEN "gone" ELSE fxCtx[d]]
    BY <1>12 DEF FxLost, FxCmdCb, FxWake, fxThreadVars
  <2>2. \A d : d \in P <=> SeqHas(d, fxPending)
    BY DEF SeqHas
  <2>3. P \subseteq FxCmds
    OBVIOUS
  <2> HIDE DEF P
  <2>4. \A d \in W : fxAt[d] # "back"
    BY <2>2, <2>3 DEF FxHeld
  <2>5. ~fxTouched'
    BY <2>1, <2>4
  <2>6. SeqOnce(FxCmds, fxPending') /\ \A d : ~SeqHas(d, fxPending')
    BY <2>1, SeqHasEmpty
  <2>7. ASSUME NEW d \in FxCmds PROVE FxHeld(d)'
    <3>1. CASE d \in P
      BY <2>1, <2>2, <2>6, <3>1 DEF FxHeld
    <3>2. CASE d \notin P
      BY <2>1, <2>2, <2>6, <3>2 DEF FxHeld
    <3> QED
      BY <3>1, <3>2
  <2> QED
    BY <2>1, <2>5, <2>6, <2>7
<1>13. CASE FxTimeCb
  <2>1. UNCHANGED <<fxAt, fxFiber, fxRpy, fxCtx, fxQueue, fxBatch, fxPending, fxTouched>>
    BY <1>13 DEF FxTimeCb, fxCallVars, fxThreadVars, fxConnVars
  <2> QED
    BY <2>1 DEF FxHeld
<1>14. CASE UNCHANGED fxVars
  BY <1>14 DEF fxVars, FxHeld
<1> HIDE DEF FxInv, FxHeldInv
<1> QED
  BY <1>1, <1>2, <1>3, <1>4, <1>5, <1>6, <1>7, <1>8, <1>9, <1>10, <1>11, <1>12,
     <1>13, <1>14 DEF FxNext, FxThreadStep

(***************************************************************************)
(* The FCtx of a call is never used once cmd() has returned, however the   *)
(* reply, the timer, a lost connection and the coroutine interleave, and   *)
(* no reply is returned by a call that timed out.                          *)
(***************************************************************************)
THEOREM FxSafeHolds == FxSpec => []FxSafe
<1>1. FxInit => FxInv
  <2> SUFFICES ASSUME FxInit PROVE FxInv
    OBVIOUS
  <2>1. fxQueue = <<"pinit">> /\ \A c \in FxCmds : ~SeqHas(c, fxQueue)
    BY FxAssumption DEF FxInit, SeqHas
  <2>2. SeqOnce(FxCmds, fxQueue)
    BY <2>1, FxAssumption DEF SeqOnce
  <2>3. fxBatch = <<>> /\ fxPending = <<>> /\ ~fxTouched
    BY DEF FxInit
  <2>4. ASSUME NEW c \in FxCmds PROVE FxHeld(c)
    BY <2>1, <2>3, SeqHasEmpty DEF FxInit, FxHeld
  <2> QED
    BY <2>2, <2>3, <2>4, FxTypeInit, SeqHasEmpty DEF FxInv, FxHeldInv
<1>2. FxInv /\ [FxNext]_fxVars => FxInv'
  BY FxTypeStep, FxHeldStep DEF FxInv
<1>3. FxInv => FxSafe
  BY DEF FxInv, FxHeldInv, FxHeld, FxSafe
<1> QED
  BY <1>1, <1>2, <1>3, PTL DEF FxSpec

-----------------------------------------------------------------------------
(***************************************************************************)
(* SqlPool: the MySQL connections and their transactions.                  *)
(***************************************************************************)

MyConnType == [up : BOOLEAN, err : BOOLEAN, idle : BOOLEAN, tx : BOOLEAN]
MyUserType ==
    [at : {"out", "conn", "trans"}, conn : MyConns \cup {"none"}, auto : BOOLEAN, done : BOOLEAN, bad : BOOLEAN]

MyTypeOK ==
    /\ myPool \in Seq(MyConns) /\ myConn \in [MyConns -> MyConnType]
    /\ myUser \in [MyUsers -> MyUserType] /\ mySpoilt \subseteq MyConns

\* A user has a connection exactly while it is in a call, alone, and not one of the
\* pool; one outside of a transaction, or after the end of one, is in no
\* transaction, unless it is spoilt.
MyUserInv(u) ==
    /\ myUser[u].at = "out" <=> myUser[u].conn = "none"
    /\ ~SeqHas(myUser[u].conn, myPool)
    /\ myUser[u].at = "conn" /\ myConn[myUser[u].conn].tx => myUser[u].conn \in mySpoilt
    /\ myUser[u].done => myUser[u].at = "trans" /\ ~myConn[myUser[u].conn].tx
    /\ \A v \in MyUsers : v # u /\ myUser[v].conn = myUser[u].conn => myUser[u].at = "out"

\* A dead connection has no transaction, a pooled one none unless it is spoilt.
MyConnInv(c) ==
    /\ ~myConn[c].up => ~myConn[c].tx
    /\ SeqHas(c, myPool) /\ myConn[c].tx => c \in mySpoilt

MyInv ==
    /\ MyTypeOK /\ SeqOnce(MyConns, myPool)
    /\ \A u \in MyUsers : MyUserInv(u)
    /\ \A c \in MyConns : MyConnInv(c)

\* What the list holds, as a set.
LEMMA MyPooledIs == ASSUME MyTypeOK PROVE \A c : c \in MyPooled <=> SeqHas(c, myPool)
<1>1. DOMAIN myPool = 1 .. Len(myPool)
  BY DEF MyTypeOK
<1> QED
  BY <1>1 DEF MyPooled, SeqHas

\* A user in a call has a connection.
LEMMA MyHasConn ==
  ASSUME MyInv, NEW u \in MyUsers, myUser[u].at # "out"
  PROVE  myUser[u].conn \in MyConns
<1>1. MyUserInv(u) /\ myUser[u] \in MyUserType
  BY DEF MyInv, MyTypeOK
<1> QED
  BY <1>1 DEF MyUserInv, MyUserType

\* What a command changes: m_hasError, and whether there is a transaction.
LEMMA MyRunDoes ==
  ASSUME MyTypeOK, NEW u \in MyUsers, NEW c \in MyConns, c = myUser[u].conn,
         NEW ok \in BOOLEAN, NEW tx \in BOOLEAN, MyRun(u, ok, tx)
  PROVE  /\ ok => myConn[c].up
         /\ myConn' \in [MyConns -> MyConnType]
         /\ \A d \in MyConns : d # c => myConn'[d] = myConn[d]
         /\ myConn'[c].up = myConn[c].up
         /\ myConn'[c].tx = IF ok THEN tx ELSE myConn[c].tx
<1>1. myConn \in [MyConns -> MyConnType]
  BY DEF MyTypeOK
<1>2. myConn' = [myConn EXCEPT ![c].err = ~ok, ![c].tx = IF ok THEN tx ELSE @]
  BY Zenon DEF MyRun
<1>3. ok => myConn[c].up
  BY Zenon DEF MyRun
<1> DEFINE t == IF ok THEN tx ELSE myConn[c].tx
           e == ~ok
<1>4. t \in BOOLEAN /\ e \in BOOLEAN
  <2>1. myConn[c].tx \in BOOLEAN
    BY <1>1 DEF MyConnType
  <2> QED
    BY <2>1
<1>5. myConn' = [myConn EXCEPT ![c].err = e, ![c].tx = t]
  BY <1>1, <1>2, Zenon DEF MyConnType
<1> HIDE DEF t, e
<1>6. \A d \in MyConns : d # c => myConn'[d] = myConn[d]
  BY <1>1, <1>5, Zenon
<1>7. myConn'[c].up = myConn[c].up /\ myConn'[c].tx = t
  BY <1>1, <1>5, Zenon DEF MyConnType
<1>8. myConn'[c] \in MyConnType
  BY <1>1, <1>4, <1>5, Zenon DEF MyConnType
<1>9. myConn' = [d \in MyConns |-> myConn'[d]]
  BY <1>1, <1>5, Zenon
<1>10. myConn' \in [MyConns -> MyConnType]
  BY <1>1, <1>6, <1>8, <1>9
<1> QED
  BY <1>3, <1>6, <1>7, <1>10, Zenon DEF t

\* What freeMySQL() does with a connection: back into the list if there is room.
LEMMA MyFreeDoes ==
  ASSUME MyTypeOK, SeqOnce(MyConns, myPool), NEW c \in MyConns, ~SeqHas(c, myPool), NEW spoilt, MyFree(c, spoilt)
  PROVE  /\ myPool' \in Seq(MyConns) /\ SeqOnce(MyConns, myPool')
         /\ \A d : SeqHas(d, myPool') => SeqHas(d, myPool) \/ d = c
         /\ mySpoilt' = IF spoilt THEN mySpoilt \cup {c} ELSE mySpoilt
<1>1. /\ Append(myPool, c) \in Seq(MyConns) /\ SeqOnce(MyConns, Append(myPool, c))
      /\ \A d : SeqHas(d, Append(myPool, c)) <=> SeqHas(d, myPool) \/ d = c
  BY SeqHasAppend DEF MyTypeOK
<1> QED
  BY <1>1 DEF MyFree, MyTypeOK

\* A handed-out connection.
LEMMA MyHandDoes ==
  ASSUME MyTypeOK, NEW u \in MyUsers, NEW c \in MyConns, MyHand(u, c)
  PROVE  /\ myUser' \in [MyUsers -> MyUserType]
         /\ \A v \in MyUsers : v # u => myUser'[v] = myUser[v]
         /\ myUser'[u].at = "conn" /\ myUser'[u].conn = c /\ ~myUser'[u].done
  BY DEF MyTypeOK, MyHand, MyUserType

\* A user that gave its connection back.
LEMMA MyOutDoes ==
  ASSUME MyTypeOK, NEW u \in MyUsers, myUser' = [myUser EXCEPT ![u] = MyOut]
  PROVE  /\ myUser' \in [MyUsers -> MyUserType]
         /\ \A v \in MyUsers : v # u => myUser'[v] = myUser[v]
         /\ myUser'[u].at = "out" /\ myUser'[u].conn = "none" /\ ~myUser'[u].done
  BY DEF MyTypeOK, MyOut, MyUserType

\* Every step keeps the connections with their users and out of others'
\* transactions.
LEMMA MyStep == MyInv /\ [MyNext]_myVars => MyInv'
<1> SUFFICES ASSUME MyInv, [MyNext]_myVars PROVE MyInv'
  OBVIOUS
<1> USE DEF MyInv
<1>1. ASSUME NEW u \in MyUsers, NEW ok \in BOOLEAN, MyGetPooled(u, ok) PROVE MyInv'
  <2>1. PICK c : c = Head(myPool)
    OBVIOUS
  <2>2. myUser[u].at = "out" /\ myPool # <<>> /\ myPool' = Tail(myPool)
    BY <1>1, Zenon DEF MyGetPooled
  <2>3. /\ c \in MyConns /\ SeqHas(c, myPool) /\ myPool' \in Seq(MyConns)
        /\ SeqOnce(MyConns, myPool') /\ ~SeqHas(c, myPool')
        /\ \A d : SeqHas(d, myPool') => SeqHas(d, myPool)
    BY <2>1, <2>2, SeqHasTail DEF MyTypeOK
  <2>4. \A v \in MyUsers : myUser[v].conn # c
    BY <2>3 DEF MyUserInv
  <2>5. \/ /\ myConn' = [myConn EXCEPT ![c].idle = FALSE, ![c].err = FALSE]
           /\ MyHand(u, c) /\ mySpoilt' = mySpoilt
        \/ /\ myConn' = [myConn EXCEPT ![c] = MyNew]
           /\ MyHand(u, c) /\ mySpoilt' = mySpoilt \ {c}
        \/ myConn' = myConn /\ myUser' = myUser /\ mySpoilt' = mySpoilt
    BY <1>1, <2>1, Zenon DEF MyGetPooled
  <2>6. CASE myConn' = [myConn EXCEPT ![c].idle = FALSE, ![c].err = FALSE] /\ MyHand(u, c) /\ mySpoilt' = mySpoilt
    <3>1. /\ myConn' \in [MyConns -> MyConnType] /\ \A d \in MyConns : d # c => myConn'[d] = myConn[d]
          /\ myConn'[c].up = myConn[c].up /\ myConn'[c].tx = myConn[c].tx
      BY <2>3, <2>6, Zenon DEF MyTypeOK, MyConnType
    <3>2. MyHand(u, c) /\ mySpoilt' = mySpoilt
      BY <2>6, Zenon
    <3>3. /\ myUser' \in [MyUsers -> MyUserType] /\ \A v \in MyUsers : v # u => myUser'[v] = myUser[v]
          /\ myUser'[u].at = "conn" /\ myUser'[u].conn = c /\ ~myUser'[u].done
      BY <2>3, <3>2, MyHandDoes
    <3>4. MyTypeOK' /\ SeqOnce(MyConns, myPool')
      BY <2>3, <3>1, <3>2, <3>3 DEF MyTypeOK
    <3>5. ASSUME NEW v \in MyUsers PROVE MyUserInv(v)'
      <4>1. CASE v = u
        BY <2>3, <2>4, <3>1, <3>2, <3>3, <4>1, SqlPoolAssumption DEF MyUserInv, MyConnInv, MyTypeOK, MyUserType
      <4>2. CASE v # u
        BY <2>3, <2>4, <3>1, <3>2, <3>3, <4>2, SqlPoolAssumption, SMTT(30) DEF MyUserInv, MyConnInv, MyTypeOK, MyUserType
      <4> QED
        BY <4>1, <4>2
    <3>6. ASSUME NEW d \in MyConns PROVE MyConnInv(d)'
      <4>1. CASE d = c
        BY <2>3, <2>4, <3>1, <3>2, <3>3, <4>1 DEF MyUserInv, MyConnInv
      <4>2. CASE d # c
        BY <2>3, <2>4, <3>1, <3>2, <3>3, <4>2 DEF MyUserInv, MyConnInv
      <4> QED
        BY <4>1, <4>2
    <3> QED
      BY <3>4, <3>5, <3>6
  <2>7. CASE myConn' = [myConn EXCEPT ![c] = MyNew] /\ MyHand(u, c) /\ mySpoilt' = mySpoilt \ {c}
    <3>1. /\ myConn' \in [MyConns -> MyConnType] /\ \A d \in MyConns : d # c => myConn'[d] = myConn[d]
          /\ myConn'[c].up = TRUE /\ myConn'[c].tx = FALSE
      BY <2>3, <2>7 DEF MyTypeOK, MyConnType, MyNew
    <3>2. MyHand(u, c) /\ mySpoilt' = mySpoilt \ {c}
      BY <2>7
    <3>3. /\ myUser' \in [MyUsers -> MyUserType] /\ \A v \in MyUsers : v # u => myUser'[v] = myUser[v]
          /\ myUser'[u].at = "conn" /\ myUser'[u].conn = c /\ ~myUser'[u].done
      BY <2>3, <3>2, MyHandDoes
    <3>4. MyTypeOK' /\ SeqOnce(MyConns, myPool')
      BY <2>3, <3>1, <3>2, <3>3 DEF MyTypeOK
    <3>5. ASSUME NEW v \in MyUsers PROVE MyUserInv(v)'
      <4>1. CASE v = u
        BY <2>3, <2>4, <3>1, <3>2, <3>3, <4>1, SqlPoolAssumption DEF MyUserInv, MyConnInv, MyTypeOK, MyUserType
      <4>2. CASE v # u
        BY <2>3, <2>4, <3>1, <3>2, <3>3, <4>2, SqlPoolAssumption, SMTT(30) DEF MyUserInv, MyConnInv, MyTypeOK, MyUserType
      <4> QED
        BY <4>1, <4>2
    <3>6. ASSUME NEW d \in MyConns PROVE MyConnInv(d)'
      <4>1. CASE d = c
        BY <2>3, <2>4, <3>1, <3>2, <3>3, <4>1 DEF MyUserInv, MyConnInv
      <4>2. CASE d # c
        BY <2>3, <2>4, <3>1, <3>2, <3>3, <4>2 DEF MyUserInv, MyConnInv
      <4> QED
        BY <4>1, <4>2
    <3> QED
      BY <3>4, <3>5, <3>6
  <2>8. CASE myConn' = myConn /\ myUser' = myUser /\ mySpoilt' = mySpoilt
    <3>1. MyTypeOK' /\ SeqOnce(MyConns, myPool')
      BY <2>3, <2>8 DEF MyTypeOK
    <3>2. ASSUME NEW v \in MyUsers PROVE MyUserInv(v)'
      BY <2>3, <2>8, SqlPoolAssumption DEF MyUserInv, MyConnInv, MyTypeOK, MyUserType
    <3>3. ASSUME NEW d \in MyConns PROVE MyConnInv(d)'
      BY <2>3, <2>8 DEF MyUserInv, MyConnInv
    <3> QED
      BY <3>1, <3>2, <3>3
  <2> QED
    BY <2>5, <2>6, <2>7, <2>8, Zenon
<1>2. ASSUME NEW u \in MyUsers, NEW ok \in BOOLEAN, MyExecute(u, ok) PROVE MyInv'
  <2>1. PICK c \in MyConns : c = myUser[u].conn
    BY <1>2, MyHasConn DEF MyExecute
  <2>2. ~SeqHas(c, myPool) /\ \A v \in MyUsers : v # u => myUser[v].conn # c
    <3>1. myUser[u].at # "out"
      BY <1>2 DEF MyExecute
    <3> QED
      BY <2>1, <3>1 DEF MyUserInv
  <2>3. /\ myUser[u].at \in {"conn", "trans"} /\ ~myUser[u].done /\ MyRun(u, ok, myConn[c].tx)
        /\ myPool' = myPool /\ mySpoilt' = mySpoilt
        /\ myUser' = [myUser EXCEPT ![u].bad = (@ \/ (~ok /\ myUser[u].at = "trans"))]
    BY <1>2, <2>1, Zenon DEF MyExecute
  <2>4. /\ DOMAIN myUser' = MyUsers /\ myUser' = [v \in MyUsers |-> myUser'[v]]
        /\ \A v \in MyUsers : v # u => myUser'[v] = myUser[v]
        /\ myUser'[u] \in MyUserType
        /\ myUser'[u].at = myUser[u].at /\ myUser'[u].conn = myUser[u].conn
        /\ myUser'[u].done = myUser[u].done
    BY <2>3, Zenon DEF MyTypeOK, MyUserType
  <2>5. myUser' \in [MyUsers -> MyUserType]
    BY <2>4 DEF MyTypeOK
  <2>6. /\ myConn' \in [MyConns -> MyConnType] /\ \A d \in MyConns : d # c => myConn'[d] = myConn[d]
        /\ myConn'[c].up = myConn[c].up /\ myConn'[c].tx = myConn[c].tx
    <3>1. myConn[c].tx \in BOOLEAN /\ MyRun(u, ok, myConn[c].tx)
      BY <2>3, Zenon DEF MyTypeOK, MyConnType
    <3> QED
      BY <2>1, <3>1, MyRunDoes
  <2>7. myPool' = myPool /\ mySpoilt' = mySpoilt
    BY <2>3, Zenon
  <2>8. MyTypeOK' /\ SeqOnce(MyConns, myPool')
    BY <2>5, <2>6, <2>7 DEF MyTypeOK
  <2>9. ASSUME NEW v \in MyUsers PROVE MyUserInv(v)'
    <3>1. CASE v = u
      BY <2>1, <2>2, <2>4, <2>6, <2>7, <3>1, SqlPoolAssumption DEF MyUserInv, MyConnInv, MyTypeOK, MyUserType
    <3>2. CASE v # u
      BY <2>1, <2>2, <2>4, <2>6, <2>7, <3>2, SqlPoolAssumption DEF MyUserInv, MyConnInv, MyTypeOK, MyUserType
    <3> QED
      BY <3>1, <3>2
  <2>10. ASSUME NEW d \in MyConns PROVE MyConnInv(d)'
    <3>1. CASE d = c
      BY <2>1, <2>2, <2>4, <2>6, <2>7, <3>1 DEF MyUserInv, MyConnInv
    <3>2. CASE d # c
      BY <2>1, <2>2, <2>4, <2>6, <2>7, <3>2 DEF MyUserInv, MyConnInv
    <3> QED
      BY <3>1, <3>2
  <2> QED
    BY <2>8, <2>9, <2>10
<1>3. ASSUME NEW u \in MyUsers, NEW c \in MyConns, MyGetNew(u, c) PROVE MyInv'
  <2>1. /\ myConn' = [myConn EXCEPT ![c] = MyNew] /\ MyHand(u, c) /\ mySpoilt' = mySpoilt \ {c}
        /\ myPool = <<>> /\ myPool' = myPool /\ c \notin MyHeld
    BY <1>3 DEF MyGetNew
  <2>2. \A v \in MyUsers : myUser[v].conn # c
    BY <2>1 DEF MyHeld
  <2>3. \A d : ~SeqHas(d, myPool)
    BY <2>1, SeqHasEmpty
  <2>4. /\ myConn' \in [MyConns -> MyConnType] /\ \A d \in MyConns : d # c => myConn'[d] = myConn[d]
        /\ myConn'[c].up = TRUE /\ myConn'[c].tx = FALSE
    BY <2>1 DEF MyTypeOK, MyConnType, MyNew
  <2>5. /\ myUser' \in [MyUsers -> MyUserType] /\ \A v \in MyUsers : v # u => myUser'[v] = myUser[v]
        /\ myUser'[u].at = "conn" /\ myUser'[u].conn = c /\ ~myUser'[u].done
    BY <2>1, MyHandDoes
  <2>6. MyTypeOK' /\ SeqOnce(MyConns, myPool')
    BY <2>1, <2>4, <2>5 DEF MyTypeOK
  <2>7. ASSUME NEW v \in MyUsers PROVE MyUserInv(v)'
    <3>1. CASE v = u
      BY <2>1, <2>2, <2>3, <2>4, <2>5, <3>1, SqlPoolAssumption DEF MyUserInv, MyConnInv, MyTypeOK, MyUserType
    <3>2. CASE v # u
      BY <2>1, <2>2, <2>3, <2>4, <2>5, <3>2, SqlPoolAssumption DEF MyUserInv, MyConnInv, MyTypeOK, MyUserType
    <3> QED
      BY <3>1, <3>2
  <2>8. ASSUME NEW d \in MyConns PROVE MyConnInv(d)'
    <3>1. CASE d = c
      BY <2>1, <2>2, <2>3, <2>4, <2>5, <3>1 DEF MyUserInv, MyConnInv
    <3>2. CASE d # c
      BY <2>1, <2>2, <2>3, <2>4, <2>5, <3>2 DEF MyUserInv, MyConnInv
    <3> QED
      BY <3>1, <3>2
  <2> QED
    BY <2>6, <2>7, <2>8
<1>4. ASSUME NEW u \in MyUsers, NEW b \in BOOLEAN, MyBegin(u, b) PROVE MyInv'
  <2>1. PICK c \in MyConns : c = myUser[u].conn
    BY <1>4, MyHasConn DEF MyBegin
  <2>2. ~SeqHas(c, myPool) /\ \A v \in MyUsers : v # u => myUser[v].conn # c
    <3>1. myUser[u].at # "out"
      BY <1>4 DEF MyBegin
    <3> QED
      BY <2>1, <3>1 DEF MyUserInv
  <2>3. myUser[u].at = "conn" /\ MyRun(u, myConn[c].up, TRUE)
    BY <1>4, <2>1, Zenon DEF MyBegin
  <2>4. /\ myConn' \in [MyConns -> MyConnType] /\ \A d \in MyConns : d # c => myConn'[d] = myConn[d]
        /\ myConn'[c].up = myConn[c].up /\ myConn'[c].tx = IF myConn[c].up THEN TRUE ELSE myConn[c].tx
    <3>1. myConn[c].up \in BOOLEAN
      BY DEF MyTypeOK, MyConnType
    <3> QED
      BY <2>1, <2>3, <3>1, MyRunDoes
  <2>5. CASE myConn[c].up
    <3>1. /\ myUser' = [myUser EXCEPT ![u].at = "trans", ![u].auto = b]
          /\ mySpoilt' = mySpoilt \ {c} /\ myPool' = myPool
      BY <1>4, <2>1, <2>5, Zenon DEF MyBegin
    <3>2. /\ DOMAIN myUser' = MyUsers /\ myUser' = [v \in MyUsers |-> myUser'[v]]
          /\ \A v \in MyUsers : v # u => myUser'[v] = myUser[v]
          /\ myUser'[u] \in MyUserType
          /\ myUser'[u].at = "trans" /\ myUser'[u].conn = myUser[u].conn
          /\ myUser'[u].done = myUser[u].done
      BY <3>1, Zenon DEF MyTypeOK, MyUserType
    <3>3. mySpoilt' = mySpoilt \ {c} /\ myPool' = myPool
      BY <3>1, Zenon
    <3>4. myUser' \in [MyUsers -> MyUserType]
      BY <3>2 DEF MyTypeOK
    <3>5. ~myUser[u].done
      BY <2>3 DEF MyUserInv
    <3>6. MyTypeOK' /\ SeqOnce(MyConns, myPool')
      BY <2>4, <3>3, <3>4 DEF MyTypeOK
    <3>7. ASSUME NEW v \in MyUsers PROVE MyUserInv(v)'
      <4>1. CASE v = u
        BY <2>1, <2>2, <2>3, <2>4, <2>5, <3>2, <3>3, <3>5, <4>1, SqlPoolAssumption DEF MyUserInv, MyConnInv, MyTypeOK, MyUserType
      <4>2. CASE v # u
        BY <2>1, <2>2, <2>3, <2>4, <2>5, <3>2, <3>3, <3>5, <4>2, SqlPoolAssumption DEF MyUserInv, MyConnInv, MyTypeOK, MyUserType
      <4> QED
        BY <4>1, <4>2
    <3>8. ASSUME NEW d \in MyConns PROVE MyConnInv(d)'
      <4>1. CASE d = c
        BY <2>1, <2>2, <2>3, <2>4, <2>5, <3>2, <3>3, <3>5, <4>1 DEF MyUserInv, MyConnInv
      <4>2. CASE d # c
        BY <2>1, <2>2, <2>3, <2>4, <2>5, <3>2, <3>3, <3>5, <4>2 DEF MyUserInv, MyConnInv
      <4> QED
        BY <4>1, <4>2
    <3> QED
      BY <3>6, <3>7, <3>8
  <2>6. CASE ~myConn[c].up
    <3>1. MyFree(c, FALSE) /\ myUser' = [myUser EXCEPT ![u] = MyOut]
      BY <1>4, <2>1, <2>6, Zenon DEF MyBegin
    <3>2. /\ myPool' \in Seq(MyConns) /\ SeqOnce(MyConns, myPool')
          /\ \A d : SeqHas(d, myPool') => SeqHas(d, myPool) \/ d = c
          /\ mySpoilt' = mySpoilt
      BY <2>2, <3>1, MyFreeDoes
    <3>3. /\ myUser' \in [MyUsers -> MyUserType] /\ \A v \in MyUsers : v # u => myUser'[v] = myUser[v]
          /\ myUser'[u].at = "out" /\ myUser'[u].conn = "none" /\ ~myUser'[u].done
      BY <3>1, MyOutDoes
    <3>4. ~SeqHas("none", myPool')
      BY <3>2, SqlPoolAssumption DEF SeqHas
    <3>5. MyTypeOK' /\ SeqOnce(MyConns, myPool')
      BY <2>4, <3>2, <3>3 DEF MyTypeOK
    <3>6. ASSUME NEW v \in MyUsers PROVE MyUserInv(v)'
      <4>1. CASE v = u
        BY <2>1, <2>2, <2>4, <2>6, <3>2, <3>3, <3>4, <4>1, SqlPoolAssumption DEF MyUserInv, MyConnInv, MyTypeOK, MyUserType
      <4>2. CASE v # u
        BY <2>1, <2>2, <2>4, <2>6, <3>2, <3>3, <3>4, <4>2, SqlPoolAssumption DEF MyUserInv, MyConnInv, MyTypeOK, MyUserType
      <4> QED
        BY <4>1, <4>2
    <3>7. ASSUME NEW d \in MyConns PROVE MyConnInv(d)'
      <4>1. CASE d = c
        BY <2>1, <2>2, <2>4, <2>6, <3>2, <3>3, <3>4, <4>1 DEF MyUserInv, MyConnInv
      <4>2. CASE d # c
        BY <2>1, <2>2, <2>4, <2>6, <3>2, <3>3, <3>4, <4>2 DEF MyUserInv, MyConnInv
      <4> QED
        BY <4>1, <4>2
    <3> QED
      BY <3>5, <3>6, <3>7
  <2> QED
    BY <2>5, <2>6
<1>5. ASSUME NEW u \in MyUsers, NEW b \in BOOLEAN, MyFinish(u, b) PROVE MyInv'
  <2>1. PICK c \in MyConns : c = myUser[u].conn
    BY <1>5, MyHasConn DEF MyFinish
  <2>2. ~SeqHas(c, myPool) /\ \A v \in MyUsers : v # u => myUser[v].conn # c
    <3>1. myUser[u].at # "out"
      BY <1>5 DEF MyFinish
    <3> QED
      BY <2>1, <3>1 DEF MyUserInv
  <2>3. myUser[u].at = "trans" /\ myPool' = myPool /\ mySpoilt' = mySpoilt
    BY <1>5, Zenon DEF MyFinish
  <2>4. CASE MyEnds(u, b)
    <3>1. myConn[c].up \in BOOLEAN /\ MyRun(u, myConn[c].up, FALSE)
      BY <1>5, <2>1, <2>4, Zenon DEF MyTypeOK, MyConnType, MyFinish
    <3>2. /\ myConn' \in [MyConns -> MyConnType] /\ \A d \in MyConns : d # c => myConn'[d] = myConn[d]
          /\ myConn'[c].up = myConn[c].up /\ myConn'[c].tx = IF myConn[c].up THEN FALSE ELSE myConn[c].tx
      BY <2>1, <3>1, MyRunDoes
    <3>3. ~myConn'[c].tx
      BY <3>2 DEF MyConnInv
    <3>4. \/ myUser' = [myUser EXCEPT ![u].done = TRUE]
          \/ myUser' = [myUser EXCEPT ![u].bad = TRUE]
      BY <1>5, <2>4, Zenon DEF MyFinish
    <3>5. /\ DOMAIN myUser' = MyUsers /\ myUser' = [v \in MyUsers |-> myUser'[v]]
          /\ \A v \in MyUsers : v # u => myUser'[v] = myUser[v]
          /\ myUser'[u] \in MyUserType
          /\ myUser'[u].at = myUser[u].at /\ myUser'[u].conn = myUser[u].conn
      <4>1. CASE myUser' = [myUser EXCEPT ![u].done = TRUE]
        BY <4>1, Zenon DEF MyTypeOK, MyUserType
      <4>2. CASE myUser' = [myUser EXCEPT ![u].bad = TRUE]
        BY <4>2, Zenon DEF MyTypeOK, MyUserType
      <4> QED
        BY <3>4, <4>1, <4>2, Zenon
    <3>6. myUser' \in [MyUsers -> MyUserType]
      BY <3>5 DEF MyTypeOK
    <3>7. MyTypeOK' /\ SeqOnce(MyConns, myPool')
      BY <2>3, <3>2, <3>6 DEF MyTypeOK
    <3>8. ASSUME NEW v \in MyUsers PROVE MyUserInv(v)'
      <4>1. CASE v = u
        BY <2>1, <2>2, <2>3, <3>2, <3>3, <3>5, <4>1, SqlPoolAssumption, ZenonT(30) DEF MyUserInv, MyConnInv, MyTypeOK, MyUserType
      <4>2. CASE v # u
        BY <2>1, <2>2, <2>3, <3>2, <3>3, <3>5, <4>2, SqlPoolAssumption DEF MyUserInv, MyConnInv, MyTypeOK, MyUserType
      <4> QED
        BY <4>1, <4>2
    <3>9. ASSUME NEW d \in MyConns PROVE MyConnInv(d)'
      <4>1. CASE d = c
        BY <2>1, <2>2, <2>3, <3>2, <3>3, <3>5, <4>1 DEF MyUserInv, MyConnInv
      <4>2. CASE d # c
        BY <2>1, <2>2, <2>3, <3>2, <3>3, <3>5, <4>2 DEF MyUserInv, MyConnInv
      <4> QED
        BY <4>1, <4>2
    <3> QED
      BY <3>7, <3>8, <3>9
  <2>5. CASE ~MyEnds(u, b)
    <3>1. myConn' = myConn /\ myUser' = myUser
      BY <1>5, <2>5, Zenon DEF MyFinish
    <3>2. MyTypeOK' /\ SeqOnce(MyConns, myPool')
      BY <2>3, <3>1 DEF MyTypeOK
    <3>3. ASSUME NEW v \in MyUsers PROVE MyUserInv(v)'
      BY <2>3, <3>1, SqlPoolAssumption DEF MyUserInv, MyConnInv, MyTypeOK, MyUserType
    <3>4. ASSUME NEW d \in MyConns PROVE MyConnInv(d)'
      BY <2>3, <3>1 DEF MyUserInv, MyConnInv
    <3> QED
      BY <3>2, <3>3, <3>4
  <2> QED
    BY <2>4, <2>5
<1>6. ASSUME NEW u \in MyUsers, MyRelease(u) PROVE MyInv'
  <2>1. PICK c \in MyConns : c = myUser[u].conn
    BY <1>6, MyHasConn DEF MyRelease
  <2>2. ~SeqHas(c, myPool) /\ \A v \in MyUsers : v # u => myUser[v].conn # c
    <3>1. myUser[u].at # "out"
      BY <1>6 DEF MyRelease
    <3> QED
      BY <2>1, <3>1 DEF MyUserInv
  <2>3. /\ myUser[u].at = "conn" /\ MyFree(c, FALSE) /\ myUser' = [myUser EXCEPT ![u] = MyOut] /\ myConn' = myConn
    BY <1>6, <2>1 DEF MyRelease
  <2>4. /\ myPool' \in Seq(MyConns) /\ SeqOnce(MyConns, myPool')
        /\ \A d : SeqHas(d, myPool') => SeqHas(d, myPool) \/ d = c
        /\ mySpoilt' = mySpoilt
    BY <2>2, <2>3, MyFreeDoes
  <2>5. /\ myUser' \in [MyUsers -> MyUserType] /\ \A v \in MyUsers : v # u => myUser'[v] = myUser[v]
        /\ myUser'[u].at = "out" /\ myUser'[u].conn = "none" /\ ~myUser'[u].done
    BY <2>3, MyOutDoes
  <2>6. ~SeqHas("none", myPool')
    BY <2>4, SqlPoolAssumption DEF SeqHas
  <2>7. MyTypeOK' /\ SeqOnce(MyConns, myPool')
    BY <2>3, <2>4, <2>5 DEF MyTypeOK
  <2>8. ASSUME NEW v \in MyUsers PROVE MyUserInv(v)'
    <3>1. CASE v = u
      BY <2>1, <2>2, <2>3, <2>4, <2>5, <2>6, <3>1, SqlPoolAssumption DEF MyUserInv, MyConnInv, MyTypeOK, MyUserType
    <3>2. CASE v # u
      BY <2>1, <2>2, <2>3, <2>4, <2>5, <2>6, <3>2, SqlPoolAssumption DEF MyUserInv, MyConnInv, MyTypeOK, MyUserType
    <3> QED
      BY <3>1, <3>2
  <2>9. ASSUME NEW d \in MyConns PROVE MyConnInv(d)'
    <3>1. CASE d = c
      BY <2>1, <2>2, <2>3, <2>4, <2>5, <2>6, <3>1 DEF MyUserInv, MyConnInv
    <3>2. CASE d # c
      BY <2>1, <2>2, <2>3, <2>4, <2>5, <2>6, <3>2 DEF MyUserInv, MyConnInv
    <3> QED
      BY <3>1, <3>2
  <2> QED
    BY <2>7, <2>8, <2>9
<1>7. ASSUME NEW u \in MyUsers, MyDestroy(u) PROVE MyInv'
  <2>1. PICK c \in MyConns : c = myUser[u].conn
    BY <1>7, MyHasConn DEF MyDestroy
  <2>2. ~SeqHas(c, myPool) /\ \A v \in MyUsers : v # u => myUser[v].conn # c
    <3>1. myUser[u].at # "out"
      BY <1>7 DEF MyDestroy
    <3> QED
      BY <2>1, <3>1 DEF MyUserInv
  <2>3. /\ myUser[u].at = "trans" /\ myUser' = [myUser EXCEPT ![u] = MyOut]
        /\ MyFree(c, myUser[u].auto /\ myUser[u].bad /\ ~myUser[u].done)
    BY <1>7, <2>1, Zenon DEF MyDestroy
  <2>4. /\ myPool' \in Seq(MyConns) /\ SeqOnce(MyConns, myPool')
        /\ \A d : SeqHas(d, myPool') => SeqHas(d, myPool) \/ d = c
        /\ mySpoilt' = IF myUser[u].auto /\ myUser[u].bad /\ ~myUser[u].done THEN mySpoilt \cup {c} ELSE mySpoilt
    BY <2>2, <2>3, MyFreeDoes
  <2>5. /\ myUser' \in [MyUsers -> MyUserType] /\ \A v \in MyUsers : v # u => myUser'[v] = myUser[v]
        /\ myUser'[u].at = "out" /\ myUser'[u].conn = "none" /\ ~myUser'[u].done
    BY <2>3, MyOutDoes
  <2>6. ~SeqHas("none", myPool')
    BY <2>4, SqlPoolAssumption DEF SeqHas
  <2>7. /\ myConn' \in [MyConns -> MyConnType] /\ \A d \in MyConns : d # c => myConn'[d] = myConn[d]
        /\ myConn'[c].up = myConn[c].up
        /\ myConn'[c].tx => c \in mySpoilt' /\ myConn'[c].tx = myConn[c].tx
    <3>1. CASE MyEnds(u, myUser[u].auto)
      <4>1. myConn[c].up \in BOOLEAN /\ MyRun(u, myConn[c].up, FALSE)
        BY <1>7, <2>1, <2>3, <3>1, Zenon DEF MyTypeOK, MyConnType, MyDestroy
      <4>2. /\ myConn' \in [MyConns -> MyConnType] /\ \A d \in MyConns : d # c => myConn'[d] = myConn[d]
            /\ myConn'[c].up = myConn[c].up /\ myConn'[c].tx = IF myConn[c].up THEN FALSE ELSE myConn[c].tx
        BY <2>1, <4>1, MyRunDoes
      <4>3. ~myConn'[c].tx
        BY <4>2 DEF MyConnInv
      <4> QED
        BY <4>2, <4>3
    <3>2. CASE ~MyEnds(u, myUser[u].auto)
      <4>1. myConn' = myConn
        BY <1>7, <3>2, Zenon DEF MyDestroy
      <4>2. myUser[u].done \/ (myUser[u].auto /\ myUser[u].bad)
        BY <3>2 DEF MyEnds
      <4>3. myUser[u].done => ~myConn[c].tx
        BY <2>1, <2>3 DEF MyUserInv
      <4> QED
        BY <2>4, <4>1, <4>2, <4>3 DEF MyTypeOK
    <3> QED
      BY <3>1, <3>2
  <2>8. mySpoilt \subseteq mySpoilt' /\ \A d : SeqHas(d, myPool') => SeqHas(d, myPool) \/ d = c
    BY <2>4
  <2>9. MyTypeOK' /\ SeqOnce(MyConns, myPool')
    BY <2>4, <2>5, <2>7 DEF MyTypeOK
  <2>10. ASSUME NEW v \in MyUsers PROVE MyUserInv(v)'
    <3>1. CASE v = u
      BY <2>1, <2>2, <2>5, <2>6, <2>7, <2>8, <3>1, SqlPoolAssumption DEF MyUserInv, MyConnInv, MyTypeOK, MyUserType
    <3>2. CASE v # u
      BY <2>1, <2>2, <2>5, <2>6, <2>7, <2>8, <3>2, SqlPoolAssumption DEF MyUserInv, MyConnInv, MyTypeOK, MyUserType
    <3> QED
      BY <3>1, <3>2
  <2>11. ASSUME NEW d \in MyConns PROVE MyConnInv(d)'
    <3>1. CASE d = c
      BY <2>1, <2>2, <2>5, <2>6, <2>7, <2>8, <3>1 DEF MyUserInv, MyConnInv
    <3>2. CASE d # c
      BY <2>1, <2>2, <2>5, <2>6, <2>7, <2>8, <3>2 DEF MyUserInv, MyConnInv
    <3> QED
      BY <3>1, <3>2
  <2> QED
    BY <2>9, <2>10, <2>11
<1>8. ASSUME NEW c \in MyConns, MyDies(c) PROVE MyInv'
  <2>1. /\ myConn' = [myConn EXCEPT ![c].up = FALSE, ![c].tx = FALSE]
        /\ UNCHANGED <<myPool, myUser, mySpoilt>>
    BY <1>8, Zenon DEF MyDies
  <2>2. /\ myConn' \in [MyConns -> MyConnType] /\ \A d \in MyConns : d # c => myConn'[d] = myConn[d]
        /\ myConn'[c].up = FALSE /\ myConn'[c].tx = FALSE
    BY <2>1, Zenon DEF MyTypeOK, MyConnType
  <2>3. UNCHANGED <<myPool, myUser, mySpoilt>>
    BY <2>1, Zenon
  <2>4. ASSUME NEW d PROVE d \in MyConns /\ myConn'[d].tx => myConn[d].tx
    BY <2>2
  <2>5. MyTypeOK' /\ SeqOnce(MyConns, myPool')
    BY <2>2, <2>3 DEF MyTypeOK
  <2>6. ASSUME NEW v \in MyUsers PROVE MyUserInv(v)'
    BY <2>2, <2>3, <2>4, SqlPoolAssumption DEF MyUserInv, MyConnInv, MyTypeOK, MyUserType
  <2>7. ASSUME NEW d \in MyConns PROVE MyConnInv(d)'
    <3>1. CASE d = c
      BY <2>2, <2>3, <2>4, <3>1 DEF MyUserInv, MyConnInv
    <3>2. CASE d # c
      BY <2>2, <2>3, <2>4, <3>2 DEF MyUserInv, MyConnInv
    <3> QED
      BY <3>1, <3>2
  <2> QED
    BY <2>5, <2>6, <2>7
<1>9. ASSUME NEW c \in MyConns, MyIdles(c) PROVE MyInv'
  <2>1. myConn' = [myConn EXCEPT ![c].idle = TRUE] /\ UNCHANGED <<myPool, myUser, mySpoilt>>
    BY <1>9, Zenon DEF MyIdles
  <2>2. /\ myConn' \in [MyConns -> MyConnType] /\ \A d \in MyConns : d # c => myConn'[d] = myConn[d]
        /\ myConn'[c].up = myConn[c].up /\ myConn'[c].tx = myConn[c].tx
    BY <2>1, Zenon DEF MyTypeOK, MyConnType
  <2>3. UNCHANGED <<myPool, myUser, mySpoilt>>
    BY <2>1, Zenon
  <2>4. ASSUME NEW d PROVE d \in MyConns /\ myConn'[d].tx => myConn[d].tx
    BY <2>2
  <2>5. MyTypeOK' /\ SeqOnce(MyConns, myPool')
    BY <2>2, <2>3 DEF MyTypeOK
  <2>6. ASSUME NEW v \in MyUsers PROVE MyUserInv(v)'
    BY <2>2, <2>3, <2>4, SqlPoolAssumption DEF MyUserInv, MyConnInv, MyTypeOK, MyUserType
  <2>7. ASSUME NEW d \in MyConns PROVE MyConnInv(d)'
    <3>1. CASE d = c
      BY <2>2, <2>3, <2>4, <3>1 DEF MyUserInv, MyConnInv
    <3>2. CASE d # c
      BY <2>2, <2>3, <2>4, <3>2 DEF MyUserInv, MyConnInv
    <3> QED
      BY <3>1, <3>2
  <2> QED
    BY <2>5, <2>6, <2>7
<1>10. ASSUME NEW old \in SUBSET MyConns, MyCheck(old) PROVE MyInv'
  <2> DEFINE kept == {k \in DOMAIN myPool : myPool[k] \notin old}
             n == Cardinality(kept)
  <2>1. PICK f \in [1 .. n -> kept] :
          /\ \A i, j \in 1 .. n : i < j => f[i] < f[j]
          /\ myPool' = [i \in 1 .. n |-> myPool[f[i]]]
    BY <1>10 DEF MyCheck
  <2>2. kept \subseteq 1 .. Len(myPool) /\ n \in Nat
    <3>1. IsFiniteSet(kept)
      BY FS_Interval, FS_Subset DEF MyTypeOK
    <3> QED
      BY <3>1, FS_CardinalityType DEF MyTypeOK
  <2>3. mySpoilt' = mySpoilt \ old /\ myConn' = myConn /\ myUser' = myUser /\ old \subseteq MyPooled
    BY <1>10 DEF MyCheck
  <2>4. \A k \in kept : myPool[k] \in MyConns /\ SeqHas(myPool[k], myPool) /\ myPool[k] \notin old
    BY <2>2 DEF MyTypeOK, SeqHas
  <2> HIDE DEF kept, n
  <2>5. myPool' \in Seq(MyConns) /\ Len(myPool') = n /\ \A i \in 1 .. n : myPool'[i] = myPool[f[i]] /\ f[i] \in kept
    <3>1. \A i \in 1 .. n : f[i] \in kept /\ myPool[f[i]] \in MyConns
      BY <2>1, <2>4
    <3>2. myPool' \in [1 .. n -> MyConns] /\ \A i \in 1 .. n : myPool'[i] = myPool[f[i]]
      BY <2>1, <3>1
    <3>3. myPool' \in Seq(MyConns) /\ Len(myPool') = n
      BY <2>2, <3>2
    <3> QED
      BY <3>1, <3>2, <3>3
  <2>6. SeqOnce(MyConns, myPool')
    <3> SUFFICES ASSUME NEW i \in 1 .. n, NEW j \in 1 .. n, myPool'[i] = myPool'[j] PROVE i = j
      BY <2>5 DEF SeqOnce
    <3>1. f[i] \in 1 .. Len(myPool) /\ f[j] \in 1 .. Len(myPool) /\ myPool[f[i]] = myPool[f[j]] /\ myPool[f[i]] \in MyConns
      BY <2>2, <2>4, <2>5
    <3>2. f[i] = f[j]
      BY <3>1 DEF SeqOnce
    <3> QED
      BY <2>1, <2>2, <3>1, <3>2
  <2>7. \A d : SeqHas(d, myPool') => SeqHas(d, myPool) /\ d \in MyConns /\ d \notin old
    BY <2>4, <2>5 DEF SeqHas
  <2>8. \A d : d \in MyPooled <=> SeqHas(d, myPool)
    BY MyPooledIs
  <2>9. MyTypeOK' /\ SeqOnce(MyConns, myPool')
    BY <2>3, <2>5, <2>6 DEF MyTypeOK
  <2>10. ASSUME NEW v \in MyUsers PROVE MyUserInv(v)'
    <3>1. myUser[v].conn \notin old /\ ~SeqHas(myUser[v].conn, myPool')
      BY <2>3, <2>7, <2>8 DEF MyUserInv
    <3> QED
      BY <2>3, <3>1 DEF MyUserInv, MyTypeOK, MyUserType
  <2>11. ASSUME NEW d \in MyConns PROVE MyConnInv(d)'
    BY <2>3, <2>7, <2>8 DEF MyUserInv, MyConnInv
  <2> QED
    BY <2>9, <2>10, <2>11
<1>11. CASE UNCHANGED myVars
  BY <1>11 DEF myVars, MyTypeOK, MyUserInv, MyConnInv
<1> HIDE DEF MyInv
<1> QED
  BY <1>1, <1>2, <1>3, <1>4, <1>5, <1>6, <1>7, <1>8, <1>9, <1>10, <1>11 DEF MyNext

(***************************************************************************)
(* Nobody gets a MySQL connection in the middle of somebody else's         *)
(* transaction, or one that somebody else has, for any number of users and *)
(* connections and whenever the server drops one; only an auto-commit      *)
(* transaction with an error leaves its connection spoilt.                 *)
(***************************************************************************)
THEOREM MyCleanHolds == MySpec => []MyClean
<1>1. MyInit => MyInv
  <2> SUFFICES ASSUME MyInit PROVE MyInv
    OBVIOUS
  <2>1. myPool = <<>> /\ SeqOnce(MyConns, myPool) /\ \A d : ~SeqHas(d, myPool)
    BY SeqHasEmpty DEF MyInit
  <2>2. MyTypeOK
    BY DEF MyInit, MyTypeOK, MyNew, MyOut, MyConnType, MyUserType
  <2>3. \A u \in MyUsers : MyUserInv(u)
    BY <2>1 DEF MyInit, MyOut, MyUserInv
  <2>4. \A c \in MyConns : MyConnInv(c)
    BY <2>1 DEF MyInit, MyNew, MyConnInv
  <2> QED
    BY <2>1, <2>2, <2>3, <2>4 DEF MyInv
<1>2. MyInv => MyClean
  <2> SUFFICES ASSUME MyInv PROVE MyClean
    OBVIOUS
  <2>1. \A c : c \in MyPooled <=> SeqHas(c, myPool)
    BY MyPooledIs DEF MyInv
  <2>2. MyPooled \subseteq MyConns
    BY DEF MyInv, MyTypeOK, MyPooled
  <2> QED
    BY <2>1, <2>2 DEF MyInv, MyUserInv, MyConnInv, MyClean, MyHeld
<1> QED
  BY <1>1, <1>2, MyStep, PTL DEF MySpec

-----------------------------------------------------------------------------
(***************************************************************************)
(* HttpPool: the connections of HttpConnectionPool.                        *)
(***************************************************************************)

HpConnType == [open : BOOLEAN, old : BOOLEAN, reqs : Nat, owed : Seq(Nat), half : BOOLEAN]
HpUserType ==
    [at : {"out", "took", "dial", "send", "recv", "free"}, conn : HpConns \cup {"none"}, req : Nat, answer : Nat,
     dels : SUBSET HpConns]

HpTypeOK ==
    /\ hpPool \in Seq(HpConns) /\ hpConn \in [HpConns -> HpConnType]
    /\ hpUser \in [HpUsers -> HpUserType] /\ hpTotal \in Int /\ hpReqs \in Nat

\* A connection is in one place: in the pool, with one user, or with one user that is
\* about to delete it.
HpPlaceInv(u) ==
    /\ hpUser[u].at \in {"out", "dial"} => hpUser[u].conn = "none"
    /\ hpUser[u].at \in {"send", "recv", "free"} => hpUser[u].conn # "none"
    /\ hpUser[u].at # "took" => hpUser[u].dels = {}
    /\ ~SeqHas(hpUser[u].conn, hpPool) /\ \A d \in hpUser[u].dels : ~SeqHas(d, hpPool)
    /\ \A v \in HpUsers :
          /\ hpUser[u].conn \notin hpUser[v].dels
          /\ v # u => hpUser[u].dels \cap hpUser[v].dels = {}
          /\ v # u /\ hpUser[u].conn = hpUser[v].conn => hpUser[u].conn = "none"

\* What a connection owes its user: the answer to the request it sent and no other,
\* unless a send failed on it before.
HpOwedInv(u) ==
    /\ hpUser[u].answer # 0 => hpUser[u].at = "free"
    /\ hpUser[u].at = "recv" => hpConn[hpUser[u].conn].owed # <<>>
    /\ hpUser[u].conn # "none" /\ ~hpConn[hpUser[u].conn].half =>
          /\ hpUser[u].at \in {"took", "send"} => hpConn[hpUser[u].conn].owed = <<>>
          /\ hpUser[u].at = "recv" => hpConn[hpUser[u].conn].owed = <<hpUser[u].req>>
          /\ hpUser[u].at = "free" => \/ hpConn[hpUser[u].conn].owed = <<>>
                                      \/ ~hpConn[hpUser[u].conn].open
          /\ hpUser[u].answer \in {0, hpUser[u].req}

\* A pooled connection owes nothing, or is closed.
HpIdleInv(c) ==
    SeqHas(c, hpPool) /\ ~hpConn[c].half => hpConn[c].owed = <<>> \/ ~hpConn[c].open

HpAll == HpPooled \cup HpHeld \cup HpDoomed
HpTotalInv == IsFiniteSet(HpAll) /\ hpTotal = Cardinality(HpAll)

HpPlaces == SeqOnce(HpConns, hpPool) /\ \A u \in HpUsers : HpPlaceInv(u)
HpOwed == (\A u \in HpUsers : HpOwedInv(u)) /\ \A c \in HpConns : HpIdleInv(c)
HpInv == HpTypeOK /\ HpPlaces /\ HpOwed /\ HpTotalInv

\* A non-empty set of natural numbers has a least element.
LEMMA StoreLeast ==
  ASSUME NEW S \in SUBSET Nat, S # {}
  PROVE  \E m \in S : \A k \in S : m <= k
<1>1. PICK m \in S : \A k \in S : ~ (<<k, m>> \in OpToRel(<, Nat))
  BY NatLessThanWellFounded, WFMin
<1>2. \A k \in S : ~ (k < m)
  BY <1>1 DEF OpToRel
<1> QED
  BY <1>2

\* Where a connection can be.
LEMMA HpAllIs ==
  ASSUME HpTypeOK
  PROVE  \A c : c \in HpAll <=> \/ SeqHas(c, hpPool)
                                \/ \E u \in HpUsers : c = hpUser[u].conn /\ c # "none"
                                \/ \E u \in HpUsers : c \in hpUser[u].dels
<1>1. \A c : c \in HpPooled <=> SeqHas(c, hpPool)
  BY DEF HpTypeOK, HpPooled, SeqHas
<1> QED
  BY <1>1 DEF HpAll, HpHeld, HpDoomed

\* The same of the state after a step.
LEMMA HpAllIsNext ==
  ASSUME HpTypeOK'
  PROVE  \A c : c \in HpAll' <=> \/ SeqHas(c, hpPool')
                                 \/ \E u \in HpUsers : c = hpUser'[u].conn /\ c # "none"
                                 \/ \E u \in HpUsers : c \in hpUser'[u].dels
<1>1. \A c : c \in HpPooled' <=> SeqHas(c, hpPool')
  BY DEF HpTypeOK, HpPooled, SeqHas
<1> QED
  BY <1>1 DEF HpAll, HpHeld, HpDoomed

\* A user at another point of its call.
LEMMA HpSetAt ==
  ASSUME HpTypeOK, NEW u \in HpUsers, NEW a \in {"send", "recv", "free", "dial"},
         hpUser' = [hpUser EXCEPT ![u].at = a]
  PROVE  /\ hpUser' \in [HpUsers -> HpUserType]
         /\ \A v \in HpUsers : v # u => hpUser'[v] = hpUser[v]
         /\ hpUser'[u].at = a /\ hpUser'[u].conn = hpUser[u].conn /\ hpUser'[u].req = hpUser[u].req /\ hpUser'[u].answer = hpUser[u].answer /\ hpUser'[u].dels = hpUser[u].dels
<1>1. hpUser \in [HpUsers -> HpUserType]
  BY DEF HpTypeOK
<1>2. \A v \in HpUsers : v # u => hpUser'[v] = hpUser[v]
  BY <1>1, Zenon
<1>3. hpUser'[u].at = a /\ hpUser'[u].conn = hpUser[u].conn /\ hpUser'[u].req = hpUser[u].req /\ hpUser'[u].answer = hpUser[u].answer /\ hpUser'[u].dels = hpUser[u].dels
  BY <1>1, Zenon DEF HpUserType
<1>4. hpUser'[u] \in HpUserType
  BY <1>1, Zenon DEF HpUserType
<1>5. hpUser' = [v \in HpUsers |-> hpUser'[v]]
  BY <1>1, Zenon
<1>6. hpUser' \in [HpUsers -> HpUserType]
  BY <1>1, <1>2, <1>4, <1>5
<1> QED
  BY <1>2, <1>3, <1>6, Zenon

\* A user that has deleted the bad connections.
LEMMA HpSetDels ==
  ASSUME HpTypeOK, NEW u \in HpUsers, NEW a \in {"send", "dial"},
         hpUser' = [hpUser EXCEPT ![u].dels = {}, ![u].at = a]
  PROVE  /\ hpUser' \in [HpUsers -> HpUserType]
         /\ \A v \in HpUsers : v # u => hpUser'[v] = hpUser[v]
         /\ hpUser'[u].at = a /\ hpUser'[u].conn = hpUser[u].conn /\ hpUser'[u].req = hpUser[u].req /\ hpUser'[u].answer = hpUser[u].answer /\ hpUser'[u].dels = {}
<1>1. hpUser \in [HpUsers -> HpUserType]
  BY DEF HpTypeOK
<1>2. \A v \in HpUsers : v # u => hpUser'[v] = hpUser[v]
  BY <1>1, Zenon
<1>3. hpUser'[u].at = a /\ hpUser'[u].conn = hpUser[u].conn /\ hpUser'[u].req = hpUser[u].req /\ hpUser'[u].answer = hpUser[u].answer /\ hpUser'[u].dels = {}
  BY <1>1, Zenon DEF HpUserType
<1>4. hpUser'[u] \in HpUserType
  BY <1>1, Zenon DEF HpUserType
<1>5. hpUser' = [v \in HpUsers |-> hpUser'[v]]
  BY <1>1, Zenon
<1>6. hpUser' \in [HpUsers -> HpUserType]
  BY <1>1, <1>2, <1>4, <1>5
<1> QED
  BY <1>2, <1>3, <1>6, Zenon

\* A user that has dialled.
LEMMA HpSetConn ==
  ASSUME HpTypeOK, NEW u \in HpUsers, NEW c \in HpConns,
         hpUser' = [hpUser EXCEPT ![u].at = "send", ![u].conn = c]
  PROVE  /\ hpUser' \in [HpUsers -> HpUserType]
         /\ \A v \in HpUsers : v # u => hpUser'[v] = hpUser[v]
         /\ hpUser'[u].at = "send" /\ hpUser'[u].conn = c /\ hpUser'[u].req = hpUser[u].req /\ hpUser'[u].answer = hpUser[u].answer /\ hpUser'[u].dels = hpUser[u].dels
<1>1. hpUser \in [HpUsers -> HpUserType]
  BY DEF HpTypeOK
<1>2. \A v \in HpUsers : v # u => hpUser'[v] = hpUser[v]
  BY <1>1, Zenon
<1>3. hpUser'[u].at = "send" /\ hpUser'[u].conn = c /\ hpUser'[u].req = hpUser[u].req /\ hpUser'[u].answer = hpUser[u].answer /\ hpUser'[u].dels = hpUser[u].dels
  BY <1>1, Zenon DEF HpUserType
<1>4. hpUser'[u] \in HpUserType
  BY <1>1, Zenon DEF HpUserType
<1>5. hpUser' = [v \in HpUsers |-> hpUser'[v]]
  BY <1>1, Zenon
<1>6. hpUser' \in [HpUsers -> HpUserType]
  BY <1>1, <1>2, <1>4, <1>5
<1> QED
  BY <1>2, <1>3, <1>6, Zenon

\* A user that has read an answer.
LEMMA HpSetAnswer ==
  ASSUME HpTypeOK, NEW u \in HpUsers, NEW n \in Nat,
         hpUser' = [hpUser EXCEPT ![u].at = "free", ![u].answer = n]
  PROVE  /\ hpUser' \in [HpUsers -> HpUserType]
         /\ \A v \in HpUsers : v # u => hpUser'[v] = hpUser[v]
         /\ hpUser'[u].at = "free" /\ hpUser'[u].conn = hpUser[u].conn /\ hpUser'[u].req = hpUser[u].req /\ hpUser'[u].answer = n /\ hpUser'[u].dels = hpUser[u].dels
<1>1. hpUser \in [HpUsers -> HpUserType]
  BY DEF HpTypeOK
<1>2. \A v \in HpUsers : v # u => hpUser'[v] = hpUser[v]
  BY <1>1, Zenon
<1>3. hpUser'[u].at = "free" /\ hpUser'[u].conn = hpUser[u].conn /\ hpUser'[u].req = hpUser[u].req /\ hpUser'[u].answer = n /\ hpUser'[u].dels = hpUser[u].dels
  BY <1>1, Zenon DEF HpUserType
<1>4. hpUser'[u] \in HpUserType
  BY <1>1, Zenon DEF HpUserType
<1>5. hpUser' = [v \in HpUsers |-> hpUser'[v]]
  BY <1>1, Zenon
<1>6. hpUser' \in [HpUsers -> HpUserType]
  BY <1>1, <1>2, <1>4, <1>5
<1> QED
  BY <1>2, <1>3, <1>6, Zenon

\* A connection owes other answers.
LEMMA HpSetOwed ==
  ASSUME HpTypeOK, NEW c \in HpConns, NEW s \in Seq(Nat),
         hpConn' = [hpConn EXCEPT ![c].owed = s]
  PROVE  /\ hpConn' \in [HpConns -> HpConnType]
         /\ \A d \in HpConns : d # c => hpConn'[d] = hpConn[d]
         /\ hpConn'[c].open = hpConn[c].open /\ hpConn'[c].old = hpConn[c].old /\ hpConn'[c].owed = s /\ hpConn'[c].half = hpConn[c].half
<1>1. hpConn \in [HpConns -> HpConnType]
  BY DEF HpTypeOK
<1>2. \A d \in HpConns : d # c => hpConn'[d] = hpConn[d]
  BY <1>1, Zenon
<1>3. hpConn'[c].open = hpConn[c].open /\ hpConn'[c].old = hpConn[c].old /\ hpConn'[c].owed = s /\ hpConn'[c].half = hpConn[c].half
  BY <1>1, Zenon DEF HpConnType
<1>4. hpConn'[c] \in HpConnType
  BY <1>1, Zenon DEF HpConnType
<1>5. hpConn' = [d \in HpConns |-> hpConn'[d]]
  BY <1>1, Zenon
<1>6. hpConn' \in [HpConns -> HpConnType]
  BY <1>1, <1>2, <1>4, <1>5
<1> QED
  BY <1>2, <1>3, <1>6, Zenon

\* A send has failed on a connection.
LEMMA HpSetHalf ==
  ASSUME HpTypeOK, NEW c \in HpConns,
         hpConn' = [hpConn EXCEPT ![c].half = TRUE]
  PROVE  /\ hpConn' \in [HpConns -> HpConnType]
         /\ \A d \in HpConns : d # c => hpConn'[d] = hpConn[d]
         /\ hpConn'[c].open = hpConn[c].open /\ hpConn'[c].old = hpConn[c].old /\ hpConn'[c].owed = hpConn[c].owed /\ hpConn'[c].half = TRUE
<1>1. hpConn \in [HpConns -> HpConnType]
  BY DEF HpTypeOK
<1>2. \A d \in HpConns : d # c => hpConn'[d] = hpConn[d]
  BY <1>1, Zenon
<1>3. hpConn'[c].open = hpConn[c].open /\ hpConn'[c].old = hpConn[c].old /\ hpConn'[c].owed = hpConn[c].owed /\ hpConn'[c].half = TRUE
  BY <1>1, Zenon DEF HpConnType
<1>4. hpConn'[c] \in HpConnType
  BY <1>1, Zenon DEF HpConnType
<1>5. hpConn' = [d \in HpConns |-> hpConn'[d]]
  BY <1>1, Zenon
<1>6. hpConn' \in [HpConns -> HpConnType]
  BY <1>1, <1>2, <1>4, <1>5
<1> QED
  BY <1>2, <1>3, <1>6, Zenon

\* A connection is closed.
LEMMA HpSetOpen ==
  ASSUME HpTypeOK, NEW c \in HpConns,
         hpConn' = [hpConn EXCEPT ![c].open = FALSE]
  PROVE  /\ hpConn' \in [HpConns -> HpConnType]
         /\ \A d \in HpConns : d # c => hpConn'[d] = hpConn[d]
         /\ hpConn'[c].open = FALSE /\ hpConn'[c].old = hpConn[c].old /\ hpConn'[c].owed = hpConn[c].owed /\ hpConn'[c].half = hpConn[c].half
<1>1. hpConn \in [HpConns -> HpConnType]
  BY DEF HpTypeOK
<1>2. \A d \in HpConns : d # c => hpConn'[d] = hpConn[d]
  BY <1>1, Zenon
<1>3. hpConn'[c].open = FALSE /\ hpConn'[c].old = hpConn[c].old /\ hpConn'[c].owed = hpConn[c].owed /\ hpConn'[c].half = hpConn[c].half
  BY <1>1, Zenon DEF HpConnType
<1>4. hpConn'[c] \in HpConnType
  BY <1>1, Zenon DEF HpConnType
<1>5. hpConn' = [d \in HpConns |-> hpConn'[d]]
  BY <1>1, Zenon
<1>6. hpConn' \in [HpConns -> HpConnType]
  BY <1>1, <1>2, <1>4, <1>5
<1> QED
  BY <1>2, <1>3, <1>6, Zenon

\* A connection has made one request more.
LEMMA HpSetReqs ==
  ASSUME HpTypeOK, NEW c \in HpConns, NEW n \in Nat,
         hpConn' = [hpConn EXCEPT ![c].reqs = n]
  PROVE  /\ hpConn' \in [HpConns -> HpConnType]
         /\ \A d \in HpConns : d # c => hpConn'[d] = hpConn[d]
         /\ hpConn'[c].open = hpConn[c].open /\ hpConn'[c].old = hpConn[c].old /\ hpConn'[c].owed = hpConn[c].owed /\ hpConn'[c].half = hpConn[c].half
<1>1. hpConn \in [HpConns -> HpConnType]
  BY DEF HpTypeOK
<1>2. \A d \in HpConns : d # c => hpConn'[d] = hpConn[d]
  BY <1>1, Zenon
<1>3. hpConn'[c].open = hpConn[c].open /\ hpConn'[c].old = hpConn[c].old /\ hpConn'[c].owed = hpConn[c].owed /\ hpConn'[c].half = hpConn[c].half
  BY <1>1, Zenon DEF HpConnType
<1>4. hpConn'[c] \in HpConnType
  BY <1>1, Zenon DEF HpConnType
<1>5. hpConn' = [d \in HpConns |-> hpConn'[d]]
  BY <1>1, Zenon
<1>6. hpConn' \in [HpConns -> HpConnType]
  BY <1>1, <1>2, <1>4, <1>5
<1> QED
  BY <1>2, <1>3, <1>6, Zenon

\* A connection is too old.
LEMMA HpSetOld ==
  ASSUME HpTypeOK, NEW c \in HpConns,
         hpConn' = [hpConn EXCEPT ![c].old = TRUE]
  PROVE  /\ hpConn' \in [HpConns -> HpConnType]
         /\ \A d \in HpConns : d # c => hpConn'[d] = hpConn[d]
         /\ hpConn'[c].open = hpConn[c].open /\ hpConn'[c].old = TRUE /\ hpConn'[c].owed = hpConn[c].owed /\ hpConn'[c].half = hpConn[c].half
<1>1. hpConn \in [HpConns -> HpConnType]
  BY DEF HpTypeOK
<1>2. \A d \in HpConns : d # c => hpConn'[d] = hpConn[d]
  BY <1>1, Zenon
<1>3. hpConn'[c].open = hpConn[c].open /\ hpConn'[c].old = TRUE /\ hpConn'[c].owed = hpConn[c].owed /\ hpConn'[c].half = hpConn[c].half
  BY <1>1, Zenon DEF HpConnType
<1>4. hpConn'[c] \in HpConnType
  BY <1>1, Zenon DEF HpConnType
<1>5. hpConn' = [d \in HpConns |-> hpConn'[d]]
  BY <1>1, Zenon
<1>6. hpConn' \in [HpConns -> HpConnType]
  BY <1>1, <1>2, <1>4, <1>5
<1> QED
  BY <1>2, <1>3, <1>6, Zenon

\* What is left of a list behind position m.
LEMMA SeqHasSuffix ==
  ASSUME NEW S, NEW K, NEW s \in Seq(S), NEW m \in 1 .. Len(s) + 1
  PROVE  LET t == SubSeq(s, m + 1, Len(s))
         IN  /\ t \in Seq(S)
             /\ \A d : SeqHas(d, t) <=> \E k \in m + 1 .. Len(s) : s[k] = d
             /\ SeqOnce(K, s) => SeqOnce(K, t)
<1> DEFINE t == SubSeq(s, m + 1, Len(s))
<1>1. \A i \in m + 1 .. Len(s) : s[i] \in S
  OBVIOUS
<1>2. /\ t \in Seq(S) /\ Len(t) = IF m + 1 <= Len(s) THEN Len(s) - m ELSE 0
      /\ \A i \in 1 .. Len(s) - m : t[i] = s[m + i]
  <2>1. m + 1 \in Int /\ Len(s) \in Int /\ Len(s) - (m + 1) + 1 = Len(s) - m
    OBVIOUS
  <2>2. /\ t \in Seq(S) /\ Len(t) = IF m + 1 <= Len(s) THEN Len(s) - (m + 1) + 1 ELSE 0
        /\ \A i \in 1 .. Len(s) - (m + 1) + 1 : t[i] = s[m + 1 + i - 1]
    BY <1>1, <2>1, SubSeqProperties
  <2>3. \A i \in 1 .. Len(s) - m : t[i] = s[m + i]
    <3> SUFFICES ASSUME NEW i \in 1 .. Len(s) - m PROVE t[i] = s[m + i]
      OBVIOUS
    <3>1. m + 1 + i - 1 = m + i /\ i \in 1 .. Len(s) - (m + 1) + 1
      OBVIOUS
    <3>2. t[i] = s[m + 1 + i - 1]
      BY <2>2, <3>1
    <3> QED
      BY <3>1, <3>2
  <2> HIDE DEF t
  <2> QED
    BY <2>1, <2>2, <2>3
<1> HIDE DEF t
<1>3. ASSUME NEW d PROVE SeqHas(d, t) <=> \E k \in m + 1 .. Len(s) : s[k] = d
  <2>1. ASSUME SeqHas(d, t) PROVE \E k \in m + 1 .. Len(s) : s[k] = d
    <3>1. PICK i \in 1 .. Len(t) : t[i] = d
      BY <2>1 DEF SeqHas
    <3>2. i \in 1 .. Len(s) - m /\ m + i \in m + 1 .. Len(s)
      BY <1>2, <3>1
    <3> QED
      BY <1>2, <3>1, <3>2
  <2>2. ASSUME NEW k \in m + 1 .. Len(s), s[k] = d PROVE SeqHas(d, t)
    <3>1. k - m \in 1 .. Len(t) /\ k - m \in 1 .. Len(s) - m /\ m + (k - m) = k
      BY <1>2, <2>2
    <3>2. t[k - m] = d
      BY <1>2, <2>2, <3>1
    <3> QED
      BY <3>1, <3>2 DEF SeqHas
  <2> QED
    BY <2>1, <2>2
<1>4. ASSUME SeqOnce(K, s) PROVE SeqOnce(K, t)
  <2> SUFFICES ASSUME NEW i \in 1 .. Len(t), NEW j \in 1 .. Len(t), t[i] \in K, t[i] = t[j] PROVE i = j
    BY DEF SeqOnce
  <2>1. i \in 1 .. Len(s) - m /\ j \in 1 .. Len(s) - m /\ m + i \in 1 .. Len(s) /\ m + j \in 1 .. Len(s)
    BY <1>2
  <2>2. s[m + i] \in K /\ s[m + i] = s[m + j]
    BY <1>2, <2>1
  <2>3. m + i = m + j
    BY <1>4, <2>1, <2>2 DEF SeqOnce
  <2> QED
    BY <2>1, <2>3
<1> QED
  BY <1>2, <1>3, <1>4 DEF t

\* Every step keeps the connections where they are and what they owe.
LEMMA HpStep == HpInv /\ [HpNext]_hpVars => HpInv'
<1> SUFFICES ASSUME HpInv, [HpNext]_hpVars PROVE HpInv'
  OBVIOUS
<1> USE DEF HpInv, HpPlaces, HpOwed
<1>1. ASSUME NEW u \in HpUsers, HpTake(u) PROVE HpInv'
  <2> DEFINE good == {k \in DOMAIN hpPool : ~HpBad(hpPool[k])}
             first == IF good = {} THEN Len(hpPool) + 1 ELSE CHOOSE k \in good : \A j \in good : k <= j
             new == [at |-> "took", conn |-> IF good = {} THEN "none" ELSE hpPool[first], req |-> hpReqs + 1,
                     answer |-> 0, dels |-> {hpPool[k] : k \in 1 .. first - 1}]
  <2>1. /\ hpUser[u].at = "out" /\ hpReqs' = hpReqs + 1 /\ hpUser' = [hpUser EXCEPT ![u] = new]
        /\ hpPool' = SubSeq(hpPool, first + 1, Len(hpPool)) /\ UNCHANGED <<hpConn, hpTotal>>
    BY <1>1 DEF HpTake
  <2>2. first \in 1 .. Len(hpPool) + 1 /\ (good # {} => first \in good) /\ (good = {} => first = Len(hpPool) + 1)
    <3>1. CASE good = {}
      BY <3>1 DEF HpTypeOK
    <3>2. CASE good # {}
      <4>1. good \in SUBSET Nat
        BY DEF HpTypeOK
      <4>2. \E m \in good : \A k \in good : m <= k
        BY <3>2, <4>1, StoreLeast
      <4>3. first \in good
        BY <3>2, <4>2
      <4> QED
        BY <3>2, <4>3 DEF HpTypeOK
    <3> QED
      BY <3>1, <3>2
  <2> DEFINE cn == new.conn
  <2>3. /\ good = {} => cn = "none"
        /\ good # {} => first \in 1 .. Len(hpPool) /\ cn = hpPool[first] /\ cn \in HpConns /\ ~HpBad(cn)
    BY <2>2 DEF HpTypeOK
  <2>4. \A d : d \in new.dels <=> \E k \in 1 .. first - 1 : hpPool[k] = d
    OBVIOUS
  <2> HIDE DEF good, first
  <2>5. new \in HpUserType
    <3>1. 1 .. first - 1 \subseteq 1 .. Len(hpPool)
      BY <2>2 DEF HpTypeOK
    <3>2. new.dels \in SUBSET HpConns
      BY <3>1 DEF HpTypeOK
    <3>3. new.conn \in HpConns \cup {"none"}
      BY <2>3
    <3> QED
      BY <3>2, <3>3 DEF HpUserType, HpTypeOK
  <2>6. /\ new.at = "took" /\ new.answer = 0
    OBVIOUS
  <2> HIDE DEF new
  <2>7. /\ hpUser' \in [HpUsers -> HpUserType] /\ \A v \in HpUsers : v # u => hpUser'[v] = hpUser[v]
        /\ hpUser'[u] = new
    BY <2>1, <2>5 DEF HpTypeOK
  <2>8. /\ hpPool' \in Seq(HpConns) /\ SeqOnce(HpConns, hpPool')
        /\ \A d : SeqHas(d, hpPool') <=> \E k \in first + 1 .. Len(hpPool) : hpPool[k] = d
    BY <2>1, <2>2, SeqHasSuffix DEF HpTypeOK
  <2>9. \A i, j \in 1 .. Len(hpPool) : hpPool[i] = hpPool[j] => i = j
    BY DEF SeqOnce, HpTypeOK
  <2>10. \A d \in new.dels : SeqHas(d, hpPool) /\ ~SeqHas(d, hpPool') /\ d # cn
    <3> SUFFICES ASSUME NEW k \in 1 .. first - 1 PROVE SeqHas(hpPool[k], hpPool) /\ ~SeqHas(hpPool[k], hpPool') /\ hpPool[k] # cn
      BY <2>4
    <3>1. k \in 1 .. Len(hpPool)
      BY <2>2 DEF HpTypeOK
    <3>2. hpPool[k] \in HpConns /\ k < first
      BY <2>2, <3>1 DEF HpTypeOK
    <3>3. ~SeqHas(hpPool[k], hpPool')
      BY <2>2, <2>8, <2>9, <3>1, <3>2 DEF HpTypeOK
    <3>4. hpPool[k] # cn
      BY <2>3, <2>9, <3>1, <3>2, HttpPoolAssumption
    <3> QED
      BY <3>1, <3>3, <3>4 DEF SeqHas
  <2>11. cn # "none" => SeqHas(cn, hpPool) /\ ~SeqHas(cn, hpPool') /\ ~HpBad(cn) /\ cn \in HpConns
    BY <2>2, <2>3, <2>8, <2>9, SMTT(30) DEF SeqHas, HpTypeOK
  <2>12. ~SeqHas("none", hpPool')
    BY <2>8, HttpPoolAssumption DEF SeqHas
  <2>13. \A d : SeqHas(d, hpPool) <=> SeqHas(d, hpPool') \/ d \in new.dels \/ (d = cn /\ d # "none")
    <3>1. ASSUME NEW d, SeqHas(d, hpPool) PROVE SeqHas(d, hpPool') \/ d \in new.dels \/ (d = cn /\ d # "none")
      <4>1. PICK k \in 1 .. Len(hpPool) : hpPool[k] = d
        BY <3>1 DEF SeqHas
      <4>2. d \in HpConns
        BY <4>1 DEF HpTypeOK
      <4>3. k \in 1 .. first - 1 \/ k = first \/ k \in first + 1 .. Len(hpPool)
        BY <2>2 DEF HpTypeOK
      <4>4. k = first => d = cn
        BY <2>2, <2>3, <4>1 DEF HpTypeOK
      <4> QED
        BY <2>4, <2>8, <4>1, <4>2, <4>3, <4>4, HttpPoolAssumption
    <3>2. ASSUME NEW d, SeqHas(d, hpPool') PROVE SeqHas(d, hpPool)
      BY <2>2, <2>8, <3>2 DEF SeqHas, HpTypeOK
    <3> QED
      BY <2>10, <2>11, <3>1, <3>2
  <2>14. hpUser[u].conn = "none" /\ hpUser[u].dels = {}
    BY <2>1 DEF HpPlaceInv
  <2>15. HpTypeOK'
    BY <2>1, <2>7, <2>8 DEF HpTypeOK
  <2>16. ASSUME NEW w \in HpUsers PROVE HpPlaceInv(w)'
    <3>1. CASE w = u
      BY <2>6, <2>7, <2>10, <2>11, <2>12, <2>13, <2>14, HttpPoolAssumption, <3>1 DEF HpPlaceInv
    <3>2. CASE w # u
      BY <2>6, <2>7, <2>10, <2>11, <2>12, <2>13, <2>14, HttpPoolAssumption, <3>2 DEF HpPlaceInv
    <3> QED
      BY <3>1, <3>2
  <2>17. ASSUME NEW w \in HpUsers PROVE HpOwedInv(w)'
    <3>1. CASE w = u
      BY <2>1, <2>6, <2>7, <2>11, <3>1 DEF HpOwedInv, HpPlaceInv, HpTypeOK, HpUserType, HpIdleInv, HpBad
    <3>2. CASE w # u
      BY <2>1, <2>6, <2>7, <2>11, <3>2 DEF HpOwedInv, HpPlaceInv, HpTypeOK, HpUserType, HpIdleInv, HpBad
    <3> QED
      BY <3>1, <3>2
  <2>18. ASSUME NEW d \in HpConns PROVE HpIdleInv(d)'
    BY <2>1, <2>13 DEF HpIdleInv, HpOwedInv
  <2>19. HpTotalInv'
    <3>1. HpAll' = HpAll
      BY <2>7, <2>13, <2>14, <2>15, HpAllIs, HpAllIsNext
    <3> QED
      BY <2>1, <3>1 DEF HpTotalInv
  <2> QED
    BY <2>15, <2>16, <2>17, <2>18, <2>19, <2>8 DEF HpPlaces, HpOwed
<1>2. ASSUME NEW u \in HpUsers, HpDrop(u) PROVE HpInv'
  <2>1. /\ hpUser[u].at = "took" /\ hpTotal' = hpTotal - Cardinality(hpUser[u].dels)
        /\ hpUser' = [hpUser EXCEPT ![u].dels = {}, ![u].at = IF hpUser[u].conn = "none" THEN "dial" ELSE "send"]
        /\ UNCHANGED <<hpPool, hpConn, hpReqs>>
    BY <1>2, Zenon DEF HpDrop
  <2>2. /\ hpUser[u].at = "took" /\ hpTotal' = hpTotal - Cardinality(hpUser[u].dels)
        /\ UNCHANGED <<hpPool, hpConn, hpReqs>>
    BY <2>1, Zenon
  <2>3. /\ hpUser' \in [HpUsers -> HpUserType] /\ \A v \in HpUsers : v # u => hpUser'[v] = hpUser[v]
        /\ hpUser'[u].at = (IF hpUser[u].conn = "none" THEN "dial" ELSE "send") /\ hpUser'[u].conn = hpUser[u].conn /\ hpUser'[u].req = hpUser[u].req /\ hpUser'[u].answer = hpUser[u].answer /\ hpUser'[u].dels = {}
    <3>1. (IF hpUser[u].conn = "none" THEN "dial" ELSE "send") \in {"send", "dial"}
      OBVIOUS
    <3> QED
      BY <2>1, <3>1, HpSetDels, Zenon
  <2>4. IsFiniteSet(hpUser[u].dels) /\ Cardinality(hpUser[u].dels) \in Nat /\ hpUser[u].dels \subseteq HpAll
    <3>1. hpUser[u].dels \subseteq HpAll
      BY DEF HpAll, HpDoomed
    <3> QED
      BY <3>1, FS_Subset, FS_CardinalityType DEF HpTotalInv
  <2>5. HpTypeOK'
    BY <2>2, <2>3, <2>4 DEF HpTypeOK
  <2>6. ASSUME NEW w \in HpUsers PROVE HpPlaceInv(w)'
    <3>1. CASE w = u
      BY <2>2, <2>3, <3>1 DEF HpPlaceInv
    <3>2. CASE w # u
      BY <2>2, <2>3, <3>2 DEF HpPlaceInv
    <3> QED
      BY <3>1, <3>2
  <2>7. ASSUME NEW w \in HpUsers PROVE HpOwedInv(w)'
    <3>1. CASE w = u
      BY <2>2, <2>3, <3>1 DEF HpOwedInv, HpPlaceInv, HpTypeOK, HpUserType
    <3>2. CASE w # u
      BY <2>2, <2>3, <3>2 DEF HpOwedInv, HpPlaceInv, HpTypeOK, HpUserType
    <3> QED
      BY <3>1, <3>2
  <2>8. ASSUME NEW d \in HpConns PROVE HpIdleInv(d)'
    BY <2>2 DEF HpIdleInv, HpOwedInv
  <2>9. HpTotalInv'
    <3>1. HpAll' = HpAll \ hpUser[u].dels
      <4>1. \A v \in HpUsers : hpUser[v].conn \notin hpUser[u].dels /\ (v # u => hpUser[v].dels \cap hpUser[u].dels = {})
        BY DEF HpPlaceInv
      <4>2. \A d \in hpUser[u].dels : ~SeqHas(d, hpPool)
        BY DEF HpPlaceInv
      <4> QED
        BY <2>2, <2>3, <4>1, <4>2, <2>5, HpAllIs, HpAllIsNext
    <3>2. /\ IsFiniteSet(HpAll \ hpUser[u].dels)
          /\ Cardinality(HpAll) = Cardinality(HpAll \ hpUser[u].dels) + Cardinality(hpUser[u].dels)
      BY <2>4, CardSplit DEF HpTotalInv
    <3> QED
      BY <2>2, <2>4, <3>1, <3>2, FS_CardinalityType DEF HpTotalInv
  <2> QED
    BY <2>5, <2>6, <2>7, <2>8, <2>9, <2>2 DEF HpPlaces, HpOwed
<1>3. ASSUME NEW u \in HpUsers, HpRecv(u) PROVE HpInv'
  <2>1. PICK c \in HpConns : c = hpUser[u].conn
    <3>1. hpUser[u].at \in {"send", "recv", "free"} /\ HpPlaceInv(u) /\ hpUser[u] \in HpUserType
      BY <1>3, Zenon DEF HpRecv, HpPlaces, HpTypeOK
    <3>2. hpUser[u].conn \in HpConns
      BY <3>1 DEF HpPlaceInv, HpUserType
    <3> QED
      BY <3>2, Zenon
  <2>2. ~SeqHas(c, hpPool) /\ \A v \in HpUsers : v # u => hpUser[v].conn # c
    BY <2>1, HttpPoolAssumption DEF HpPlaceInv
  <2>3. /\ hpUser[u].at = "recv" /\ hpUser' = [hpUser EXCEPT ![u].at = "free", ![u].answer = Head(hpConn[c].owed)]
        /\ hpConn' = [hpConn EXCEPT ![c].owed = Tail(@)] /\ UNCHANGED <<hpPool, hpTotal, hpReqs>>
    BY <1>3, <2>1, Zenon DEF HpRecv
  <2>4. hpUser[u].at = "recv" /\ UNCHANGED <<hpPool, hpTotal, hpReqs>>
    BY <2>3, Zenon
  <2>5. Head(hpConn[c].owed) \in Nat /\ Tail(hpConn[c].owed) \in Seq(Nat)
    <3>1. hpConn[c].owed \in Seq(Nat) /\ hpConn[c].owed # <<>>
      BY <2>1, <2>4 DEF HpOwedInv, HpTypeOK, HpConnType
    <3> QED
      BY <3>1
  <2>6. /\ hpUser' \in [HpUsers -> HpUserType] /\ \A v \in HpUsers : v # u => hpUser'[v] = hpUser[v]
        /\ hpUser'[u].at = "free" /\ hpUser'[u].conn = hpUser[u].conn /\ hpUser'[u].req = hpUser[u].req /\ hpUser'[u].answer = Head(hpConn[c].owed) /\ hpUser'[u].dels = hpUser[u].dels
    BY <2>3, <2>5, HpSetAnswer, Zenon
  <2>7. hpConn' = [hpConn EXCEPT ![c].owed = Tail(hpConn[c].owed)]
    BY <2>3, Zenon DEF HpTypeOK
  <2>8. /\ hpConn' \in [HpConns -> HpConnType] /\ \A d \in HpConns : d # c => hpConn'[d] = hpConn[d]
        /\ hpConn'[c].open = hpConn[c].open /\ hpConn'[c].owed = Tail(hpConn[c].owed) /\ hpConn'[c].half = hpConn[c].half
    BY <2>5, <2>7, HpSetOwed, Zenon
  <2>9. ~hpConn[c].half => Tail(hpConn[c].owed) = <<>> /\ Head(hpConn[c].owed) = hpUser[u].req
    <3>1. ~hpConn[c].half => hpConn[c].owed = <<hpUser[u].req>>
      BY <2>1, <2>4, HttpPoolAssumption DEF HpOwedInv
    <3>2. \A n : Tail(<<n>>) = <<>> /\ Head(<<n>>) = n
      OBVIOUS
    <3> QED
      BY <3>1, <3>2, Zenon
  <2>10. HpTypeOK'
    BY <2>4, <2>6, <2>8 DEF HpTypeOK
  <2>11. ASSUME NEW w \in HpUsers PROVE HpPlaceInv(w)'
    <3>1. CASE w = u
      BY <2>4, <2>6, <3>1 DEF HpPlaceInv
    <3>2. CASE w # u
      BY <2>4, <2>6, <3>2 DEF HpPlaceInv
    <3> QED
      BY <3>1, <3>2
  <2>12. ASSUME NEW w \in HpUsers PROVE HpOwedInv(w)'
    <3>1. CASE w = u
      BY <2>1, <2>2, <2>4, <2>6, <2>8, <2>9, <3>1 DEF HpOwedInv, HpPlaceInv, HpTypeOK, HpUserType
    <3>2. CASE w # u
      BY <2>1, <2>2, <2>4, <2>6, <2>8, <2>9, <3>2 DEF HpOwedInv, HpPlaceInv, HpTypeOK, HpUserType
    <3> QED
      BY <3>1, <3>2
  <2>13. ASSUME NEW d \in HpConns PROVE HpIdleInv(d)'
    <3>1. CASE d = c
      BY <2>2, <2>4, <2>8, <3>1 DEF HpIdleInv, HpOwedInv
    <3>2. CASE d # c
      BY <2>2, <2>4, <2>8, <3>2 DEF HpIdleInv, HpOwedInv
    <3> QED
      BY <3>1, <3>2
  <2>14. HpTotalInv'
    <3>1. \A v \in HpUsers : hpUser'[v].conn = hpUser[v].conn /\ hpUser'[v].dels = hpUser[v].dels
      BY <2>4, <2>6
    <3>2. hpPool' = hpPool /\ hpTotal' = hpTotal
      BY <2>4, <2>6
    <3>3. HpAll' = HpAll
      BY <3>1, <3>2 DEF HpAll, HpPooled, HpHeld, HpDoomed
    <3> QED
      BY <3>2, <3>3 DEF HpTotalInv
  <2> QED
    BY <2>10, <2>11, <2>12, <2>13, <2>14, <2>4 DEF HpPlaces, HpOwed
<1>4. ASSUME NEW u \in HpUsers, HpTimeout(u) PROVE HpInv'
  <2>1. PICK c \in HpConns : c = hpUser[u].conn
    <3>1. hpUser[u].at \in {"send", "recv", "free"} /\ HpPlaceInv(u) /\ hpUser[u] \in HpUserType
      BY <1>4, Zenon DEF HpTimeout, HpPlaces, HpTypeOK
    <3>2. hpUser[u].conn \in HpConns
      BY <3>1 DEF HpPlaceInv, HpUserType
    <3> QED
      BY <3>2, Zenon
  <2>2. ~SeqHas(c, hpPool) /\ \A v \in HpUsers : v # u => hpUser[v].conn # c
    BY <2>1, HttpPoolAssumption DEF HpPlaceInv
  <2>3. /\ hpUser[u].at = "recv" /\ hpUser' = [hpUser EXCEPT ![u].at = "free"]
        /\ hpConn' = [hpConn EXCEPT ![c].open = FALSE] /\ UNCHANGED <<hpPool, hpTotal, hpReqs>>
    BY <1>4, <2>1, Zenon DEF HpTimeout
  <2>4. hpUser[u].at = "recv" /\ UNCHANGED <<hpPool, hpTotal, hpReqs>>
    BY <2>3, Zenon
  <2>5. /\ hpUser' \in [HpUsers -> HpUserType] /\ \A v \in HpUsers : v # u => hpUser'[v] = hpUser[v]
        /\ hpUser'[u].at = "free" /\ hpUser'[u].conn = hpUser[u].conn /\ hpUser'[u].req = hpUser[u].req /\ hpUser'[u].answer = hpUser[u].answer /\ hpUser'[u].dels = hpUser[u].dels
    BY <2>3, HpSetAt, Zenon
  <2>6. /\ hpConn' \in [HpConns -> HpConnType] /\ \A d \in HpConns : d # c => hpConn'[d] = hpConn[d]
        /\ hpConn'[c].open = FALSE /\ hpConn'[c].owed = hpConn[c].owed /\ hpConn'[c].half = hpConn[c].half
    BY <2>3, HpSetOpen, Zenon
  <2>7. HpTypeOK'
    BY <2>4, <2>5, <2>6 DEF HpTypeOK
  <2>8. ASSUME NEW w \in HpUsers PROVE HpPlaceInv(w)'
    <3>1. CASE w = u
      BY <2>4, <2>5, <3>1 DEF HpPlaceInv
    <3>2. CASE w # u
      BY <2>4, <2>5, <3>2 DEF HpPlaceInv
    <3> QED
      BY <3>1, <3>2
  <2>9. ASSUME NEW w \in HpUsers PROVE HpOwedInv(w)'
    <3>1. CASE w = u
      BY <2>1, <2>2, <2>4, <2>5, <2>6, <3>1 DEF HpOwedInv, HpPlaceInv, HpTypeOK, HpUserType
    <3>2. CASE w # u
      BY <2>1, <2>2, <2>4, <2>5, <2>6, <3>2 DEF HpOwedInv, HpPlaceInv, HpTypeOK, HpUserType
    <3> QED
      BY <3>1, <3>2
  <2>10. ASSUME NEW d \in HpConns PROVE HpIdleInv(d)'
    <3>1. CASE d = c
      BY <2>2, <2>4, <2>6, <3>1 DEF HpIdleInv, HpOwedInv
    <3>2. CASE d # c
      BY <2>2, <2>4, <2>6, <3>2 DEF HpIdleInv, HpOwedInv
    <3> QED
      BY <3>1, <3>2
  <2>11. HpTotalInv'
    <3>1. \A v \in HpUsers : hpUser'[v].conn = hpUser[v].conn /\ hpUser'[v].dels = hpUser[v].dels
      BY <2>4, <2>5
    <3>2. hpPool' = hpPool /\ hpTotal' = hpTotal
      BY <2>4, <2>5
    <3>3. HpAll' = HpAll
      BY <3>1, <3>2 DEF HpAll, HpPooled, HpHeld, HpDoomed
    <3> QED
      BY <3>2, <3>3 DEF HpTotalInv
  <2> QED
    BY <2>7, <2>8, <2>9, <2>10, <2>11, <2>4 DEF HpPlaces, HpOwed
<1>5. ASSUME NEW u \in HpUsers, HpRelease(u) PROVE HpInv'
  <2>1. PICK c \in HpConns : c = hpUser[u].conn
    <3>1. hpUser[u].at \in {"send", "recv", "free"} /\ HpPlaceInv(u) /\ hpUser[u] \in HpUserType
      BY <1>5, Zenon DEF HpRelease, HpPlaces, HpTypeOK
    <3>2. hpUser[u].conn \in HpConns
      BY <3>1 DEF HpPlaceInv, HpUserType
    <3> QED
      BY <3>2, Zenon
  <2>2. ~SeqHas(c, hpPool) /\ \A v \in HpUsers : v # u => hpUser[v].conn # c
    BY <2>1, HttpPoolAssumption DEF HpPlaceInv
  <2>3. /\ hpUser[u].at = "free" /\ hpUser' = [hpUser EXCEPT ![u] = HpOut] /\ hpReqs' = hpReqs
        /\ hpConn' = [hpConn EXCEPT ![c].reqs = @ + 1]
        /\ \/ hpTotal' = hpTotal - 1 /\ hpPool' = hpPool
           \/ ~HpBad(c) /\ hpPool' = Append(hpPool, c) /\ hpTotal' = hpTotal
    BY <1>5, <2>1, Zenon DEF HpRelease
  <2>4. hpUser[u].at = "free" /\ hpUser' = [hpUser EXCEPT ![u] = HpOut] /\ hpReqs' = hpReqs
    BY <2>3, Zenon
  <2>5. /\ hpUser' \in [HpUsers -> HpUserType] /\ \A v \in HpUsers : v # u => hpUser'[v] = hpUser[v]
        /\ hpUser'[u].at = "out" /\ hpUser'[u].conn = "none" /\ hpUser'[u].req = 0 /\ hpUser'[u].answer = 0
        /\ hpUser'[u].dels = {}
    BY <2>4 DEF HpOut, HpTypeOK, HpUserType
  <2>6. /\ hpConn' \in [HpConns -> HpConnType] /\ \A d \in HpConns : d # c => hpConn'[d] = hpConn[d]
        /\ hpConn'[c].open = hpConn[c].open /\ hpConn'[c].owed = hpConn[c].owed /\ hpConn'[c].half = hpConn[c].half
    <3>1. hpConn' = [hpConn EXCEPT ![c].reqs = hpConn[c].reqs + 1]
      BY <2>3, Zenon DEF HpTypeOK
    <3>2. hpConn[c].reqs + 1 \in Nat
      BY DEF HpTypeOK, HpConnType
    <3> QED
      BY <3>1, <3>2, HpSetReqs, Zenon
  <2>7. \A d \in HpConns : /\ hpConn'[d].open = hpConn[d].open /\ hpConn'[d].owed = hpConn[d].owed
                           /\ hpConn'[d].half = hpConn[d].half
    BY <2>6
  <2>8. hpUser[u].dels = {} /\ \A v \in HpUsers : c \notin hpUser[v].dels
    BY <2>1, <2>4 DEF HpPlaceInv
  <2>9. ~SeqHas("none", hpPool) /\ \A v \in HpUsers : "none" \notin hpUser[v].dels
    BY HttpPoolAssumption DEF HpTypeOK, HpUserType, SeqHas
  <2>10. ASSUME NEW v \in HpUsers, v # u, hpUser[v].conn # "none" PROVE hpConn'[hpUser[v].conn] = hpConn[hpUser[v].conn]
    BY <2>2, <2>6, <2>10 DEF HpTypeOK, HpUserType
  <2>11. CASE hpTotal' = hpTotal - 1 /\ hpPool' = hpPool
    <3>1. HpTypeOK'
      BY <2>4, <2>5, <2>6, <2>11 DEF HpTypeOK
    <3>2. ASSUME NEW w \in HpUsers PROVE HpPlaceInv(w)'
      <4>1. CASE w = u
        BY <2>5, <2>11, <2>9, HttpPoolAssumption, <4>1 DEF HpPlaceInv
      <4>2. CASE w # u
        BY <2>5, <2>11, <2>9, HttpPoolAssumption, <4>2 DEF HpPlaceInv
      <4> QED
        BY <4>1, <4>2
    <3>3. ASSUME NEW w \in HpUsers PROVE HpOwedInv(w)'
      <4>1. CASE w = u
        BY <2>5, <2>10, <4>1 DEF HpOwedInv, HpPlaceInv, HpTypeOK, HpUserType
      <4>2. CASE w # u
        BY <2>5, <2>10, <4>2 DEF HpOwedInv, HpPlaceInv, HpTypeOK, HpUserType
      <4> QED
        BY <4>1, <4>2
    <3>4. ASSUME NEW d \in HpConns PROVE HpIdleInv(d)'
      BY <2>7, <2>11 DEF HpIdleInv, HpOwedInv
    <3>5. HpTotalInv'
      <4>1. HpAll' = HpAll \ {c} /\ c \in HpAll
        BY <2>1, <2>2, <2>5, <2>8, <2>11, <3>1, HpAllIs, HpAllIsNext, HttpPoolAssumption
      <4> QED
        BY <2>11, <4>1, FS_RemoveElement DEF HpTotalInv
    <3> QED
      BY <3>1, <3>2, <3>3, <3>4, <3>5, <2>11 DEF HpPlaces, HpOwed
  <2>12. CASE ~HpBad(c) /\ hpPool' = Append(hpPool, c) /\ hpTotal' = hpTotal
    <3>1. /\ hpPool' \in Seq(HpConns) /\ SeqOnce(HpConns, hpPool')
          /\ \A d : SeqHas(d, hpPool') <=> SeqHas(d, hpPool) \/ d = c
      BY <2>2, <2>12, SeqHasAppend DEF HpTypeOK
    <3>2. ~hpConn[c].half => hpConn[c].owed = <<>>
      BY <2>1, <2>4, <2>12, HttpPoolAssumption DEF HpOwedInv, HpBad
    <3>3. HpTypeOK'
      BY <2>4, <2>5, <2>6, <2>12, <3>1 DEF HpTypeOK
    <3>4. ASSUME NEW w \in HpUsers PROVE HpPlaceInv(w)'
      <4>1. CASE w = u
        BY <2>2, <2>5, <2>8, <2>9, <3>1, HttpPoolAssumption, <4>1 DEF HpPlaceInv
      <4>2. CASE w # u
        BY <2>2, <2>5, <2>8, <2>9, <3>1, HttpPoolAssumption, <4>2 DEF HpPlaceInv
      <4> QED
        BY <4>1, <4>2
    <3>5. ASSUME NEW w \in HpUsers PROVE HpOwedInv(w)'
      <4>1. CASE w = u
        BY <2>5, <2>10, <4>1 DEF HpOwedInv, HpPlaceInv, HpTypeOK, HpUserType
      <4>2. CASE w # u
        BY <2>5, <2>10, <4>2 DEF HpOwedInv, HpPlaceInv, HpTypeOK, HpUserType
      <4> QED
        BY <4>1, <4>2
    <3>6. ASSUME NEW d \in HpConns PROVE HpIdleInv(d)'
      <4>1. CASE d = c
        BY <2>7, <3>1, <3>2, <4>1 DEF HpIdleInv, HpOwedInv
      <4>2. CASE d # c
        BY <2>7, <3>1, <3>2, <4>2 DEF HpIdleInv, HpOwedInv
      <4> QED
        BY <4>1, <4>2
    <3>7. HpTotalInv'
      <4>1. ASSUME NEW d PROVE d \in HpAll' <=> d \in HpAll
        <5>1. d \in HpAll <=> \/ SeqHas(d, hpPool) \/ \E v \in HpUsers : d = hpUser[v].conn /\ d # "none"
                              \/ \E v \in HpUsers : d \in hpUser[v].dels
          BY HpAllIs
        <5>2. d \in HpAll' <=> \/ SeqHas(d, hpPool') \/ \E v \in HpUsers : d = hpUser'[v].conn /\ d # "none"
                               \/ \E v \in HpUsers : d \in hpUser'[v].dels
          BY <3>3, HpAllIsNext
        <5>3. c # "none"
          BY HttpPoolAssumption
        <5> QED
          BY <2>1, <2>5, <2>8, <3>1, <5>1, <5>2, <5>3
      <4>2. HpAll' = HpAll
        BY <4>1
      <4> QED
        BY <2>12, <4>2 DEF HpTotalInv
    <3> QED
      BY <3>3, <3>4, <3>5, <3>6, <3>7, <3>1 DEF HpPlaces, HpOwed
  <2> QED
    BY <2>3, <2>11, <2>12, Zenon
<1>6. ASSUME NEW u \in HpUsers, NEW ok \in BOOLEAN, HpSend(u, ok) PROVE HpInv'
  <2>1. PICK c \in HpConns : c = hpUser[u].conn
    <3>1. hpUser[u].at \in {"send", "recv", "free"} /\ HpPlaceInv(u) /\ hpUser[u] \in HpUserType
      BY <1>6, Zenon DEF HpSend, HpPlaces, HpTypeOK
    <3>2. hpUser[u].conn \in HpConns
      BY <3>1 DEF HpPlaceInv, HpUserType
    <3> QED
      BY <3>2, Zenon
  <2>2. ~SeqHas(c, hpPool) /\ \A v \in HpUsers : v # u => hpUser[v].conn # c
    BY <2>1, HttpPoolAssumption DEF HpPlaceInv
  <2>3. /\ hpUser[u].at = "send" /\ hpUser' = [hpUser EXCEPT ![u].at = IF ok THEN "recv" ELSE "free"]
        /\ hpConn' = (IF ok THEN [hpConn EXCEPT ![c].owed = Append(@, hpUser[u].req)]
                            ELSE [hpConn EXCEPT ![c].half = TRUE])
        /\ UNCHANGED <<hpPool, hpTotal, hpReqs>>
    BY <1>6, <2>1, Zenon DEF HpSend
  <2>4. hpUser[u].at = "send" /\ UNCHANGED <<hpPool, hpTotal, hpReqs>>
    BY <2>3, Zenon
  <2>5. /\ hpUser' \in [HpUsers -> HpUserType] /\ \A v \in HpUsers : v # u => hpUser'[v] = hpUser[v]
        /\ hpUser'[u].at = (IF ok THEN "recv" ELSE "free") /\ hpUser'[u].conn = hpUser[u].conn /\ hpUser'[u].req = hpUser[u].req /\ hpUser'[u].answer = hpUser[u].answer /\ hpUser'[u].dels = hpUser[u].dels
    <3>1. (IF ok THEN "recv" ELSE "free") \in {"send", "recv", "free", "dial"}
      OBVIOUS
    <3> QED
      BY <2>3, <3>1, HpSetAt, Zenon
  <2>6. CASE ok
    <3>1. hpConn' = [hpConn EXCEPT ![c].owed = Append(hpConn[c].owed, hpUser[u].req)]
      BY <2>3, <2>6, Zenon DEF HpTypeOK
    <3>2. hpConn[c].owed \in Seq(Nat) /\ hpUser[u].req \in Nat
      BY DEF HpTypeOK, HpConnType, HpUserType
    <3>3. Append(hpConn[c].owed, hpUser[u].req) \in Seq(Nat) /\ Append(hpConn[c].owed, hpUser[u].req) # <<>>
      BY <3>2
    <3>4. /\ hpConn' \in [HpConns -> HpConnType] /\ \A d \in HpConns : d # c => hpConn'[d] = hpConn[d]
          /\ hpConn'[c].open = hpConn[c].open /\ hpConn'[c].half = hpConn[c].half
          /\ hpConn'[c].owed = Append(hpConn[c].owed, hpUser[u].req)
      BY <3>1, <3>3, HpSetOwed, Zenon
    <3>5. ~hpConn[c].half => Append(hpConn[c].owed, hpUser[u].req) = <<hpUser[u].req>>
      <4>1. ~hpConn[c].half => hpConn[c].owed = <<>>
        BY <2>1, <2>4, HttpPoolAssumption DEF HpOwedInv
      <4>2. \A n : Append(<<>>, n) = <<n>>
        OBVIOUS
      <4> QED
        BY <4>1, <4>2, Zenon
    <3>6. hpUser'[u].at = "recv" /\ hpUser[u].answer = 0
      BY <2>4, <2>5, <2>6 DEF HpOwedInv
    <3>7. HpTypeOK'
      BY <2>4, <2>5, <3>4 DEF HpTypeOK
    <3>8. ASSUME NEW w \in HpUsers PROVE HpPlaceInv(w)'
      <4>1. CASE w = u
        BY <2>4, <2>5, <3>6, <4>1 DEF HpPlaceInv
      <4>2. CASE w # u
        BY <2>4, <2>5, <3>6, <4>2 DEF HpPlaceInv
      <4> QED
        BY <4>1, <4>2
    <3>9. ASSUME NEW w \in HpUsers PROVE HpOwedInv(w)'
      <4>1. CASE w = u
        BY <2>1, <2>2, <2>4, <2>5, <3>3, <3>4, <3>5, <3>6, <4>1, ZenonT(30) DEF HpOwedInv, HpPlaceInv, HpTypeOK, HpUserType
      <4>2. CASE w # u
        <5>1. hpUser'[w] = hpUser[w] /\ hpUser[w] \in HpUserType /\ hpUser[w].conn # c
          BY <2>2, <2>5, <4>2 DEF HpTypeOK
        <5>2. hpUser[w].conn # "none" => hpConn'[hpUser[w].conn] = hpConn[hpUser[w].conn]
          BY <5>1, <3>4 DEF HpUserType
        <5>3. HpOwedInv(w) /\ (hpUser[w].at = "recv" => hpUser[w].conn # "none")
          BY DEF HpPlaceInv
        <5> QED
          BY <5>1, <5>2, <5>3 DEF HpOwedInv
      <4> QED
        BY <4>1, <4>2
    <3>10. ASSUME NEW d \in HpConns PROVE HpIdleInv(d)'
      <4>1. CASE d = c
        BY <2>2, <2>4, <3>4, <4>1 DEF HpIdleInv, HpOwedInv
      <4>2. CASE d # c
        BY <2>2, <2>4, <3>4, <4>2 DEF HpIdleInv, HpOwedInv
      <4> QED
        BY <4>1, <4>2
    <3>11. HpTotalInv'
      <4>1. \A v \in HpUsers : hpUser'[v].conn = hpUser[v].conn /\ hpUser'[v].dels = hpUser[v].dels
        BY <2>4, <2>5
      <4>2. hpPool' = hpPool /\ hpTotal' = hpTotal
        BY <2>4, <2>5
      <4>3. HpAll' = HpAll
        BY <4>1, <4>2 DEF HpAll, HpPooled, HpHeld, HpDoomed
      <4> QED
        BY <4>2, <4>3 DEF HpTotalInv
    <3> QED
      BY <3>7, <3>8, <3>9, <3>10, <3>11, <2>4 DEF HpPlaces, HpOwed
  <2>7. CASE ~ok
    <3>1. hpConn' = [hpConn EXCEPT ![c].half = TRUE]
      BY <2>3, <2>7, Zenon
    <3>2. /\ hpConn' \in [HpConns -> HpConnType] /\ \A d \in HpConns : d # c => hpConn'[d] = hpConn[d]
          /\ hpConn'[c].half = TRUE
      BY <3>1, HpSetHalf, Zenon
    <3>3. hpUser'[u].at = "free" /\ hpUser[u].answer = 0
      BY <2>4, <2>5, <2>7 DEF HpOwedInv
    <3>4. HpTypeOK'
      BY <2>4, <2>5, <3>2 DEF HpTypeOK
    <3>5. ASSUME NEW w \in HpUsers PROVE HpPlaceInv(w)'
      <4>1. CASE w = u
        BY <2>4, <2>5, <3>3, <4>1 DEF HpPlaceInv
      <4>2. CASE w # u
        BY <2>4, <2>5, <3>3, <4>2 DEF HpPlaceInv
      <4> QED
        BY <4>1, <4>2
    <3>6. ASSUME NEW w \in HpUsers PROVE HpOwedInv(w)'
      <4>1. CASE w = u
        BY <2>1, <2>2, <2>4, <2>5, <3>2, <3>3, <4>1 DEF HpOwedInv, HpPlaceInv, HpTypeOK, HpUserType
      <4>2. CASE w # u
        BY <2>1, <2>2, <2>4, <2>5, <3>2, <3>3, <4>2 DEF HpOwedInv, HpPlaceInv, HpTypeOK, HpUserType
      <4> QED
        BY <4>1, <4>2
    <3>7. ASSUME NEW d \in HpConns PROVE HpIdleInv(d)'
      <4>1. CASE d = c
        BY <2>2, <2>4, <3>2, <4>1 DEF HpIdleInv, HpOwedInv
      <4>2. CASE d # c
        BY <2>2, <2>4, <3>2, <4>2 DEF HpIdleInv, HpOwedInv
      <4> QED
        BY <4>1, <4>2
    <3>8. HpTotalInv'
      <4>1. \A v \in HpUsers : hpUser'[v].conn = hpUser[v].conn /\ hpUser'[v].dels = hpUser[v].dels
        BY <2>4, <2>5
      <4>2. hpPool' = hpPool /\ hpTotal' = hpTotal
        BY <2>4, <2>5
      <4>3. HpAll' = HpAll
        BY <4>1, <4>2 DEF HpAll, HpPooled, HpHeld, HpDoomed
      <4> QED
        BY <4>2, <4>3 DEF HpTotalInv
    <3> QED
      BY <3>4, <3>5, <3>6, <3>7, <3>8, <2>4 DEF HpPlaces, HpOwed
  <2> QED
    BY <2>6, <2>7
<1>7. ASSUME NEW u \in HpUsers, NEW ok \in BOOLEAN, NEW c \in HpConns, HpDial(u, c, ok) PROVE HpInv'
  <2>1. hpUser[u].at = "dial" /\ c \notin HpAll /\ UNCHANGED <<hpPool, hpReqs>>
    BY <1>7, Zenon DEF HpDial, HpAll
  <2>2. /\ ~SeqHas(c, hpPool) /\ \A v \in HpUsers : hpUser[v].conn # c /\ c \notin hpUser[v].dels
    BY <2>1, HpAllIs, HttpPoolAssumption
  <2>3. hpUser[u].conn = "none" /\ hpUser[u].dels = {} /\ hpUser[u].answer = 0
    BY <2>1 DEF HpPlaceInv, HpOwedInv
  <2>4. CASE ok
    <3>1. /\ hpConn' = [hpConn EXCEPT ![c] = HpNew] /\ hpTotal' = hpTotal + 1
          /\ hpUser' = [hpUser EXCEPT ![u].at = "send", ![u].conn = c]
      BY <1>7, <2>4, Zenon DEF HpDial
    <3>2. hpConn' = [hpConn EXCEPT ![c] = HpNew] /\ hpTotal' = hpTotal + 1
      BY <3>1, Zenon
    <3>3. /\ hpUser' \in [HpUsers -> HpUserType] /\ \A v \in HpUsers : v # u => hpUser'[v] = hpUser[v]
          /\ hpUser'[u].at = "send" /\ hpUser'[u].conn = c /\ hpUser'[u].req = hpUser[u].req /\ hpUser'[u].answer = hpUser[u].answer /\ hpUser'[u].dels = hpUser[u].dels
      BY <3>1, HpSetConn, Zenon
    <3>4. /\ hpConn' \in [HpConns -> HpConnType] /\ \A d \in HpConns : d # c => hpConn'[d] = hpConn[d]
          /\ hpConn'[c].owed = <<>> /\ hpConn'[c].half = FALSE
      BY <3>2 DEF HpNew, HpTypeOK, HpConnType
    <3>5. HpTypeOK'
      BY <2>1, <3>2, <3>3, <3>4 DEF HpTypeOK
    <3>6. ASSUME NEW w \in HpUsers PROVE HpPlaceInv(w)'
      <4>1. CASE w = u
        BY <2>1, <2>2, <2>3, <3>3, HttpPoolAssumption, <4>1 DEF HpPlaceInv
      <4>2. CASE w # u
        BY <2>1, <2>2, <2>3, <3>3, HttpPoolAssumption, <4>2 DEF HpPlaceInv
      <4> QED
        BY <4>1, <4>2
    <3>7. ASSUME NEW w \in HpUsers PROVE HpOwedInv(w)'
      <4>1. CASE w = u
        BY <2>2, <2>3, <3>3, <3>4, <4>1 DEF HpOwedInv, HpPlaceInv, HpTypeOK, HpUserType
      <4>2. CASE w # u
        BY <2>2, <2>3, <3>3, <3>4, <4>2 DEF HpOwedInv, HpPlaceInv, HpTypeOK, HpUserType
      <4> QED
        BY <4>1, <4>2
    <3>8. ASSUME NEW d \in HpConns PROVE HpIdleInv(d)'
      <4>1. CASE d = c
        BY <2>1, <2>2, <3>4, <4>1 DEF HpIdleInv, HpOwedInv
      <4>2. CASE d # c
        BY <2>1, <2>2, <3>4, <4>2 DEF HpIdleInv, HpOwedInv
      <4> QED
        BY <4>1, <4>2
    <3>9. HpTotalInv'
      <4>1. HpAll' = HpAll \cup {c}
        BY <2>1, <2>3, <3>3, <3>5, HpAllIs, HpAllIsNext, HttpPoolAssumption
      <4> QED
        BY <2>1, <3>2, <4>1, FS_AddElement DEF HpTotalInv
    <3> QED
      BY <3>5, <3>6, <3>7, <3>8, <3>9, <2>1 DEF HpPlaces, HpOwed
  <2>5. CASE ~ok
    <3>1. hpUser' = [hpUser EXCEPT ![u] = HpOut] /\ UNCHANGED <<hpConn, hpTotal>>
      BY <1>7, <2>5, Zenon DEF HpDial
    <3>2. /\ hpUser' \in [HpUsers -> HpUserType] /\ \A v \in HpUsers : v # u => hpUser'[v] = hpUser[v]
          /\ hpUser'[u].at = "out" /\ hpUser'[u].conn = "none" /\ hpUser'[u].req = 0 /\ hpUser'[u].answer = 0
          /\ hpUser'[u].dels = {}
      BY <3>1 DEF HpOut, HpTypeOK, HpUserType
    <3>3. HpTypeOK'
      BY <2>1, <3>1, <3>2 DEF HpTypeOK
    <3>4. ASSUME NEW w \in HpUsers PROVE HpPlaceInv(w)'
      <4>1. CASE w = u
        BY <2>1, <2>3, <3>2, HttpPoolAssumption, <4>1 DEF HpPlaceInv
      <4>2. CASE w # u
        BY <2>1, <2>3, <3>2, HttpPoolAssumption, <4>2 DEF HpPlaceInv
      <4> QED
        BY <4>1, <4>2
    <3>5. ASSUME NEW w \in HpUsers PROVE HpOwedInv(w)'
      <4>1. CASE w = u
        BY <3>1, <3>2, <4>1 DEF HpOwedInv, HpPlaceInv, HpTypeOK, HpUserType
      <4>2. CASE w # u
        BY <3>1, <3>2, <4>2 DEF HpOwedInv, HpPlaceInv, HpTypeOK, HpUserType
      <4> QED
        BY <4>1, <4>2
    <3>6. ASSUME NEW d \in HpConns PROVE HpIdleInv(d)'
      BY <2>1, <3>1 DEF HpIdleInv, HpOwedInv
    <3>7. HpTotalInv'
      <4>1. \A v \in HpUsers : hpUser'[v].conn = hpUser[v].conn /\ hpUser'[v].dels = hpUser[v].dels
        BY <2>1, <2>3, <3>1, <3>2
      <4>2. hpPool' = hpPool /\ hpTotal' = hpTotal
        BY <2>1, <2>3, <3>1, <3>2
      <4>3. HpAll' = HpAll
        BY <4>1, <4>2 DEF HpAll, HpPooled, HpHeld, HpDoomed
      <4> QED
        BY <4>2, <4>3 DEF HpTotalInv
    <3> QED
      BY <3>3, <3>4, <3>5, <3>6, <3>7, <2>1 DEF HpPlaces, HpOwed
  <2> QED
    BY <2>4, <2>5
<1>8. ASSUME NEW c \in HpConns, HpAges(c) PROVE HpInv'
  <2>1. hpConn' = [hpConn EXCEPT ![c].old = TRUE] /\ UNCHANGED <<hpPool, hpUser, hpTotal, hpReqs>>
    BY <1>8, Zenon DEF HpAges
  <2>2. UNCHANGED <<hpPool, hpUser, hpTotal, hpReqs>>
    BY <2>1, Zenon
  <2>3. /\ hpConn' \in [HpConns -> HpConnType] /\ \A d \in HpConns : d # c => hpConn'[d] = hpConn[d]
        /\ hpConn'[c].open = hpConn[c].open /\ hpConn'[c].owed = hpConn[c].owed /\ hpConn'[c].half = hpConn[c].half
    BY <2>1, HpSetOld, Zenon
  <2>4. \A d \in HpConns : /\ hpConn'[d].open = hpConn[d].open /\ hpConn'[d].owed = hpConn[d].owed
                           /\ hpConn'[d].half = hpConn[d].half
    BY <2>3
  <2>5. HpTypeOK'
    BY <2>2, <2>3 DEF HpTypeOK
  <2>6. ASSUME NEW w \in HpUsers PROVE HpPlaceInv(w)'
    BY <2>2 DEF HpPlaceInv
  <2>7. ASSUME NEW w \in HpUsers PROVE HpOwedInv(w)'
    BY <2>2, <2>4 DEF HpOwedInv, HpPlaceInv, HpTypeOK, HpUserType
  <2>8. ASSUME NEW d \in HpConns PROVE HpIdleInv(d)'
    BY <2>2, <2>4 DEF HpIdleInv, HpOwedInv
  <2>9. HpTotalInv'
    <3>1. \A v \in HpUsers : hpUser'[v].conn = hpUser[v].conn /\ hpUser'[v].dels = hpUser[v].dels
      BY <2>2
    <3>2. hpPool' = hpPool /\ hpTotal' = hpTotal
      BY <2>2
    <3>3. HpAll' = HpAll
      BY <3>1, <3>2 DEF HpAll, HpPooled, HpHeld, HpDoomed
    <3> QED
      BY <3>2, <3>3 DEF HpTotalInv
  <2> QED
    BY <2>5, <2>6, <2>7, <2>8, <2>9, <2>2 DEF HpPlaces, HpOwed
<1>9. CASE UNCHANGED hpVars
  BY <1>9 DEF hpVars, HpTypeOK, HpPlaceInv, HpOwedInv, HpIdleInv, HpTotalInv, HpAll, HpPooled, HpHeld, HpDoomed, HpInv
<1> HIDE DEF HpInv
<1> QED
  BY <1>1, <1>2, <1>3, <1>4, <1>5, <1>6, <1>7, <1>8, <1>9 DEF HpNext

(***************************************************************************)
(* A request reads its own answer or none, unless a send failed on its     *)
(* connection, and m_total counts the connections, for any number of       *)
(* coroutines and connections.                                             *)
(***************************************************************************)
THEOREM HpOwnAnswerHolds == HpSpec => []HpOwnAnswer
<1>1. HpInit => HpInv
  <2> SUFFICES ASSUME HpInit PROVE HpInv
    OBVIOUS
  <2>1. hpPool = <<>> /\ SeqOnce(HpConns, hpPool) /\ \A d : ~SeqHas(d, hpPool)
    BY SeqHasEmpty DEF HpInit
  <2>2. HpTypeOK
    BY DEF HpInit, HpTypeOK, HpNew, HpOut, HpConnType, HpUserType
  <2>3. \A u \in HpUsers : HpPlaceInv(u) /\ HpOwedInv(u)
    BY <2>1 DEF HpInit, HpOut, HpPlaceInv, HpOwedInv
  <2>4. \A c \in HpConns : HpIdleInv(c)
    BY <2>1 DEF HpIdleInv
  <2>5. HpAll = {}
    BY <2>1, <2>2, HpAllIs DEF HpInit, HpOut
  <2>6. HpTotalInv
    BY <2>5, FS_EmptySet DEF HpInit, HpTotalInv
  <2> QED
    BY <2>1, <2>2, <2>3, <2>4, <2>6 DEF HpInv, HpPlaces, HpOwed
<1>2. HpInv => HpOwnAnswer
  <2> SUFFICES ASSUME HpInv PROVE HpOwnAnswer
    OBVIOUS
  <2>1. ASSUME NEW u \in HpUsers, hpUser[u].answer \notin {0, hpUser[u].req} PROVE hpConn[hpUser[u].conn].half
    BY <2>1 DEF HpInv, HpPlaces, HpOwed, HpPlaceInv, HpOwedInv
  <2> QED
    BY <2>1 DEF HpInv, HpTotalInv, HpAll, HpOwnAnswer
<1> QED
  BY <1>1, <1>2, HpStep, PTL DEF HpSpec

-----------------------------------------------------------------------------
(***************************************************************************)
(* Ranks: an order on a finite set numbers its elements.                   *)
(***************************************************************************)

StrictOrder(R, T) ==
    /\ \A x \in T : <<x, x>> \notin R
    /\ \A x, y, z \in T : <<x, y>> \in R /\ <<y, z>> \in R => <<x, z>> \in R
    /\ \A x, y \in T : x = y \/ <<x, y>> \in R \/ <<y, x>> \in R

Below(R, T, x) == {y \in T : <<y, x>> \in R}

\* In a finite set with a strict total order every number below the cardinality is the
\* rank of exactly one element.
LEMMA Ranks ==
  ASSUME NEW T, IsFiniteSet(T), NEW R, StrictOrder(R, T)
  PROVE  /\ Cardinality(T) \in Nat
         /\ \A x \in T : Cardinality(Below(R, T, x)) \in 0 .. Cardinality(T) - 1
         /\ \A x, y \in T : Cardinality(Below(R, T, x)) = Cardinality(Below(R, T, y)) => x = y
         /\ \A n \in 0 .. Cardinality(T) - 1 : \E x \in T : Cardinality(Below(R, T, x)) = n
<1> DEFINE N == Cardinality(T)
          rank == [x \in T |-> Cardinality(Below(R, T, x))]
<1>1. N \in Nat
  BY FS_CardinalityType
<1>2. ASSUME NEW x \in T
      PROVE  /\ IsFiniteSet(Below(R, T, x)) /\ Cardinality(Below(R, T, x)) \in Nat
             /\ Cardinality(Below(R, T, x)) <= N - 1
  <2>1. Below(R, T, x) \in SUBSET (T \ {x})
    BY DEF Below, StrictOrder
  <2>2. IsFiniteSet(T \ {x}) /\ Cardinality(T \ {x}) = N - 1
    BY FS_RemoveElement
  <2>3. IsFiniteSet(Below(R, T, x)) /\ Cardinality(Below(R, T, x)) <= N - 1
    BY <2>1, <2>2, FS_Subset
  <2> QED
    BY <2>3, FS_CardinalityType
<1>3. ASSUME NEW x \in T, NEW y \in T, <<x, y>> \in R
      PROVE  Cardinality(Below(R, T, x)) < Cardinality(Below(R, T, y))
  <2>1. Below(R, T, x) \cup {x} \in SUBSET Below(R, T, y) /\ x \notin Below(R, T, x)
    BY <1>3 DEF Below, StrictOrder
  <2>2. Cardinality(Below(R, T, x) \cup {x}) = Cardinality(Below(R, T, x)) + 1
    BY <1>2, <2>1, FS_AddElement
  <2>3. Cardinality(Below(R, T, x) \cup {x}) <= Cardinality(Below(R, T, y))
    BY <1>2, <2>1, FS_Subset
  <2> QED
    BY <1>2, <2>2, <2>3
<1>4. ASSUME NEW x \in T, NEW y \in T, Cardinality(Below(R, T, x)) = Cardinality(Below(R, T, y))
      PROVE  x = y
  <2>1. Cardinality(Below(R, T, x)) \in Nat /\ Cardinality(Below(R, T, y)) \in Nat
    BY <1>2
  <2>2. ~(<<x, y>> \in R) /\ ~(<<y, x>> \in R)
    BY <1>3, <1>4, <2>1
  <2> QED
    BY <2>2 DEF StrictOrder
<1>5. rank \in Injection(T, 0 .. N - 1)
  <2>1. rank \in [T -> 0 .. N - 1]
    BY <1>1, <1>2
  <2>2. \A x, y \in T : rank[x] = rank[y] => x = y
    BY <1>4
  <2> HIDE DEF rank
  <2> QED
    BY <2>1, <2>2 DEF Injection, IsInjective
<1>6. IsFiniteSet(0 .. N - 1) /\ Cardinality(0 .. N - 1) = N
  <2> HIDE DEF N
  <2>1. 0 \in Int /\ N - 1 \in Int
    BY <1>1
  <2>2. /\ IsFiniteSet(0 .. N - 1)
        /\ Cardinality(0 .. N - 1) = IF 0 > N - 1 THEN 0 ELSE N - 1 - 0 + 1
    BY <2>1, FS_Interval
  <2> QED
    BY <1>1, <2>2
<1>7. rank \in Surjection(T, 0 .. N - 1)
  <2> HIDE DEF rank
  <2> QED
    BY <1>5, <1>6, FS_Injection
<1>8. \A n \in 0 .. N - 1 : \E x \in T : rank[x] = n
  BY <1>7 DEF Surjection
<1> QED
  BY <1>1, <1>2, <1>4, <1>8

-----------------------------------------------------------------------------
(***************************************************************************)
(* Caches: the containers of a cache agree.                                *)
(***************************************************************************)

CcItems == [key : CcKeys, val : CcVals, ts : Nat]
CcKinds == {"timed", "timedlru", "lru"}

CcTypeOK ==
    /\ ccKind \in CcKinds
    /\ ccMap \in [CcKeys -> {<<>>} \cup CcItems] /\ ccWant \in [CcKeys -> {<<>>} \cup CcItems]
    /\ ccTimed \subseteq CcItems /\ ccList \in Seq(CcKeys)
    /\ ccNow \in Nat /\ ccAgain \in BOOLEAN

\* A key maps to an item of its own.
CcKeyed(map) == \A k \in CcHeld(map) : map[k].key = k

CcContent(map) == {map[k] : k \in CcHeld(map)}

\* The list holds the keys of the map, once each.
CcLists(list, map) == {list[j] : j \in DOMAIN list} = CcHeld(map) /\ IsInjective(list)

\* m_timed holds what the map points to, and nothing else unless a TimedCache was given
\* a key again.
CcTimedInv ==
    /\ ccKind = "lru" => ccTimed = {}
    /\ ccKind = "timed" => CcContent(ccMap) \subseteq ccTimed
    /\ ccKind = "timedlru" \/ (ccKind = "timed" /\ ~ccAgain) => ccTimed = CcContent(ccMap)

CcInv ==
    /\ CcTypeOK /\ CcKeyed(ccMap) /\ CcTimedInv
    /\ ccKind # "timed" => CcLists(ccList, ccMap)
    /\ ~ccAgain => ccMap = ccWant

\* Erasing keys keeps the other keys of a list, once each.
LEMMA ErasedIs ==
  ASSUME NEW K, NEW list \in Seq(K), NEW gone
  PROVE  /\ CcErased(list, gone) \in Seq(K)
         /\ \A d : (\E n \in DOMAIN CcErased(list, gone) : CcErased(list, gone)[n] = d)
                      <=> d \notin gone /\ \E j \in DOMAIN list : list[j] = d
         /\ IsInjective(list) => IsInjective(CcErased(list, gone))
<1> DEFINE stay == {j \in DOMAIN list : list[j] \notin gone}
          R == {p \in stay \X stay : p[1] < p[2]}
          at(n) == CHOOSE j \in stay : Cardinality({i \in stay : i < j}) = n - 1
          out == CcErased(list, gone)
          N == Cardinality(stay)
<1>1. DOMAIN list = 1 .. Len(list) /\ Len(list) \in Nat /\ stay \subseteq 1 .. Len(list)
  OBVIOUS
<1>2. IsFiniteSet(stay)
  <2>1. IsFiniteSet(1 .. Len(list)) /\ stay \in SUBSET (1 .. Len(list))
    BY <1>1, FS_Interval
  <2> HIDE DEF stay
  <2> QED
    BY <2>1, FS_Subset
<1>3. \A j \in stay : j \in Nat /\ list[j] \in K /\ Below(R, stay, j) = {i \in stay : i < j}
  BY <1>1 DEF Below
<1>4. StrictOrder(R, stay)
  BY <1>3 DEF StrictOrder
<1>5. /\ N \in Nat
      /\ \A j \in stay : Cardinality(Below(R, stay, j)) \in 0 .. N - 1
      /\ \A i, j \in stay : Cardinality(Below(R, stay, i)) = Cardinality(Below(R, stay, j)) => i = j
      /\ \A n \in 0 .. N - 1 : \E j \in stay : Cardinality(Below(R, stay, j)) = n
  <2> HIDE DEF R, stay
  <2> QED
    BY <1>2, <1>4, Ranks
<1>6. out = [n \in 1 .. N |-> list[at(n)]]
  BY DEF CcErased
<1>7. ASSUME NEW n \in 1 .. N PROVE at(n) \in stay /\ Cardinality({i \in stay : i < at(n)}) = n - 1
  <2>1. n - 1 \in 0 .. N - 1
    BY <1>5
  <2>2. \E j \in stay : Cardinality(Below(R, stay, j)) = n - 1
    BY <1>5, <2>1
  <2>3. \E j \in stay : Cardinality({i \in stay : i < j}) = n - 1
    BY <2>2, <1>3
  <2> HIDE DEF stay
  <2> QED
    BY <2>3
<1>8. ASSUME NEW j \in stay PROVE \E n \in 1 .. N : at(n) = j
  <2> DEFINE n == Cardinality(Below(R, stay, j)) + 1
  <2>1. n \in 1 .. N
    BY <1>5
  <2>2. at(n) \in stay /\ Cardinality(Below(R, stay, at(n))) = n - 1
    BY <2>1, <1>7, <1>3
  <2>3. Cardinality(Below(R, stay, at(n))) = Cardinality(Below(R, stay, j))
    BY <2>1, <2>2, <1>5
  <2>4. at(n) = j
    BY <2>2, <2>3, <1>5
  <2> QED
    BY <2>1, <2>4
<1> HIDE DEF out, at, R
<1>9. out \in Seq(K)
  <2>1. \A n \in 1 .. N : list[at(n)] \in K
    BY <1>3, <1>7
  <2> HIDE DEF N, stay
  <2>2. out \in [1 .. N -> K]
    BY <1>6, <2>1
  <2> QED
    BY <1>5, <2>2
<1>10. ASSUME NEW d
       PROVE  (\E n \in DOMAIN out : out[n] = d) <=> d \notin gone /\ \E j \in DOMAIN list : list[j] = d
  <2>1. ASSUME NEW n \in DOMAIN out, out[n] = d PROVE d \notin gone /\ \E j \in DOMAIN list : list[j] = d
    BY <2>1, <1>6, <1>7
  <2>2. ASSUME d \notin gone, NEW j \in DOMAIN list, list[j] = d PROVE \E n \in DOMAIN out : out[n] = d
    <3>1. PICK n \in 1 .. N : at(n) = j
      BY <2>2, <1>8
    <3> QED
      BY <3>1, <1>6, <2>2
  <2> QED
    BY <2>1, <2>2
<1>11. ASSUME IsInjective(list) PROVE IsInjective(out)
  <2>1. ASSUME NEW m \in 1 .. N, NEW n \in 1 .. N, out[m] = out[n] PROVE m = n
    <3>1. list[at(m)] = list[at(n)] /\ at(m) \in DOMAIN list /\ at(n) \in DOMAIN list
      BY <2>1, <1>6, <1>7
    <3>2. at(m) = at(n)
      BY <3>1, <1>11 DEF IsInjective
    <3>3. m - 1 = n - 1
      BY <3>2, <1>7
    <3> QED
      BY <3>3
  <2> QED
    BY <2>1, <1>6 DEF IsInjective
<1> QED
  BY <1>9, <1>10, <1>11 DEF out

\* The front of the list gains a key, which leaves its old place.
LEMMA FrontIs ==
  ASSUME NEW K, NEW list \in Seq(K), NEW k \in K
  PROVE  /\ CcFront(list, k) \in Seq(K)
         /\ \A d : (\E n \in DOMAIN CcFront(list, k) : CcFront(list, k)[n] = d)
                      <=> d = k \/ \E j \in DOMAIN list : list[j] = d
         /\ IsInjective(list) => IsInjective(CcFront(list, k))
<1> DEFINE rest == CcErased(list, {k})
          out == CcFront(list, k)
<1>1. /\ rest \in Seq(K)
      /\ \A d : (\E n \in DOMAIN rest : rest[n] = d) <=> d \notin {k} /\ \E j \in DOMAIN list : list[j] = d
      /\ IsInjective(list) => IsInjective(rest)
  BY ErasedIs
<1>2. out = <<k>> \o rest
  BY DEF CcFront
<1> HIDE DEF rest, out
<1>3. <<k>> \in Seq(K) /\ Len(<<k>>) = 1 /\ <<k>>[1] = k
  OBVIOUS
<1>4. /\ out \in Seq(K) /\ Len(out) = Len(rest) + 1 /\ Len(rest) \in Nat
      /\ \A n \in 1 .. Len(rest) + 1 : out[n] = IF n = 1 THEN k ELSE rest[n - 1]
  <2>1. /\ <<k>> \o rest \in Seq(K) /\ Len(<<k>> \o rest) = 1 + Len(rest)
        /\ \A n \in 1 .. 1 + Len(rest) : (<<k>> \o rest)[n] = IF n <= 1 THEN <<k>>[n] ELSE rest[n - 1]
    BY <1>1, <1>3, ConcatProperties
  <2>2. Len(rest) \in Nat
    BY <1>1
  <2>3. ASSUME NEW n \in 1 .. Len(rest) + 1 PROVE out[n] = IF n = 1 THEN k ELSE rest[n - 1]
    <3>1. n \in 1 .. 1 + Len(rest) /\ n \in Nat /\ (n <= 1 <=> n = 1)
      BY <2>2
    <3>2. out[n] = IF n <= 1 THEN <<k>>[n] ELSE rest[n - 1]
      BY <1>2, <2>1, <3>1
    <3> QED
      BY <3>1, <3>2, <1>3
  <2> QED
    BY <1>2, <2>1, <2>2, <2>3
<1>5. DOMAIN out = 1 .. Len(rest) + 1 /\ DOMAIN rest = 1 .. Len(rest)
  BY <1>1, <1>4
<1>6. ASSUME NEW d PROVE (\E n \in DOMAIN out : out[n] = d) <=> d = k \/ \E j \in DOMAIN list : list[j] = d
  <2>1. ASSUME NEW n \in DOMAIN out, out[n] = d PROVE d = k \/ \E j \in DOMAIN list : list[j] = d
    <3>1. CASE n = 1
      BY <3>1, <2>1, <1>4, <1>5
    <3>2. CASE n # 1
      <4>1. n - 1 \in DOMAIN rest /\ rest[n - 1] = d
        BY <3>2, <2>1, <1>4, <1>5
      <4> QED
        BY <4>1, <1>1
    <3> QED
      BY <3>1, <3>2
  <2>2. out[1] = k /\ 1 \in DOMAIN out
    BY <1>4, <1>5
  <2>3. ASSUME d # k, NEW j \in DOMAIN list, list[j] = d PROVE \E n \in DOMAIN out : out[n] = d
    <3>1. PICK m \in DOMAIN rest : rest[m] = d
      BY <2>3, <1>1
    <3>2. m + 1 \in DOMAIN out /\ out[m + 1] = rest[m]
      BY <3>1, <1>4, <1>5
    <3> QED
      BY <3>1, <3>2
  <2> QED
    BY <2>1, <2>2, <2>3
<1>7. ASSUME IsInjective(list) PROVE IsInjective(out)
  <2>1. \A m, n \in 1 .. Len(rest) : rest[m] = rest[n] => m = n
    BY <1>1, <1>5, <1>7 DEF IsInjective
  <2>2. \A n \in 1 .. Len(rest) : rest[n] # k
    BY <1>1, <1>5
  <2>3. ASSUME NEW m \in 1 .. Len(rest) + 1, NEW n \in 1 .. Len(rest) + 1, out[m] = out[n] PROVE m = n
    <3>1. \A x \in 1 .. Len(rest) + 1 : x = 1 \/ x - 1 \in 1 .. Len(rest)
      BY <1>4
    <3>2. CASE m = 1 \/ n = 1
      BY <3>2, <3>1, <2>2, <2>3, <1>4
    <3>3. CASE m # 1 /\ n # 1
      <4>1. rest[m - 1] = rest[n - 1] /\ m - 1 \in 1 .. Len(rest) /\ n - 1 \in 1 .. Len(rest)
        BY <3>3, <3>1, <2>3, <1>4
      <4>2. m - 1 = n - 1
        BY <4>1, <2>1
      <4> QED
        BY <4>2, <1>4
    <3> QED
      BY <3>2, <3>3
  <2> QED
    BY <2>3, <1>5 DEF IsInjective
<1> QED
  BY <1>4, <1>6, <1>7 DEF out

CcMaps == [CcKeys -> {<<>>} \cup CcItems]

\* What erasing keys leaves of a map.
LEMMA WithoutIs ==
  ASSUME NEW map \in CcMaps, CcKeyed(map), NEW lost
  PROVE  /\ CcWithout(map, lost) \in CcMaps /\ CcKeyed(CcWithout(map, lost))
         /\ CcHeld(CcWithout(map, lost)) = CcHeld(map) \ lost
         /\ \A k \in CcHeld(map) \ lost : CcWithout(map, lost)[k] = map[k]
<1> DEFINE left == CcWithout(map, lost)
<1>1. /\ left \in CcMaps
      /\ \A k \in CcKeys : left[k] = IF k \in lost THEN <<>> ELSE map[k]
  BY DEF CcWithout, CcMaps
<1> HIDE DEF left
<1>2. CcHeld(left) = CcHeld(map) \ lost
  BY <1>1 DEF CcHeld
<1>3. \A k \in CcHeld(map) \ lost : left[k] = map[k]
  BY <1>1 DEF CcHeld
<1>4. CcKeyed(left)
  BY <1>2, <1>3 DEF CcKeyed
<1> QED
  BY <1>1, <1>2, <1>3, <1>4 DEF left

\* When the keys of some items are erased, none of these items is left in the map, and
\* when they were in the map the others are.
LEMMA ContentWithout ==
  ASSUME NEW map \in CcMaps, CcKeyed(map), NEW gone
  PROVE  /\ CcContent(CcWithout(map, {x.key : x \in gone})) \subseteq CcContent(map) \ gone
         /\ gone \subseteq CcContent(map) =>
               CcContent(CcWithout(map, {x.key : x \in gone})) = CcContent(map) \ gone
<1> DEFINE lost == {x.key : x \in gone}
          left == CcWithout(map, lost)
<1>1. CcHeld(left) = CcHeld(map) \ lost /\ \A k \in CcHeld(map) \ lost : left[k] = map[k]
  BY WithoutIs
<1> HIDE DEF left
<1>2. ASSUME NEW x \in CcContent(left) PROVE x \in CcContent(map) \ gone
  <2>1. PICK k \in CcHeld(left) : x = left[k]
    BY <1>2 DEF CcContent
  <2>2. k \in CcHeld(map) /\ x = map[k] /\ x.key = k /\ k \notin lost
    BY <2>1, <1>1 DEF CcKeyed
  <2> QED
    BY <2>2 DEF CcContent
<1>3. ASSUME gone \subseteq CcContent(map), NEW x \in CcContent(map), x \notin gone PROVE x \in CcContent(left)
  <2>1. PICK k \in CcHeld(map) : x = map[k]
    BY <1>3 DEF CcContent
  <2>2. k \notin lost
    <3>1. ASSUME NEW y \in gone, y.key = k PROVE FALSE
      <4>1. PICK j \in CcHeld(map) : y = map[j]
        BY <1>3, <3>1 DEF CcContent
      <4>2. j = k
        BY <4>1, <3>1 DEF CcKeyed
      <4> QED
        BY <4>1, <4>2, <2>1, <3>1, <1>3
    <3> QED
      BY <3>1
  <2>3. k \in CcHeld(left) /\ left[k] = x
    BY <2>1, <2>2, <1>1
  <2> QED
    BY <2>3 DEF CcContent
<1> QED
  BY <1>2, <1>3 DEF left

CcPut(map, k, item) == [map EXCEPT ![k] = item]

\* What setting a key makes of a map.
LEMMA SetIs ==
  ASSUME NEW map \in CcMaps, CcKeyed(map), NEW k \in CcKeys, NEW item \in CcItems, item.key = k
  PROVE  /\ CcPut(map, k, item) \in CcMaps /\ CcKeyed(CcPut(map, k, item))
         /\ CcHeld(CcPut(map, k, item)) = CcHeld(map) \cup {k}
         /\ CcContent(CcPut(map, k, item)) = {x \in CcContent(map) : x.key # k} \cup {item}
<1> DEFINE new == CcPut(map, k, item)
<1>1. item # <<>>
  BY DEF CcItems
<1>2. new \in CcMaps /\ new[k] = item /\ \A j \in CcKeys : j # k => new[j] = map[j]
  BY DEF CcMaps, CcPut
<1> HIDE DEF new
<1>3. CcHeld(new) = CcHeld(map) \cup {k}
  BY <1>1, <1>2 DEF CcHeld
<1>4. CcKeyed(new)
  BY <1>2, <1>3 DEF CcKeyed, CcHeld
<1>5. ASSUME NEW x \in CcContent(new) PROVE x \in {y \in CcContent(map) : y.key # k} \cup {item}
  <2>1. PICK j \in CcHeld(new) : x = new[j]
    BY <1>5 DEF CcContent
  <2>2. CASE j = k
    BY <2>1, <2>2, <1>2
  <2>3. CASE j # k
    <3>1. j \in CcHeld(map) /\ x = map[j] /\ x.key = j
      BY <2>1, <2>3, <1>2, <1>3 DEF CcHeld, CcKeyed
    <3> QED
      BY <3>1, <2>3 DEF CcContent
  <2> QED
    BY <2>2, <2>3
<1>6. ASSUME NEW x \in CcContent(map), x.key # k PROVE x \in CcContent(new)
  <2>1. PICK j \in CcHeld(map) : x = map[j]
    BY <1>6 DEF CcContent
  <2>2. j # k /\ j \in CcHeld(new) /\ new[j] = x
    BY <2>1, <1>2, <1>3, <1>6 DEF CcKeyed, CcHeld
  <2> QED
    BY <2>2 DEF CcContent
<1>7. item \in CcContent(new)
  BY <1>2, <1>3 DEF CcContent
<1>8. CcContent(new) = {x \in CcContent(map) : x.key # k} \cup {item}
  BY <1>5, <1>6, <1>7
<1> QED
  BY <1>2, <1>3, <1>4, <1>8 DEF new

\* prune() takes items of the map only, whatever the order it takes them in: there is
\* always a number of them that is enough.
LEMMA PrunedIs ==
  ASSUME NEW map \in CcMaps, CcKeyed(map), NEW order, Len(order) \in Nat,
         {order[j] : j \in 1 .. Len(order)} = CcContent(map)
  PROVE  CcPruned(map, order) \subseteq CcContent(map)
<1> USE CachesAssumption
<1> DEFINE enough(n) == Cardinality(CcHeld(map) \ {order[j].key : j \in 1 .. n}) <= CcMaxSize
          S == {n \in 0 .. Len(order) : enough(n)}
          fewest == CHOOSE n \in 0 .. Len(order) : enough(n) /\ \A j \in 0 .. n - 1 : ~enough(j)
<1>1. enough(Len(order))
  <2>1. ASSUME NEW k \in CcHeld(map) PROVE k \in {order[j].key : j \in 1 .. Len(order)}
    <3>1. map[k] \in CcContent(map) /\ map[k].key = k
      BY DEF CcContent, CcKeyed
    <3>2. PICK j \in 1 .. Len(order) : order[j] = map[k]
      BY <3>1
    <3> QED
      BY <3>1, <3>2
  <2>2. CcHeld(map) \ {order[j].key : j \in 1 .. Len(order)} = {}
    BY <2>1
  <2> QED
    <3>1. Cardinality({}) = 0 /\ 0 <= CcMaxSize
      BY FS_EmptySet
    <3> QED
      BY <2>2, <3>1
<1> HIDE DEF enough
<1>2. S \in SUBSET Nat /\ Len(order) \in S
  BY <1>1
<1>3. PICK m \in S : \A j \in S : m <= j
  <2> HIDE DEF S
  <2> QED
    BY <1>2, StoreLeast
<1>4. \A j \in 0 .. m - 1 : ~enough(j)
  <2>1. ASSUME NEW j \in 0 .. m - 1, enough(j) PROVE FALSE
    <3>1. j \in S /\ j < m
      BY <2>1, <1>3
    <3> QED
      BY <3>1, <1>3
  <2> QED
    BY <2>1
<1>5. fewest \in 0 .. Len(order)
  <2>1. m \in 0 .. Len(order) /\ enough(m)
    BY <1>3
  <2> QED
    BY <2>1, <1>4
<1>6. CcPruned(map, order) \subseteq {order[j] : j \in 1 .. fewest}
  BY DEF CcPruned, enough
<1> HIDE DEF fewest
<1>7. \A j \in 1 .. fewest : order[j] \in CcContent(map)
  BY <1>5
<1> QED
  BY <1>6, <1>7

\* m_timed in its order is a list of its items, when no two have the same key.
LEMMA OrderedIs ==
  ASSUME NEW items \in SUBSET CcItems, IsFiniteSet(items), \A x, y \in items : x.key = y.key => x = y
  PROVE  /\ Len(CcOrdered(items)) \in Nat
         /\ {CcOrdered(items)[j] : j \in 1 .. Len(CcOrdered(items))} = items
<1> DEFINE R == {p \in items \X items : CcBefore(p[1], p[2])}
          N == Cardinality(items)
          at(j) == CHOOSE x \in items : Cardinality({y \in items : CcBefore(y, x)}) = j - 1
          out == CcOrdered(items)
<1>1. \A x \in items : x.ts \in Int /\ x.key \in Int
  <2>1. ASSUME NEW x \in items PROVE x.ts \in Int /\ x.key \in Int
    <3>1. x \in [key : CcKeys, val : CcVals, ts : Nat]
      BY DEF CcItems
    <3>2. x.key \in CcKeys /\ x.ts \in Nat
      BY <3>1
    <3>3. (\A k \in CcKeys : k \in Int) /\ \A n \in Nat : n \in Int
      BY CachesAssumption
    <3> QED
      BY <3>2, <3>3, Zenon
  <2> QED
    BY <2>1
<1>2. StrictOrder(R, items)
  <2>1. \A x, y \in items : <<x, y>> \in R <=> x.ts < y.ts \/ (x.ts = y.ts /\ x.key < y.key)
    BY DEF CcBefore
  <2> HIDE DEF R
  <2>2. \A x \in items : <<x, x>> \notin R
    BY <1>1, <2>1
  <2>3. ASSUME NEW x \in items, NEW y \in items, NEW z \in items, <<x, y>> \in R, <<y, z>> \in R
        PROVE  <<x, z>> \in R
    <3>1. /\ x.ts \in Int /\ x.key \in Int /\ y.ts \in Int /\ y.key \in Int /\ z.ts \in Int /\ z.key \in Int
          /\ x.ts < y.ts \/ (x.ts = y.ts /\ x.key < y.key)
          /\ y.ts < z.ts \/ (y.ts = z.ts /\ y.key < z.key)
      BY <1>1, <2>1, <2>3
    <3>2. x.ts < z.ts \/ (x.ts = z.ts /\ x.key < z.key)
      BY <3>1
    <3> QED
      BY <3>2, <2>1
  <2>4. ASSUME NEW x \in items, NEW y \in items PROVE x = y \/ <<x, y>> \in R \/ <<y, x>> \in R
    <3>1. x.ts \in Int /\ x.key \in Int /\ y.ts \in Int /\ y.key \in Int
      BY <1>1
    <3>2. x.key = y.key \/ (x.ts < y.ts \/ (x.ts = y.ts /\ x.key < y.key))
                        \/ (y.ts < x.ts \/ (y.ts = x.ts /\ y.key < x.key))
      BY <3>1
    <3> QED
      BY <3>2, <2>1
  <2> QED
    BY <2>2, <2>3, <2>4 DEF StrictOrder
<1>3. \A x \in items : Below(R, items, x) = {y \in items : CcBefore(y, x)}
  BY DEF Below
<1> HIDE DEF R
<1>4. /\ N \in Nat
      /\ \A x \in items : Cardinality(Below(R, items, x)) \in 0 .. N - 1
      /\ \A x, y \in items : Cardinality(Below(R, items, x)) = Cardinality(Below(R, items, y)) => x = y
      /\ \A n \in 0 .. N - 1 : \E x \in items : Cardinality(Below(R, items, x)) = n
  BY <1>2, Ranks
<1>5. out = [j \in 1 .. N |-> at(j)]
  BY DEF CcOrdered
<1>6. ASSUME NEW j \in 1 .. N PROVE at(j) \in items /\ Cardinality({y \in items : CcBefore(y, at(j))}) = j - 1
  <2>1. j - 1 \in 0 .. N - 1
    BY <1>4
  <2>2. \E x \in items : Cardinality(Below(R, items, x)) = j - 1
    BY <1>4, <2>1
  <2>3. \E x \in items : Cardinality({y \in items : CcBefore(y, x)}) = j - 1
    BY <2>2, <1>3
  <2> QED
    BY <2>3
<1>7. ASSUME NEW x \in items PROVE \E j \in 1 .. N : at(j) = x
  <2> DEFINE j == Cardinality(Below(R, items, x)) + 1
  <2>1. j \in 1 .. N
    BY <1>4
  <2>2. at(j) \in items /\ Cardinality(Below(R, items, at(j))) = j - 1
    BY <2>1, <1>6, <1>3
  <2>3. Cardinality(Below(R, items, at(j))) = Cardinality(Below(R, items, x))
    BY <2>1, <2>2, <1>4
  <2>4. at(j) = x
    BY <2>2, <2>3, <1>4
  <2> QED
    BY <2>1, <2>4
<1> HIDE DEF at, out, N
<1>8. Len(out) = N
  BY <1>4, <1>5
<1>9. {out[j] : j \in 1 .. N} = items
  BY <1>5, <1>6, <1>7
<1> QED
  BY <1>4, <1>8, <1>9 DEF out

\* The content of a map is as large as its set of keys.
LEMMA ContentCard ==
  ASSUME NEW map \in CcMaps, CcKeyed(map)
  PROVE  /\ IsFiniteSet(CcHeld(map)) /\ IsFiniteSet(CcContent(map))
         /\ Cardinality(CcContent(map)) = Cardinality(CcHeld(map))
         /\ \A x, y \in CcContent(map) : x.key = y.key => x = y
         /\ CcContent(map) \subseteq CcItems
<1>1. IsFiniteSet(CcHeld(map))
  <2>1. CcHeld(map) \in SUBSET CcKeys
    BY DEF CcHeld
  <2> QED
    BY <2>1, CachesAssumption, FS_Subset
<1>2. \A x, y \in CcContent(map) : x.key = y.key => x = y
  BY DEF CcContent, CcKeyed
<1>3. CcContent(map) \subseteq CcItems
  BY DEF CcContent, CcHeld, CcMaps
<1>4. ExistsBijection(CcHeld(map), CcContent(map))
  <2> DEFINE f == [k \in CcHeld(map) |-> map[k]]
  <2>1. f \in [CcHeld(map) -> CcContent(map)] /\ DOMAIN f = CcHeld(map)
    BY DEF CcContent
  <2>2. \A j, k \in CcHeld(map) : f[j] = f[k] => j = k
    BY DEF CcKeyed
  <2>3. \A x \in CcContent(map) : \E k \in CcHeld(map) : f[k] = x
    BY DEF CcContent
  <2> HIDE DEF f
  <2>4. f \in Injection(CcHeld(map), CcContent(map))
    BY <2>1, <2>2 DEF Injection, IsInjective
  <2>5. f \in Surjection(CcHeld(map), CcContent(map))
    BY <2>1, <2>3 DEF Surjection
  <2> QED
    BY <2>4, <2>5 DEF Bijection, ExistsBijection
<1> QED
  BY <1>1, <1>2, <1>3, <1>4, FS_Bijection


\* What the type invariant says of the map.
LEMMA CcStateIs ==
  ASSUME CcInv
  PROVE  /\ ccMap \in CcMaps /\ CcKeyed(ccMap) /\ ccWant \in CcMaps
         /\ ccTimed \subseteq CcItems /\ ccList \in Seq(CcKeys) /\ ccNow \in Nat
         /\ ccKind \in CcKinds /\ ccAgain \in BOOLEAN
         /\ ccKind # "timed" => CcLists(ccList, ccMap)
         /\ ~ccAgain => ccMap = ccWant
  BY DEF CcInv, CcTypeOK, CcMaps

\* The list and the map after keys are erased from both.
LEMMA ListsWithout ==
  ASSUME NEW map \in CcMaps, CcKeyed(map), NEW list \in Seq(CcKeys), CcLists(list, map), NEW lost
  PROVE  CcLists(CcErased(list, lost), CcWithout(map, lost))
<1>1. CcHeld(CcWithout(map, lost)) = CcHeld(map) \ lost
  BY WithoutIs
<1>2. /\ \A d : (\E n \in DOMAIN CcErased(list, lost) : CcErased(list, lost)[n] = d)
                   <=> d \notin lost /\ \E j \in DOMAIN list : list[j] = d
      /\ IsInjective(CcErased(list, lost))
  BY ErasedIs DEF CcLists
<1>3. \A d : (\E j \in DOMAIN list : list[j] = d) <=> d \in CcHeld(map)
  BY DEF CcLists
<1>4. {CcErased(list, lost)[n] : n \in DOMAIN CcErased(list, lost)} = CcHeld(map) \ lost
  BY <1>2, <1>3
<1> QED
  BY <1>1, <1>2, <1>4 DEF CcLists

\* A key set to nothing is a key erased.
LEMMA DeletedIs ==
  ASSUME NEW map \in CcMaps, NEW k \in CcKeys
  PROVE  [map EXCEPT ![k] = <<>>] = CcWithout(map, {k})
  BY DEF CcWithout, CcMaps

\* TimedCache::set()
LEMMA CcSetTimedStep ==
  ASSUME CcInv, NEW k \in CcKeys, NEW v \in CcVals, NEW d \in CcDelays, CcSetTimed(k, v, d)
  PROVE  CcInv'
<1> USE CachesAssumption
<1> DEFINE same == {x \in ccTimed : x.key = k /\ x.ts = ccNow + d}
          item == IF same = {} THEN CcItem(k, v, d) ELSE CHOOSE x \in same : TRUE
          timed == ccTimed \union {item}
          map == [ccMap EXCEPT ![k] = item]
          gone == CcPruned(map, CcOrdered(timed))
          lost == {x.key : x \in gone}
          want == [ccWant EXCEPT ![k] = CcItem(k, v, d)]
          wanted == CcPruned(want, CcOrdered({want[j] : j \in CcHeld(want)}))
<1>1. /\ ccKind = "timed" /\ ccTimed' = timed \ gone /\ ccMap' = CcWithout(map, lost)
      /\ ccAgain' = (ccAgain \/ ccMap[k] # <<>>)
      /\ ccWant' = CcWithout(want, {x.key : x \in wanted})
      /\ UNCHANGED <<ccKind, ccList, ccNow>>
  BY DEF CcSetTimed
<1>2. CcItem(k, v, d) \in CcItems /\ CcItem(k, v, d).key = k
  BY CcStateIs, <1>1 DEF CcItem, CcItems
<1>3. item \in CcItems /\ item.key = k
  <2>1. CASE same = {}
    BY <2>1, <1>2
  <2>2. CASE same # {}
    <3>1. item \in same
      BY <2>2
    <3>2. same \subseteq CcItems
      BY CcStateIs
    <3> QED
      BY <3>1, <3>2
  <2> QED
    BY <2>1, <2>2
<1> HIDE DEF item
<1>4. /\ map \in CcMaps /\ CcKeyed(map)
      /\ CcContent(map) = {x \in CcContent(ccMap) : x.key # k} \cup {item}
  <2>1. ccMap \in CcMaps /\ CcKeyed(ccMap)
    BY CcStateIs
  <2>2. map = CcPut(ccMap, k, item)
    BY DEF CcPut
  <2> HIDE DEF map
  <2> QED
    BY <1>3, <2>1, <2>2, SetIs
<1>5. CcContent(ccMap) \subseteq ccTimed
  BY <1>1 DEF CcInv, CcTimedInv
<1> HIDE DEF map, gone, same
<1>6. /\ ccMap' \in CcMaps /\ CcKeyed(ccMap')
      /\ CcContent(ccMap') \subseteq CcContent(map) \ gone
      /\ gone \subseteq CcContent(map) => CcContent(ccMap') = CcContent(map) \ gone
  BY <1>1, <1>4, WithoutIs, ContentWithout
<1>7. timed \subseteq CcItems
  BY <1>3, CcStateIs
<1>8. want \in CcMaps
  BY <1>2, CcStateIs DEF CcMaps
<1> HIDE DEF want
<1>9. ccWant' \in CcMaps
  BY <1>1, <1>8 DEF CcMaps, CcWithout
<1>10. ccAgain' \in BOOLEAN
  BY <1>1, Zenon
<1>11. CcTypeOK'
  BY <1>1, <1>6, <1>7, <1>9, <1>10, CcStateIs DEF CcTypeOK, CcMaps
<1>12. ASSUME ~ccAgain'
      PROVE  ccTimed' = CcContent(ccMap') /\ ccMap' = ccWant'
  <2>1. ~ccAgain /\ ccMap[k] = <<>>
    BY <1>12, <1>1
  <2>2. ccTimed = CcContent(ccMap) /\ ccMap = ccWant
    BY <2>1, <1>1 DEF CcInv, CcTimedInv
  <2>3. \A x \in ccTimed : x.key # k
    <3>1. ASSUME NEW x \in ccTimed, x.key = k PROVE FALSE
      <4>1. PICK j \in CcHeld(ccMap) : x = ccMap[j]
        BY <3>1, <2>2 DEF CcContent
      <4>2. j = k
        BY <4>1, <3>1, CcStateIs DEF CcKeyed
      <4> QED
        BY <4>1, <4>2, <2>1 DEF CcHeld
    <3> QED
      BY <3>1
  <2>4. item = CcItem(k, v, d)
    BY <2>3 DEF item, same
  <2>5. CcContent(map) = timed
    BY <2>2, <2>3, <1>4
  <2>6. want = map
    BY <2>2, <2>4 DEF want, map
  <2>7. wanted = gone
    BY <2>5, <2>6 DEF gone, CcContent
  <2>8. gone \subseteq CcContent(map)
    <3>1. /\ IsFiniteSet(timed) /\ timed \in SUBSET CcItems
          /\ \A x, y \in timed : x.key = y.key => x = y
      BY <2>5, <1>4, <1>7, ContentCard
    <3> HIDE DEF timed
    <3>2. /\ Len(CcOrdered(timed)) \in Nat
          /\ {CcOrdered(timed)[j] : j \in 1 .. Len(CcOrdered(timed))} = CcContent(map)
      BY <3>1, <2>5, OrderedIs
    <3> QED
      BY <3>2, <1>4, PrunedIs DEF gone
  <2>9. ccTimed' = CcContent(ccMap')
    BY <1>1, <1>6, <2>5, <2>8
  <2> HIDE DEF wanted
  <2> QED
    BY <1>1, <2>6, <2>7, <2>9
<1>13. CcContent(ccMap') \subseteq ccTimed'
  BY <1>1, <1>4, <1>5, <1>6
<1>14. CcTimedInv'
  BY <1>1, <1>12, <1>13 DEF CcTimedInv, CcContent, CcHeld
<1> QED
  BY <1>1, <1>6, <1>11, <1>12, <1>14 DEF CcInv, CcKeyed, CcHeld


\* TimedLruCache::set() and LruCache::set()
LEMMA CcSetLruStep ==
  ASSUME CcInv, NEW k \in CcKeys, NEW v \in CcVals, NEW d \in CcDelays, CcSetLru(k, v, d)
  PROVE  CcInv'
<1> USE CachesAssumption
<1> DEFINE item == CcItem(k, v, d)
          list == CcFront(ccList, k)
          map == [ccMap EXCEPT ![k] = item]
          back == [j \in DOMAIN list |-> map[list[Len(list) + 1 - j]]]
          gone == IF ccMap[k] # <<>> THEN {} ELSE CcPruned(map, back)
          lost == {x.key : x \in gone}
<1>1. /\ ccKind \in {"timedlru", "lru"} /\ ccMap' = CcWithout(map, lost) /\ ccList' = CcErased(list, lost)
      /\ ccTimed' = IF ccKind = "lru" THEN {} ELSE CcRetimed(k, item) \ gone
      /\ ccWant' = CcWithout([ccWant EXCEPT ![k] = item], lost)
      /\ UNCHANGED <<ccKind, ccNow, ccAgain>>
  BY DEF CcSetLru
<1>2. item \in CcItems /\ item.key = k
  BY CcStateIs, <1>1 DEF CcItem, CcItems
<1> HIDE DEF item
<1>3. /\ map \in CcMaps /\ CcKeyed(map) /\ CcHeld(map) = CcHeld(ccMap) \cup {k}
      /\ CcContent(map) = {x \in CcContent(ccMap) : x.key # k} \cup {item}
  <2>1. ccMap \in CcMaps /\ CcKeyed(ccMap)
    BY CcStateIs
  <2>2. map = CcPut(ccMap, k, item)
    BY DEF CcPut
  <2> HIDE DEF map
  <2> QED
    BY <1>2, <2>1, <2>2, SetIs
<1>4. ccList \in Seq(CcKeys) /\ CcLists(ccList, ccMap)
  BY <1>1, CcStateIs
<1>5. /\ list \in Seq(CcKeys) /\ IsInjective(list)
      /\ \A x : (\E n \in DOMAIN list : list[n] = x) <=> x = k \/ \E j \in DOMAIN ccList : ccList[j] = x
  <2>1. IsInjective(ccList)
    BY <1>4 DEF CcLists
  <2> QED
    <3>1. /\ CcFront(ccList, k) \in Seq(CcKeys)
          /\ \A d1 : (\E n \in DOMAIN CcFront(ccList, k) : CcFront(ccList, k)[n] = d1)
                       <=> d1 = k \/ \E j \in DOMAIN ccList : ccList[j] = d1
          /\ IsInjective(ccList) => IsInjective(CcFront(ccList, k))
      BY <1>4, FrontIs
    <3> QED
      BY <2>1, <3>1
<1>6. \A x : (\E n \in DOMAIN list : list[n] = x) <=> x \in CcHeld(map)
  <2>1. \A x : (\E j \in DOMAIN ccList : ccList[j] = x) <=> x \in CcHeld(ccMap)
    BY <1>4 DEF CcLists
  <2> QED
    BY <1>3, <1>5, <2>1
<1> HIDE DEF list, map
<1>7. CcLists(list, map)
  BY <1>5, <1>6 DEF CcLists
<1>8. gone \subseteq CcContent(map)
  <2>1. DOMAIN list = 1 .. Len(list) /\ Len(list) \in Nat
    BY <1>5
  <2>2. Len(back) = Len(list)
    BY <2>1
  <2>3. ASSUME NEW j \in 1 .. Len(list) PROVE back[j] \in CcContent(map)
    <3>1. Len(list) + 1 - j \in DOMAIN list
      BY <2>1
    <3>2. list[Len(list) + 1 - j] \in CcHeld(map)
      BY <3>1, <1>6
    <3> QED
      BY <3>2, <2>1 DEF CcContent
  <2>4. ASSUME NEW x \in CcContent(map) PROVE \E j \in 1 .. Len(list) : back[j] = x
    <3>1. PICK h \in CcHeld(map) : x = map[h]
      BY <2>4 DEF CcContent
    <3>2. PICK n \in 1 .. Len(list) : list[n] = h
      BY <2>1, <3>1, <1>6
    <3>3. Len(list) + 1 - n \in 1 .. Len(list) /\ Len(list) + 1 - (Len(list) + 1 - n) = n
      BY <2>1, <3>2
    <3>4. back[Len(list) + 1 - n] = map[list[n]]
      BY <2>1, <3>3
    <3> QED
      BY <3>1, <3>2, <3>3, <3>4
  <2> HIDE DEF back
  <2>5. {back[j] : j \in 1 .. Len(back)} = CcContent(map) /\ Len(back) \in Nat
    BY <2>1, <2>2, <2>3, <2>4
  <2> QED
    BY <2>5, <1>3, PrunedIs
<1> HIDE DEF gone
<1>9. /\ ccMap' \in CcMaps /\ CcKeyed(ccMap')
      /\ CcContent(ccMap') = CcContent(map) \ gone
  BY <1>1, <1>3, <1>8, WithoutIs, ContentWithout
<1>10. CcLists(ccList', ccMap') /\ ccList' \in Seq(CcKeys)
  BY <1>1, <1>3, <1>5, <1>7, ListsWithout, ErasedIs
<1>11. CcRetimed(k, item) \subseteq CcItems
  BY <1>2, CcStateIs DEF CcRetimed
<1>12. ccTimed' \subseteq CcItems
  BY <1>1, <1>11
<1>13. ccWant' \in CcMaps
  <2>1. [ccWant EXCEPT ![k] = item] \in CcMaps
    BY <1>2, CcStateIs DEF CcMaps
  <2> QED
    BY <1>1, <2>1 DEF CcMaps, CcWithout
<1>14. CcTypeOK'
  BY <1>1, <1>9, <1>10, <1>12, <1>13, CcStateIs DEF CcTypeOK, CcMaps
<1>15. ccKind = "timedlru" => ccTimed' = CcContent(ccMap')
  <2>1. ASSUME ccKind = "timedlru" PROVE ccTimed' = CcContent(ccMap')
    <3>1. ccTimed = CcContent(ccMap)
      BY <2>1 DEF CcInv, CcTimedInv
    <3>2. CcRetimed(k, item) = CcContent(map)
      BY <3>1, <1>3 DEF CcRetimed
    <3> QED
      BY <2>1, <3>2, <1>1, <1>9
  <2> QED
    BY <2>1
<1>16. CcTimedInv'
  BY <1>1, <1>15 DEF CcTimedInv, CcContent, CcHeld
<1>17. ~ccAgain' => ccMap' = ccWant'
  BY <1>1, CcStateIs DEF map
<1> QED
  BY <1>1, <1>9, <1>10, <1>14, <1>16, <1>17 DEF CcInv, CcKeyed, CcHeld, CcLists

\* get(): only the order of the list changes.
LEMMA CcGetStep ==
  ASSUME CcInv, NEW k \in CcKeys, CcGet(k)
  PROVE  CcInv'
<1>1. /\ ccKind # "timed" /\ k \in CcHeld(ccMap) /\ ccList' = CcFront(ccList, k)
      /\ UNCHANGED <<ccKind, ccMap, ccTimed, ccNow, ccWant, ccAgain>>
  BY DEF CcGet, CcHeld
<1>2. ccList \in Seq(CcKeys) /\ CcLists(ccList, ccMap)
  BY <1>1, CcStateIs
<1>3. /\ ccList' \in Seq(CcKeys) /\ IsInjective(ccList')
      /\ \A x : (\E n \in DOMAIN ccList' : ccList'[n] = x) <=> x = k \/ \E j \in DOMAIN ccList : ccList[j] = x
  <2>1. IsInjective(ccList)
    BY <1>2 DEF CcLists
  <2> QED
    <3>1. /\ CcFront(ccList, k) \in Seq(CcKeys)
          /\ \A d : (\E n \in DOMAIN CcFront(ccList, k) : CcFront(ccList, k)[n] = d)
                       <=> d = k \/ \E j \in DOMAIN ccList : ccList[j] = d
          /\ IsInjective(ccList) => IsInjective(CcFront(ccList, k))
      BY <1>2, FrontIs
    <3> QED
      BY <1>1, <2>1, <3>1
<1>4. \A x : (\E j \in DOMAIN ccList : ccList[j] = x) <=> x \in CcHeld(ccMap)
  BY <1>2 DEF CcLists
<1>5. CcLists(ccList', ccMap')
  <2>1. \A x : (\E n \in DOMAIN ccList' : ccList'[n] = x) <=> x \in CcHeld(ccMap)
    BY <1>1, <1>3, <1>4
  <2>2. {ccList'[n] : n \in DOMAIN ccList'} = CcHeld(ccMap)
    BY <2>1
  <2> QED
    BY <1>1, <1>3, <2>2 DEF CcLists
<1>6. CcTypeOK'
  BY <1>1, <1>3 DEF CcInv, CcTypeOK
<1>7. CcTimedInv'
  BY <1>1 DEF CcInv, CcTimedInv, CcContent, CcHeld
<1> QED
  BY <1>1, <1>5, <1>6, <1>7 DEF CcInv, CcKeyed, CcHeld, CcLists

\* del(): the item of a key goes from all three containers.
LEMMA CcDelStep ==
  ASSUME CcInv, NEW k \in CcKeys, CcDel(k)
  PROVE  CcInv'
<1>1. /\ k \in CcHeld(ccMap) /\ ccMap' = [ccMap EXCEPT ![k] = <<>>] /\ ccTimed' = ccTimed \ {ccMap[k]}
      /\ ccList' = CcErased(ccList, {k}) /\ ccWant' = [ccWant EXCEPT ![k] = <<>>]
      /\ UNCHANGED <<ccKind, ccNow, ccAgain>>
  BY DEF CcDel, CcHeld
<1>2. ccMap \in CcMaps /\ CcKeyed(ccMap) /\ ccWant \in CcMaps /\ ccList \in Seq(CcKeys)
  BY CcStateIs
<1>3. ccMap' = CcWithout(ccMap, {k}) /\ ccWant' = CcWithout(ccWant, {k})
  BY <1>1, <1>2, DeletedIs
<1>4. ccMap[k] \in CcContent(ccMap) /\ {x.key : x \in {ccMap[k]}} = {k}
  BY <1>1, <1>2 DEF CcContent, CcKeyed
<1>5. /\ ccMap' \in CcMaps /\ CcKeyed(ccMap')
      /\ CcContent(ccMap') = CcContent(ccMap) \ {ccMap[k]}
  <2>1. ccMap' \in CcMaps /\ CcKeyed(ccMap')
    BY <1>2, <1>3, WithoutIs
  <2>2. {ccMap[k]} \subseteq CcContent(ccMap)
    BY <1>4
  <2>3. CcContent(CcWithout(ccMap, {x.key : x \in {ccMap[k]}})) = CcContent(ccMap) \ {ccMap[k]}
    BY <1>2, <2>2, ContentWithout
  <2> QED
    BY <1>3, <1>4, <2>1, <2>3
<1>6. ccWant' \in CcMaps
  BY <1>2, <1>3 DEF CcMaps, CcWithout
<1>7. ccList' \in Seq(CcKeys)
  BY <1>1, <1>2, ErasedIs
<1>8. ccKind # "timed" => CcLists(ccList', ccMap')
  <2>1. ASSUME ccKind # "timed" PROVE CcLists(CcErased(ccList, {k}), CcWithout(ccMap, {k}))
    <3>1. CcLists(ccList, ccMap)
      BY <2>1, CcStateIs
    <3> QED
      BY <1>2, <3>1, ListsWithout
  <2>2. ccList' = CcErased(ccList, {k}) /\ ccMap' = CcWithout(ccMap, {k})
    BY <1>1, <1>3
  <2> QED
    BY <2>1, <2>2
<1>9. CcTypeOK'
  BY <1>1, <1>5, <1>6, <1>7, CcStateIs DEF CcTypeOK, CcMaps
<1>10. CcTimedInv'
  <2>1. CcTimedInv
    BY DEF CcInv
  <2>2. /\ ccKind = "lru" => ccTimed' = {}
        /\ ccKind = "timed" => CcContent(ccMap') \subseteq ccTimed'
        /\ ccKind = "timedlru" \/ (ccKind = "timed" /\ ~ccAgain) => ccTimed' = CcContent(ccMap')
    BY <1>1, <1>5, <2>1 DEF CcTimedInv
  <2> QED
    BY <1>1, <2>2 DEF CcTimedInv, CcContent, CcHeld
<1>11. ~ccAgain' => ccMap' = ccWant'
  BY <1>1, CcStateIs
<1> QED
  BY <1>1, <1>5, <1>8, <1>9, <1>10, <1>11 DEF CcInv, CcKeyed, CcHeld, CcLists

\* checkTimeout(): the items that are due go, with the keys they name.
LEMMA CcTimeoutStep ==
  ASSUME CcInv, CcCheckTimeout
  PROVE  CcInv'
<1> DEFINE due == {x \in ccTimed : x.ts <= ccNow}
          lost == {x.key : x \in due}
          late == {k \in CcHeld(ccWant) : ccWant[k].ts <= ccNow}
<1>1. /\ ccKind # "lru" /\ ccTimed' = ccTimed \ due /\ ccMap' = CcWithout(ccMap, lost)
      /\ ccList' = CcErased(ccList, lost) /\ ccWant' = CcWithout(ccWant, late)
      /\ UNCHANGED <<ccKind, ccNow, ccAgain>>
  BY DEF CcCheckTimeout
<1>2. ccMap \in CcMaps /\ CcKeyed(ccMap) /\ ccWant \in CcMaps /\ ccList \in Seq(CcKeys)
  BY CcStateIs
<1>3. ASSUME ccTimed = CcContent(ccMap), ccMap = ccWant PROVE lost = late
  <2>1. ASSUME NEW x \in due PROVE x.key \in late
    <3>1. PICK k \in CcHeld(ccMap) : x = ccMap[k]
      BY <1>3, <2>1 DEF CcContent
    <3> QED
      BY <3>1, <1>2, <1>3, <2>1 DEF CcKeyed
  <2>2. ASSUME NEW k \in late PROVE k \in lost
    <3>1. ccMap[k] \in due /\ ccMap[k].key = k
      BY <1>2, <1>3, <2>2 DEF CcContent, CcKeyed
    <3> QED
      BY <3>1
  <2> QED
    BY <2>1, <2>2
<1>4. due \subseteq ccTimed
  OBVIOUS
<1> HIDE DEF due, late
<1>5. /\ ccMap' \in CcMaps /\ CcKeyed(ccMap')
      /\ CcContent(ccMap') \subseteq CcContent(ccMap) \ due
      /\ due \subseteq CcContent(ccMap) => CcContent(ccMap') = CcContent(ccMap) \ due
  BY <1>1, <1>2, WithoutIs, ContentWithout
<1>6. ccWant' \in CcMaps
  BY <1>1, <1>2 DEF CcMaps, CcWithout
<1>7. ccList' \in Seq(CcKeys)
  BY <1>1, <1>2, ErasedIs
<1>8. ccKind # "timed" => CcLists(ccList', ccMap')
  <2>1. ccKind # "timed" => CcLists(ccList, ccMap)
    BY CcStateIs
  <2> QED
    BY <1>1, <1>2, <2>1, ListsWithout
<1>9. CcTypeOK'
  BY <1>1, <1>5, <1>6, <1>7, CcStateIs DEF CcTypeOK, CcMaps
<1>10. CcTimedInv
  BY DEF CcInv
<1>11. CcTimedInv'
  <2>1. /\ ccKind = "timed" => CcContent(ccMap') \subseteq ccTimed'
        /\ ccKind = "timedlru" \/ (ccKind = "timed" /\ ~ccAgain) => ccTimed' = CcContent(ccMap')
    BY <1>1, <1>4, <1>5, <1>10 DEF CcTimedInv
  <2> QED
    BY <1>1, <2>1 DEF CcTimedInv, CcContent, CcHeld
<1>12. ~ccAgain' => ccMap' = ccWant'
  <2>1. ASSUME ~ccAgain PROVE lost = late /\ ccMap = ccWant
    <3>1. ccMap = ccWant /\ ccKind \in CcKinds
      BY <2>1, CcStateIs
    <3>2. ccTimed = CcContent(ccMap)
      BY <2>1, <3>1, <1>1, <1>10 DEF CcTimedInv, CcKinds
    <3> QED
      BY <3>1, <3>2, <1>3
  <2> QED
    BY <1>1, <2>1
<1> QED
  BY <1>1, <1>5, <1>8, <1>9, <1>11, <1>12 DEF CcInv, CcKeyed, CcHeld, CcLists

\* An empty cache, as it is made and after clear().
CcBlank ==
    /\ ccMap = CcEmpty /\ ccTimed = {} /\ ccList = <<>> /\ ccWant = CcEmpty /\ ccAgain = FALSE
    /\ ccKind \in CcKinds /\ ccNow \in Nat

\* A cache starts with nothing in it.
LEMMA CcEmptyIs == CcBlank => CcInv
<1> SUFFICES ASSUME CcBlank PROVE CcInv
  OBVIOUS
<1> USE DEF CcBlank
<1>1. CcHeld(ccMap) = {} /\ ccMap \in CcMaps /\ ccWant \in CcMaps
  BY DEF CcHeld, CcEmpty, CcMaps
<1>2. CcContent(ccMap) = {} /\ CcKeyed(ccMap)
  BY <1>1 DEF CcContent, CcKeyed
<1>3. CcLists(ccList, ccMap)
  BY <1>1 DEF CcLists, IsInjective
<1>4. CcTypeOK
  <2>1. ccAgain \in BOOLEAN
    OBVIOUS
  <2>2. ccList \in Seq(CcKeys)
    BY EmptySeq
  <2> QED
    BY <1>1, <2>1, <2>2 DEF CcTypeOK, CcMaps
<1> QED
  BY <1>2, <1>3, <1>4 DEF CcInv, CcTimedInv

\* The containers of every cache agree, for any keys, sizes and times: no operation
\* leaves an iterator that dangles, a key in one container alone, or an entry that is
\* not the last one set, whatever pruning and expiry take away, except in a TimedCache
\* that was given a key again.
THEOREM CcAgreeHolds == CcSpec => []CcAgree
<1>1. CcInit => CcInv
  <2> SUFFICES ASSUME CcInit PROVE CcInv
    OBVIOUS
  <2> QED
    BY CcEmptyIs DEF CcInit, CcKinds, CcBlank
<1>2. CcInv /\ [CcNext]_ccVars => CcInv'
  <2> SUFFICES ASSUME CcInv, [CcNext]_ccVars PROVE CcInv'
    OBVIOUS
  <2>1. ASSUME NEW k \in CcKeys, NEW v \in CcVals, NEW d \in CcDelays, CcSetTimed(k, v, d) PROVE CcInv'
    BY <2>1, CcSetTimedStep
  <2>2. ASSUME NEW k \in CcKeys, NEW v \in CcVals, NEW d \in CcDelays, CcSetLru(k, v, d) PROVE CcInv'
    BY <2>2, CcSetLruStep
  <2>3. ASSUME NEW k \in CcKeys, CcGet(k) PROVE CcInv'
    BY <2>3, CcGetStep
  <2>4. ASSUME NEW k \in CcKeys, CcDel(k) PROVE CcInv'
    BY <2>4, CcDelStep
  <2>5. CASE CcCheckTimeout
    BY <2>5, CcTimeoutStep
  <2>6. CASE CcClear
    <3>1. CcBlank'
      BY <2>6, CcStateIs DEF CcClear, CcBlank, CcEmpty
    <3> QED
      BY <3>1, CcEmptyIs, PTL
  <2>7. CASE CcTick
    <3>1. ccNow' \in Nat /\ UNCHANGED <<ccKind, ccMap, ccTimed, ccList, ccWant, ccAgain>>
      BY <2>7, CcStateIs DEF CcTick
    <3> QED
      BY <3>1 DEF CcInv, CcTypeOK, CcTimedInv, CcKeyed, CcContent, CcHeld, CcLists
  <2>8. CASE UNCHANGED ccVars
    BY <2>8 DEF ccVars, CcInv, CcTypeOK, CcTimedInv, CcKeyed, CcContent, CcHeld, CcLists
  <2> QED
    BY <2>1, <2>2, <2>3, <2>4, <2>5, <2>6, <2>7, <2>8 DEF CcNext
<1>3. CcInv => CcAgree
  <2> SUFFICES ASSUME CcInv PROVE CcAgree
    OBVIOUS
  <2>1. ccMap \in CcMaps /\ CcKeyed(ccMap) /\ ccKind \in CcKinds
    BY CcStateIs
  <2>2. Cardinality(CcContent(ccMap)) = Cardinality(CcHeld(ccMap))
    BY <2>1, ContentCard
  <2>3. CcTimedInv
    BY DEF CcInv
  <2>4. ccKind # "lru" => \A k \in CcHeld(ccMap) : ccMap[k] \in ccTimed
    BY <2>1, <2>3 DEF CcTimedInv, CcContent, CcKinds
  <2>5. ccKind = "timedlru" => Cardinality(ccTimed) = Cardinality(CcHeld(ccMap))
    BY <2>2, <2>3 DEF CcTimedInv
  <2> QED
    BY <2>4, <2>5 DEF CcAgree, CcInv, CcLists
<1> QED
  BY <1>1, <1>2, <1>3, PTL DEF CcSpec

=============================================================================
