---------------------------- MODULE LoadBalance -----------------------------
(***************************************************************************)
(* The weighted balancer and its statistics                                *)
(* (src/src/streams/load_balance.cpp) as RockSDLoadBalance::request() of   *)
(* rock_stream.cpp uses them.  get() picks an item by weight from a list   *)
(* that initNolock() rebuilds from the connected items, at every change    *)
(* and every 500 ms.  Every item counts its requests in a ring of slots,   *)
(* one per second; a request keeps a reference to the slot of the second   *)
(* in which it began and counts its end there.                             *)
(*                                                                         *)
(* FairLoadBalanceItem::getWeight() computes a weight in floating point and*)
(* raises it to at least 1: any weight of LbWeights is possible here.      *)
(***************************************************************************)
EXTENDS Integers, Sequences, FiniteSets, FiniteSetsExt, SequencesExt

CONSTANTS
    LbItems,     \* items of the balancer
    LbSize,      \* slots of the ring (5 in the code)
    LbWeights,   \* weights an item may have
    LbCalls,     \* callers of request()
    LbMaxTime,   \* bound: seconds
    LbPerSecond, \* bound: requests to an item in a second
    LbUint       \* the counters are unsigned, modulo this (2^32 in the code)

ASSUME LoadBalanceAssumption ==
    /\ LbSize \in Nat \ {0} /\ LbMaxTime \in Nat /\ LbPerSecond \in Nat
    /\ IsFiniteSet(LbItems) /\ IsFiniteSet(LbCalls)
    /\ LbUint \in Nat /\ LbUint > Cardinality(LbCalls)
    /\ LbWeights \subseteq Nat \ {0}

VARIABLES
    lbNow,      \* time(0), after a start that is far from 0
    lbConn,     \* items whose stream is connected
    lbList,     \* m_items
    lbSums,     \* m_weights: sums of the weights up to each item
    lbDoing,    \* m_doing of every slot of every item
    lbTotal,    \* m_total of every slot of every item
    lbLast,     \* m_lastUpdateTime of every item
    lbCall,     \* a caller's request: its item and the second it began
    lbBegun,    \* per item and second: the requests that began
    lbSpoilt    \* seconds into whose slot a request ended that had lost it

lbStats == <<lbDoing, lbTotal, lbLast, lbBegun, lbSpoilt>>
lbVars == <<lbNow, lbConn, lbList, lbSums, lbStats, lbCall>>

LbTimes == LbSize .. LbSize + LbMaxTime
LbRing == 0 .. LbSize - 1
LbFree == [item |-> "none", at |-> 0]

LbInit ==
    /\ lbNow = LbSize
    /\ lbConn = {} /\ lbList = <<>> /\ lbSums = <<>>
    /\ lbDoing = [i \in LbItems |-> [k \in LbRing |-> 0]]
    /\ lbTotal = lbDoing
    /\ lbLast = [i \in LbItems |-> 0]
    /\ lbCall = [c \in LbCalls |-> LbFree]
    /\ lbBegun = [i \in LbItems |-> [t \in LbTimes |-> 0]]
    /\ lbSpoilt = [i \in LbItems |-> {}]

-----------------------------------------------------------------------------
(* The ring of slots                                                       *)

\* Mistake for the mutation tests: the slot of this second is not cleared.
LbClearedShort(i) ==
    IF lbLast[i] >= lbNow THEN {}
    ELSE {t % LbSize : t \in lbLast[i] + 1 .. Min({lbNow - 1, lbLast[i] + LbSize})}

\* HolderStatsSet::init(): the slots of the seconds since the last update
\* are cleared, at most the whole ring.
LbCleared(i) ==
    IF lbLast[i] >= lbNow THEN {}
    ELSE {t % LbSize : t \in lbLast[i] + 1 .. Min({lbNow, lbLast[i] + LbSize})}

\* The counters of the items after init().
LbFresh(f, items) ==
    [i \in LbItems |-> [k \in LbRing |-> IF i \in items /\ k \in LbCleared(i) THEN 0 ELSE f[i][k]]]
LbTouched(items) == [i \in LbItems |-> IF i \in items /\ lbLast[i] < lbNow THEN lbNow ELSE lbLast[i]]

-----------------------------------------------------------------------------
(* Choosing an item                                                        *)

LbConnect(i) ==
    /\ lbConn' = IF i \in lbConn THEN lbConn \ {i} ELSE lbConn \cup {i}
    /\ UNCHANGED <<lbNow, lbList, lbSums, lbStats, lbCall>>

\* initNolock(): the connected items and the sums of their weights; to weigh
\* an item, its ring is brought up to date.
LbRefresh(w) ==
    LET list == SetToSeq(lbConn)
    IN  /\ lbList' = list
        /\ lbSums' = [k \in 1 .. Len(list) |-> FoldSet(LAMBDA j, s : s + w[list[j]], 0, 1 .. k)]
        /\ lbDoing' = LbFresh(lbDoing, lbConn) /\ lbTotal' = LbFresh(lbTotal, lbConn)
        /\ lbLast' = LbTouched(lbConn)
        /\ UNCHANGED <<lbNow, lbConn, lbCall, lbBegun, lbSpoilt>>

\* getIdx(): upper_bound() of a number below the total.
LbIdx(dis) == Min({k \in 1 .. Len(lbSums) : lbSums[k] > dis})

\* get(): the first item from there, round the list, that is connected.
LbPick(dis) ==
    LET at(n) == lbList[((LbIdx(dis) - 1 + n) % Len(lbList)) + 1]
        good == {n \in 0 .. Len(lbList) - 1 : at(n) \in lbConn}
    IN  IF good = {} THEN "none" ELSE at(Min(good))

-----------------------------------------------------------------------------
(* Counting requests                                                       *)

\* request(): the item's slot of this second counts a request begun.
LbRequest(c, dis) ==
    LET i == LbPick(dis)
        plus(f) == [LbFresh(f, {i}) EXCEPT ![i][lbNow % LbSize] = @ + 1]
    IN  /\ lbCall[c] = LbFree
        /\ lbList # <<>> /\ i # "none"
        /\ lbBegun[i][lbNow] < LbPerSecond
        /\ lbDoing' = plus(lbDoing) /\ lbTotal' = plus(lbTotal)
        /\ lbLast' = LbTouched({i})
        /\ lbCall' = [lbCall EXCEPT ![c] = [item |-> i, at |-> lbNow]]
        /\ lbBegun' = [lbBegun EXCEPT ![i][lbNow] = @ + 1]
        /\ UNCHANGED <<lbNow, lbConn, lbList, lbSums, lbSpoilt>>

\* The second whose counts a slot holds; 0 before its first use.
LbSecond(i, k) == Max({0} \cup {t \in 0 .. lbLast[i] : t % LbSize = k})

\* The end of a request: decDoing() on the slot it has kept a reference to,
\* whatever that slot has been used for since; the counter is unsigned.
LbFinish(c) ==
    LET i == lbCall[c].item
        slot == lbCall[c].at % LbSize
    IN  /\ lbCall[c] # LbFree
        /\ lbDoing' = [lbDoing EXCEPT ![i][slot] = (@ - 1) % LbUint]
        /\ lbCall' = [lbCall EXCEPT ![c] = LbFree]
        /\ lbSpoilt' = IF LbSecond(i, slot) = lbCall[c].at THEN lbSpoilt
                       ELSE [lbSpoilt EXCEPT ![i] = @ \cup {LbSecond(i, slot)}]
        /\ UNCHANGED <<lbNow, lbConn, lbList, lbSums, lbTotal, lbLast, lbBegun>>

LbTick ==
    /\ lbNow < LbSize + LbMaxTime
    /\ lbNow' = lbNow + 1
    /\ UNCHANGED <<lbConn, lbList, lbSums, lbStats, lbCall>>

LbNext ==
    \/ \E i \in LbItems : LbConnect(i)
    \/ \E w \in [LbItems -> LbWeights] : LbRefresh(w)
    \/ \E c \in LbCalls :
          \/ lbList # <<>> /\ \E dis \in 0 .. Last(lbSums) - 1 : LbRequest(c, dis)
          \/ LbFinish(c)
    \/ LbTick

LbSpec == LbInit /\ [][LbNext]_lbVars

-----------------------------------------------------------------------------
(* Properties                                                              *)

\* The ring is a window on the last LbSize seconds: a slot holds the number
\* of the requests that began in its second and of those still in progress,
\* so the counter of requests in progress never goes below zero.  Only a
\* slot is left out into which a request ended after the ring had gone
\* round, that is, one of LbSize seconds or more.
LbWindow ==
    \A i \in LbItems, k \in LbRing :
        LET t == LbSecond(i, k)
        IN  t \in LbTimes =>
              /\ lbTotal[i][k] = lbBegun[i][t]
              /\ t \notin lbSpoilt[i] =>
                   lbDoing[i][k] = Cardinality({c \in LbCalls : lbCall[c] = [item |-> i, at |-> t]})
=============================================================================
