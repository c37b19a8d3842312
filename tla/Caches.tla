------------------------------- MODULE Caches -------------------------------
(***************************************************************************)
(* TimedCache, TimedLruCache and LruCache (src/include/ds/timed_cache.hpp, *)
(* timed_lru_cache.hpp, lru_cache.hpp).  Each keeps the same items in      *)
(* several containers that point into one another; every operation is one  *)
(* critical section.  The Hash* variants send a key to one of several such *)
(* caches.                                                                 *)
(***************************************************************************)
EXTENDS Integers, Sequences, FiniteSets, SequencesExt

CONSTANTS
    CcKeys,       \* keys (integers: the containers order them)
    CcVals,       \* values
    CcDelays,     \* the "expired" arguments of set()
    CcMaxSize,    \* m_maxSize
    CcElasticity, \* m_elasticity
    CcMaxTime     \* bound: the clock

ASSUME CachesAssumption ==
    /\ CcKeys \subseteq Int /\ IsFiniteSet(CcKeys)
    /\ CcDelays \subseteq Nat /\ CcMaxSize \in Nat /\ CcElasticity \in Nat /\ CcMaxTime \in Nat

VARIABLES
    ccKind,   \* which of the classes this is: "timed", "timedlru", "lru"
    ccMap,    \* m_cache: a key to its item [key, val, ts], or <<>>
    ccTimed,  \* m_timed, a set ordered by ts and key
    ccList,   \* m_keys, the most recently used first
    ccNow,    \* GetCurrentMS()
    ccWant,   \* the content a reader of the interface expects: a key to its item, or <<>>
    ccAgain   \* a TimedCache was given a key it already had

ccVars == <<ccKind, ccMap, ccTimed, ccList, ccNow, ccWant, ccAgain>>

CcEmpty == [k \in CcKeys |-> <<>>]
CcHeld(map) == {k \in CcKeys : map[k] # <<>>}
CcWithout(map, gone) == [k \in CcKeys |-> IF k \in gone THEN <<>> ELSE map[k]]

CcInit ==
    /\ ccKind \in {"timed", "timedlru", "lru"}
    /\ ccMap = CcEmpty /\ ccTimed = {} /\ ccList = <<>>
    /\ ccNow = 0 /\ ccWant = CcEmpty /\ ccAgain = FALSE

-----------------------------------------------------------------------------
CcBefore(a, b) == a.ts < b.ts \/ (a.ts = b.ts /\ a.key < b.key)
CcOrdered(items) == [j \in 1 .. Cardinality(items) |->
    CHOOSE x \in items : Cardinality({y \in items : CcBefore(y, x)}) = j - 1]

\* m_keys after the keys of gone are erased: the others, in their order.
CcErased(list, gone) ==
    LET stay == {j \in DOMAIN list : list[j] \notin gone}
    IN  [n \in 1 .. Cardinality(stay) |->
            list[CHOOSE j \in stay : Cardinality({i \in stay : i < j}) = n - 1]]
CcFront(list, k) == <<k>> \o CcErased(list, {k})

CcOverflows(map) == CcMaxSize # 0 /\ Cardinality(CcHeld(map)) >= CcMaxSize + CcElasticity

\* prune(): items go, in this order, until m_cache holds m_maxSize keys.
CcPruned(map, order) ==
    LET enough(n) == Cardinality(CcHeld(map) \ {order[j].key : j \in 1 .. n}) <= CcMaxSize
        fewest == CHOOSE n \in 0 .. Len(order) : enough(n) /\ \A j \in 0 .. n - 1 : ~enough(j)
    IN  IF CcOverflows(map) THEN {order[j] : j \in 1 .. fewest} ELSE {}

\* The item a user sets; a plain LruCache has no times.
CcItem(k, v, d) == [key |-> k, val |-> v, ts |-> IF ccKind = "lru" THEN 0 ELSE ccNow + d]

\* TimedCache::set(): the old item stays in m_timed; an item with the same time and key is not replaced.
CcSetTimed(k, v, d) ==
    LET same == {x \in ccTimed : x.key = k /\ x.ts = ccNow + d}
        item == IF same = {} THEN CcItem(k, v, d) ELSE CHOOSE x \in same : TRUE
        timed == ccTimed \union {item}
        map == [ccMap EXCEPT ![k] = item]
        gone == CcPruned(map, CcOrdered(timed))
    IN  /\ ccKind = "timed"
        /\ ccTimed' = timed \ gone
        /\ ccMap' = CcWithout(map, {x.key : x \in gone})
        /\ ccAgain' = (ccAgain \/ ccMap[k] # <<>>)
        /\ LET want == [ccWant EXCEPT ![k] = CcItem(k, v, d)]
           IN  ccWant' = CcWithout(want, {x.key : x \in CcPruned(want, CcOrdered({want[j] : j \in CcHeld(want)}))})
        /\ UNCHANGED <<ccKind, ccList, ccNow>>

\* Mistake for the mutation tests: m_timed is left with the old time of a key that is set again.
CcRetimedLate(k, item) == ccTimed \union {item}

\* set() of a key that is there: the item is unhooked from m_timed before its time changes.
CcRetimed(k, item) == {x \in ccTimed : x.key # k} \union {item}

\* TimedLruCache::set() and LruCache::set(): only a new key prunes, from the back of the list.
CcSetLru(k, v, d) ==
    LET item == CcItem(k, v, d)
        list == CcFront(ccList, k)
        map == [ccMap EXCEPT ![k] = item]
        back == [j \in DOMAIN list |-> map[list[Len(list) + 1 - j]]]
        gone == IF ccMap[k] # <<>> THEN {} ELSE CcPruned(map, back)
        lost == {x.key : x \in gone}
    IN  /\ ccKind \in {"timedlru", "lru"}
        /\ ccMap' = CcWithout(map, lost)
        /\ ccList' = CcErased(list, lost)
        /\ ccTimed' = IF ccKind = "lru" THEN {} ELSE CcRetimed(k, item) \ gone
        /\ ccWant' = CcWithout([ccWant EXCEPT ![k] = item], lost)
        /\ UNCHANGED <<ccKind, ccNow, ccAgain>>

\* get(): a hit moves the key to the front of the list.
CcGet(k) ==
    /\ ccKind # "timed" /\ ccMap[k] # <<>>
    /\ ccList' = CcFront(ccList, k)
    /\ UNCHANGED <<ccKind, ccMap, ccTimed, ccNow, ccWant, ccAgain>>

\* del() of LruCache and TimedLruCache.  TimedCache::del() ends without a return
\* once it has erased the key, which is undefined; nothing calls it.
CcDel(k) ==
    /\ ccKind # "timed" /\ ccMap[k] # <<>>
    /\ ccMap' = [ccMap EXCEPT ![k] = <<>>]
    /\ ccTimed' = ccTimed \ {ccMap[k]}
    /\ ccList' = CcErased(ccList, {k})
    /\ ccWant' = [ccWant EXCEPT ![k] = <<>>]
    /\ UNCHANGED <<ccKind, ccNow, ccAgain>>

\* checkTimeout(): the items of m_timed that are due, and the keys they name.
CcCheckTimeout ==
    LET due == {x \in ccTimed : x.ts <= ccNow}
    IN  /\ ccKind # "lru"
        /\ ccTimed' = ccTimed \ due
        /\ ccMap' = CcWithout(ccMap, {x.key : x \in due})
        /\ ccList' = CcErased(ccList, {x.key : x \in due})
        /\ ccWant' = CcWithout(ccWant, {k \in CcHeld(ccWant) : ccWant[k].ts <= ccNow})
        /\ UNCHANGED <<ccKind, ccNow, ccAgain>>

\* clear()
CcClear ==
    /\ ccMap' = CcEmpty /\ ccTimed' = {} /\ ccList' = <<>> /\ ccWant' = CcEmpty
    /\ ccAgain' = FALSE
    /\ UNCHANGED <<ccKind, ccNow>>

CcTick ==
    /\ ccNow < CcMaxTime
    /\ ccNow' = ccNow + 1
    /\ UNCHANGED <<ccKind, ccMap, ccTimed, ccList, ccWant, ccAgain>>

CcNext ==
    \/ \E k \in CcKeys, v \in CcVals, d \in CcDelays : CcSetTimed(k, v, d) \/ CcSetLru(k, v, d)
    \/ \E k \in CcKeys : CcGet(k) \/ CcDel(k)
    \/ CcCheckTimeout \/ CcClear \/ CcTick

CcSpec == CcInit /\ [][CcNext]_ccVars

-----------------------------------------------------------------------------
\* The containers agree: an item the map points to is still in m_timed (no
\* dangling iterator), the list holds the keys of the map, and the map holds
\* what the callers put there and neither deleted, let expire nor had pruned.
\* A TimedCache that was given a key again is excused from the last part: its
\* old item stays in m_timed and takes the new entry with it when it is due.
CcAgree ==
    /\ ccKind # "lru" => \A k \in CcHeld(ccMap) : ccMap[k] \in ccTimed
    /\ ccKind # "timed" => {ccList[j] : j \in DOMAIN ccList} = CcHeld(ccMap) /\ IsInjective(ccList)
    /\ ccKind = "timedlru" => Cardinality(ccTimed) = Cardinality(CcHeld(ccMap))
    /\ ~ccAgain => ccMap = ccWant
=============================================================================
