----------------------------- MODULE Discovery ------------------------------
(***************************************************************************)
(* Service discovery over ZooKeeper (src/src/streams/service_discovery.cpp)*)
(* and the balancer that follows it (SDLoadBalance in load_balance.cpp).   *)
(* Providers are ephemeral children of one path.  Two threads run          *)
(* getChildren(): ZooKeeper's watcher thread on an event and a timer every *)
(* 60 seconds.  Each fetches the children, swaps them into m_datas under   *)
(* the lock and passes the old and the new list to onServiceChange(), which*)
(* opens streams, updates the balancer and closes streams.                 *)
(*                                                                         *)
(* One domain and service; SdSelf is the provider that this process        *)
(* registers.  ZooKeeper itself is external: one-shot child watches,       *)
(* sessions that expire, ephemeral nodes that go with their session.       *)
(***************************************************************************)
EXTENDS Integers, Sequences, FiniteSets

CONSTANTS
    SdHosts,       \* providers that come and go
    SdSelf,        \* the provider that this process registers
    SdMaxChanges,  \* bound: providers that come or go
    SdMaxExpiry    \* bound: sessions that expire

SdAll == SdHosts \cup {SdSelf}
SdThreads == {"zk", "timer"}

ASSUME DiscoveryAssumption ==
    /\ SdSelf \notin SdHosts
    /\ SdMaxChanges \in Nat /\ SdMaxExpiry \in Nat

VARIABLES
    zkKids,      \* children of the providers path
    zkOwner,     \* session that owns SdSelf: none, old (a process before this one), cur
    zkWatch,     \* the child watch is set
    zkEvents,    \* events for the watcher thread
    zkUp,        \* the session is connected
    sdDatas,     \* m_datas
    sdTask,      \* what each thread is doing
    sdLb,        \* LoadBalance::m_datas: the hosts that have an item
    sdStreams,   \* streams of each host that were made and not told to close
    sdFailed,    \* hosts for which m_cb made no stream
    sdMuddled,   \* hosts in the changes of overlapping callbacks
    sdChanges,   \* providers that came or went
    sdExpiries   \* sessions that expired

zkVars == <<zkKids, zkOwner, zkWatch, zkEvents, zkUp>>
sdBooks == <<sdLb, sdStreams, sdFailed, sdMuddled>>
sdVars == <<zkVars, sdDatas, sdTask, sdBooks, sdChanges, sdExpiries>>

\* A thread in getChildren(): the list it fetched, the one it replaced and the
\* hosts it has made streams for.
SdAt(pc, list, old, adds) == [pc |-> pc, list |-> list, old |-> old, adds |-> adds]
SdIdle == SdAt("idle", {}, {}, {})

\* start(): the handle is initialised and reports CONNECTED as an event.
SdInit ==
    /\ zkOwner \in {"none", "old"}
    /\ zkKids = IF zkOwner = "old" THEN {SdSelf} ELSE {}
    /\ zkWatch = FALSE /\ zkEvents = <<"session">> /\ zkUp = TRUE
    /\ sdDatas = {}
    /\ sdTask = [t \in SdThreads |-> SdIdle]
    /\ sdLb = {}
    /\ sdStreams = [h \in SdAll |-> 0]
    /\ sdFailed = {} /\ sdMuddled = {}
    /\ sdChanges = 0 /\ sdExpiries = 0

-----------------------------------------------------------------------------
(* ZooKeeper                                                               *)

\* A change of the children fires the watch, once.
ZkSetKids(kids) ==
    /\ zkKids' = kids
    /\ zkWatch' = FALSE
    /\ zkEvents' = IF zkWatch THEN Append(zkEvents, "child") ELSE zkEvents

ZkChange(h) ==
    /\ sdChanges < SdMaxChanges
    /\ sdChanges' = sdChanges + 1
    /\ ZkSetKids(IF h \in zkKids THEN zkKids \ {h} ELSE zkKids \cup {h})
    /\ UNCHANGED <<zkOwner, zkUp, sdDatas, sdTask, sdBooks, sdExpiries>>

\* The session of the process that ran here before ends.
ZkOldSessionEnds ==
    /\ zkOwner = "old"
    /\ zkOwner' = "none"
    /\ ZkSetKids(zkKids \ {SdSelf})
    /\ UNCHANGED <<zkUp, sdDatas, sdTask, sdBooks, sdChanges, sdExpiries>>

\* The session of this process expires, with its watches and nodes.
ZkExpire ==
    /\ zkUp /\ sdExpiries < SdMaxExpiry
    /\ sdExpiries' = sdExpiries + 1
    /\ zkUp' = FALSE /\ zkWatch' = FALSE
    /\ zkEvents' = Append(zkEvents, "expired")
    /\ IF zkOwner = "cur" THEN zkOwner' = "none" /\ zkKids' = zkKids \ {SdSelf}
                          ELSE UNCHANGED <<zkOwner, zkKids>>
    /\ UNCHANGED <<sdDatas, sdTask, sdBooks, sdChanges>>

-----------------------------------------------------------------------------
(* The two threads                                                         *)

SdGo(t, pc) == sdTask' = [sdTask EXCEPT ![t] = SdAt(pc, {}, {}, {})]

\* onWatch(): a new session registers and queries, a child event queries,
\* an expired session is replaced by reconnect().
SdEvent ==
    /\ zkEvents # <<>> /\ sdTask["zk"].pc = "idle"
    /\ LET e == Head(zkEvents)
       IN  IF e = "expired"
           THEN /\ zkUp' = TRUE
                /\ zkEvents' = Append(Tail(zkEvents), "session")
                /\ UNCHANGED sdTask
           ELSE /\ SdGo("zk", IF e = "session" THEN "register" ELSE "fetch")
                /\ zkEvents' = Tail(zkEvents)
                /\ UNCHANGED zkUp
    /\ UNCHANGED <<zkKids, zkOwner, zkWatch, sdDatas, sdBooks, sdChanges, sdExpiries>>

\* The recurring timer calls onZKConnect().
SdTimer ==
    /\ sdTask["timer"].pc = "idle"
    /\ SdGo("timer", "register")
    /\ UNCHANGED <<zkVars, sdDatas, sdBooks, sdChanges, sdExpiries>>

\* Mistake for the mutation tests: only a new session registers.
SdRegisterOnce(t) ==
    /\ sdTask[t].pc = "register"
    /\ SdGo(t, "fetch")
    /\ IF zkUp /\ SdSelf \notin zkKids /\ t = "zk"
       THEN zkOwner' = "cur" /\ ZkSetKids(zkKids \cup {SdSelf})
       ELSE UNCHANGED <<zkOwner, zkKids, zkWatch, zkEvents>>
    /\ UNCHANGED <<zkUp, sdDatas, sdBooks, sdChanges, sdExpiries>>

\* registerInfo() and queryInfo(): a node that exists already is a success.
SdRegister(t) ==
    /\ sdTask[t].pc = "register"
    /\ SdGo(t, "fetch")
    /\ IF zkUp /\ SdSelf \notin zkKids
       THEN zkOwner' = "cur" /\ ZkSetKids(zkKids \cup {SdSelf})
       ELSE UNCHANGED <<zkOwner, zkKids, zkWatch, zkEvents>>
    /\ UNCHANGED <<zkUp, sdDatas, sdBooks, sdChanges, sdExpiries>>

\* getChildren(): the children, and the watch is set again.
SdFetch(t) ==
    /\ sdTask[t].pc = "fetch"
    /\ IF zkUp
       THEN /\ sdTask' = [sdTask EXCEPT ![t] = SdAt("swap", zkKids, {}, {})]
            /\ zkWatch' = TRUE
       ELSE sdTask' = [sdTask EXCEPT ![t] = SdIdle] /\ UNCHANGED zkWatch
    /\ UNCHANGED <<zkKids, zkOwner, zkEvents, zkUp, sdDatas, sdBooks, sdChanges, sdExpiries>>

\* What a callback in progress is going to add or delete.
SdDelta(t) == (sdTask[t].list \ sdTask[t].old) \cup (sdTask[t].old \ sdTask[t].list)
SdInCallback(t) == sdTask[t].pc \in {"diff", "update"}

\* m_datas is swapped under the lock, the callback runs after it.
SdSwap(t) ==
    LET other == CHOOSE o \in SdThreads : o # t
        mine == (sdTask[t].list \ sdDatas) \cup (sdDatas \ sdTask[t].list)
    IN  /\ sdTask[t].pc = "swap"
        /\ sdTask' = [sdTask EXCEPT ![t] = SdAt("diff", sdTask[t].list, sdDatas, {})]
        /\ sdDatas' = sdTask[t].list
        /\ sdMuddled' = IF SdInCallback(other) THEN sdMuddled \cup (SdDelta(other) \cap mine)
                                               ELSE sdMuddled
        /\ UNCHANGED <<zkVars, sdLb, sdStreams, sdFailed, sdChanges, sdExpiries>>

\* onServiceChange(): m_cb makes a stream for every new host, or fails and
\* the host is passed over.
SdCreate(t, failing) ==
    LET news == sdTask[t].list \ sdTask[t].old
    IN  /\ sdTask[t].pc = "diff"
        /\ failing \subseteq news
        /\ sdTask' = [sdTask EXCEPT ![t] = SdAt("update", sdTask[t].list, sdTask[t].old, news \ failing)]
        /\ sdStreams' = [h \in SdAll |-> IF h \in news \ failing THEN sdStreams[h] + 1 ELSE sdStreams[h]]
        /\ sdFailed' = (sdFailed \ news) \cup failing
        /\ UNCHANGED <<zkVars, sdDatas, sdLb, sdMuddled, sdChanges, sdExpiries>>

\* Mistake for the mutation tests: the deleted items are not closed.
SdUpdateNoClose(t) ==
    LET dels == sdTask[t].old \ sdTask[t].list
    IN  /\ sdTask[t].pc = "update"
        /\ sdTask' = [sdTask EXCEPT ![t] = SdIdle]
        /\ sdLb' = (sdLb \ dels) \cup sdTask[t].adds
        /\ UNCHANGED <<zkVars, sdDatas, sdStreams, sdFailed, sdMuddled, sdChanges, sdExpiries>>

\* LoadBalance::update(): the items found for the deletions are taken out
\* and then closed; an addition replaces what it finds.
SdUpdate(t) ==
    LET dels == sdTask[t].old \ sdTask[t].list
        found == dels \cap sdLb
    IN  /\ sdTask[t].pc = "update"
        /\ sdTask' = [sdTask EXCEPT ![t] = SdIdle]
        /\ sdLb' = (sdLb \ found) \cup sdTask[t].adds
        /\ sdStreams' = [h \in SdAll |-> IF h \in found THEN sdStreams[h] - 1 ELSE sdStreams[h]]
        /\ UNCHANGED <<zkVars, sdDatas, sdFailed, sdMuddled, sdChanges, sdExpiries>>

SdThread(t) ==
    \/ SdRegister(t) \/ SdFetch(t) \/ SdSwap(t) \/ SdUpdate(t)
    \/ \E failing \in SUBSET SdHosts : SdCreate(t, failing)

SdNext ==
    \/ \E h \in SdHosts : ZkChange(h)
    \/ ZkOldSessionEnds \/ ZkExpire
    \/ SdEvent \/ SdTimer
    \/ \E t \in SdThreads : SdThread(t)

SdSpec == SdInit /\ [][SdNext]_sdVars

-----------------------------------------------------------------------------
(* Properties                                                              *)

\* When no thread is in a callback, the balancer has exactly the hosts of
\* m_datas whose stream could be made, each with one stream, and no other
\* stream was left open.  Only hosts that two overlapping callbacks both
\* touch are left out: the swap and the callback are not one critical section.
SdConsistent ==
    (\A t \in SdThreads : ~SdInCallback(t)) =>
        \A h \in SdAll \ sdMuddled :
            /\ h \in sdLb <=> h \in sdDatas \ sdFailed
            /\ sdStreams[h] = (IF h \in sdLb THEN 1 ELSE 0)

\* When ZooKeeper stops changing, this process is registered, also after a
\* restart under the old session's node and after an expired session, and
\* m_datas is what ZooKeeper lists, also when a late thread swapped in an
\* old list.  The 60 second timer repairs both.
SdSettles ==
    <>[](SdSelf \in zkKids /\ sdDatas = zkKids)
=============================================================================
