----------------------------- MODULE MCProgress -----------------------------
(***************************************************************************)
(* Small instances of the components that must get somewhere whatever the  *)
(* order of their steps: one behaviour runs one of them, chosen in the     *)
(* initial state, while the others stay as they are.                       *)
(***************************************************************************)
EXTENDS HookIO, WorkerGroup, StreamLife, Discovery, NSClient, ThreadPool, FoxRedis

CONSTANTS s1, s2, s3, k1

VARIABLE part

ProgressInit ==
    /\ part \in {"hook", "group", "stream", "discovery", "client", "threads", "redis"}
    /\ Init /\ WgInit /\ SlInit /\ SdInit /\ NcInit /\ TpInit /\ FxInit
    /\ part = "stream" \/ slUp
    /\ part = "discovery" \/ zkOwner = "none"
    /\ part = "client" \/ ncQuery = {}
    /\ part = "threads" \/ tpCached

ProgressNext ==
    /\ UNCHANGED part
    /\ \/ part = "hook" /\ Next /\ UNCHANGED <<wgVars, slVars, sdVars, ncVars, tpVars, fxVars>>
       \/ part = "group" /\ WgNext /\ UNCHANGED <<vars, slVars, sdVars, ncVars, tpVars, fxVars>>
       \/ part = "stream" /\ SlNext /\ UNCHANGED <<vars, wgVars, sdVars, ncVars, tpVars, fxVars>>
       \/ part = "discovery" /\ SdNext /\ UNCHANGED <<vars, wgVars, slVars, ncVars, tpVars, fxVars>>
       \/ part = "client" /\ NcNext /\ UNCHANGED <<vars, wgVars, slVars, sdVars, tpVars, fxVars>>
       \/ part = "threads" /\ TpNext /\ UNCHANGED <<vars, wgVars, slVars, sdVars, ncVars, fxVars>>
       \/ part = "redis" /\ FxNext /\ UNCHANGED <<vars, wgVars, slVars, sdVars, ncVars, tpVars>>

-----------------------------------------------------------------------------
(* Fairness: every coroutine, thread, timer and callback that can go on    *)
(* for good does.  The environment (peers, servers, callers) is not fair.  *)
(* As one component runs, the i-th conditions of all of them are one.      *)

Active ==
    CASE part = "hook" -> vars
      [] part = "group" -> wgVars
      [] part = "stream" -> slVars
      [] part = "discovery" -> sdVars
      [] part = "client" -> ncVars
      [] part = "threads" -> tpVars
      [] part = "redis" -> fxVars

\* Time goes on, runnable coroutines and queued callbacks run, epoll reports.
HookFair(i) ==
    CASE i = 1 -> Tick
      [] i = 2 -> Coroutine
      [] i = 3 -> Trigger
      [] i = 4 -> Expire
      [] i = 5 -> Callback

\* The scheduler runs callbacks and the coroutines that wait for a permit.
GroupFair(i) ==
    CASE i = 1 -> Worker
      [] i = 2 -> \E k \in Closers : Closer(k)
      [] i = 3 -> Submit(s1)
      [] i = 4 -> Submit(s2)
      [] i = 5 -> Submit(s3)
      [] OTHER -> FALSE

\* Timers fire and coroutines run; the peer accepts in the end (SlMaxFails).
StreamFair(i) ==
    CASE i \in SlStarts -> SlStartStep(i)
      [] i = 3 -> SlReaderStep
      [] i = 4 -> SlWriterStep
      [] i = 5 -> AppCloses
      [] OTHER -> FALSE

\* ZooKeeper delivers events and ends dead sessions; the watcher thread and
\* the timer run.
DiscoveryFair(i) ==
    CASE i = 1 -> ZkOldSessionEnds
      [] i = 2 -> SdEvent
      [] i = 3 -> SdTimer
      [] i = 4 -> SdThread("zk")
      [] i = 5 -> SdThread("timer")
      [] OTHER -> FALSE

\* Answers come while the connection is up, and the timer ticks.
ClientFair(i) ==
    CASE i = 1 -> NcStep("c1")
      [] i = 2 -> NcStep("c2")
      [] i = 3 -> NcTick("c1")
      [] i = 4 -> NcTick("c2")
      [] OTHER -> FALSE

\* Threads run; a wait that may time out need not.
ThreadsFair(i) ==
    CASE i = 1 -> TpDestroyWaits
      [] i = 2 -> TpWorker("w1")
      [] i = 3 -> TpWorker("w2")
      [] i = 4 -> TpWorker("w3")
      [] OTHER -> FALSE

\* The libevent thread, its timers and the calling coroutines run.
RedisFair(i) ==
    /\ ~fxDown
    /\ CASE i = 1 -> FxThreadStep
         [] i = 2 -> FxSend("a") \/ FxResume("a")
         [] i = 3 -> FxSend("b") \/ FxResume("b")
         [] i = 4 -> FxEventCb("a")
         [] i = 5 -> FxEventCb("b")
         [] OTHER -> FALSE

Fair(i) ==
    /\ UNCHANGED part
    /\ \/ part = "hook" /\ HookFair(i)
       \/ part = "group" /\ GroupFair(i)
       \/ part = "stream" /\ StreamFair(i)
       \/ part = "discovery" /\ DiscoveryFair(i)
       \/ part = "client" /\ ClientFair(i)
       \/ part = "threads" /\ ThreadsFair(i)
       \/ part = "redis" /\ RedisFair(i)

ProgressSpec ==
    /\ ProgressInit
    /\ [][ProgressNext]_<<part, vars, wgVars, slVars, sdVars, ncVars, tpVars, fxVars>>
    /\ \A i \in 1..5 : WF_Active(Fair(i))

\* SdSettles, where service discovery is what runs.
DiscoverySettles == part = "discovery" => SdSettles
=============================================================================
