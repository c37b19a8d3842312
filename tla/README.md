# TLA+ specifications of the CIM server core

CIM is the back end of an instant-messaging system in C++. Everything it does runs on its own
coroutine runtime: an N:M scheduler, an epoll reactor with timers, system calls that yield instead of
blocking, and request/response streams on top of them. Most of the concurrency of the server is in these
layers; on them stand the name server, service discovery, load balancing, connection pools, HTTP and
WebSocket sessions, caches and buffers, each with state that several coroutines, threads or containers
share. Paths below are relative to the repository
(`src/` here is the repository root, so the code is in `src/src` and `src/include`).

## 1. The system

| Part | State | Operations | Works with |
|---|---|---|---|
| Coroutine (`io/coroutine`) | stack, context, `m_state` | swapIn/swapOut, YieldToReady/Hold, MainFunc | run by Scheduler |
| Scheduler (`io/scheduler`) | `m_taskQueue`, active and idle counts, stop flags | schedule, run, switchTo, start, stop, idle | everything schedules into it |
| IOManager (`io/iomanager`) | `m_fdContexts`, epoll set, `m_pendingEventCount`, tickle pipe | addEvent, delEvent, cancelEvent, cancelAll, idle | is a Scheduler and a TimerManager; called by the hooks |
| TimerManager (`io/timer`) | ordered set of timers, `m_tickled`, last clock reading | addTimer, addConditionTimer, cancel, refresh, reset, listExpiredCb | its deadlines bound epoll_wait |
| Hooks (`net/hook`) and FdManager (`net/fd_manager`) | per-descriptor flags and timeouts, a `timer_info` per call | do_io, connect, sleep, close, fcntl, ioctl | addEvent and condition timers of IOManager |
| Semaphore, WorkerGroup (`io/lock`, `io/worker`) | permits, waiting coroutines, finish flag | wait, notify, schedule, waitAll | Scheduler |
| AsyncSocketStream, RockStream (`streams`, `rock`) | map of open requests, send queue, two semaphores, reconnect timer | request, doRead, doWrite, innerClose, start, close | hooks, timers, semaphores |
| Name server and its client (`ns`) | sessions, directory of domains, commands and nodes; the client's copy | register, query, onDisconnect, timer | RockStream |
| Service discovery, load balancing (`streams/service_discovery`, `load_balance`) | ZooKeeper nodes and watches, provider lists, streams, weights, a ring of statistics | getChildren, onServiceChange, get, request | ZooKeeper's thread, timers, RockStream |
| MySQL pool (`db/mysql`), HTTP pool (`http/http_connection`) | idle connections, counts, transactions | get, check, release, commit, rollback; doRequest | hooks |
| FoxRedis, FoxThread (`db`) | hiredis context, commands in flight, a libevent thread, a socket pair | cmd, callbacks, reconnect, dispatch, stop | Scheduler |
| HTTP sessions and parsers (`http`) | a read buffer, a parser, a body | recvRequest, recvResponse, handleClient | hooks |
| WebSocket sessions and gateway (`http/ws_*`, `api/ws_gateway_module`) | a message being put together, session table | handshake, WSRecvMessage, callbacks | hooks |
| Caches, Bitmap (`ds`), ByteArray (`net/byte_array`) | containers that point into one another; words and runs; a chain of blocks | set, get, expiry; bit operations, compress; read, write, seek | used by the servers |
| ThreadPool (`io/thread_pool`) | queue, worker threads, counters | submitTask, worker loop, destructor | pthreads |
| TcpServer, Config, Log, Application, API modules, ... | see `PROJECT.json` | | |

`PROJECT.json` lists every component, with the reason for each one that is not modelled.

What is hard here, and hard to test:

* **Interleavings of threads.** A coroutine is resumed by whichever thread dequeues it, timer callbacks
  run on any thread, and one descriptor may be added, cancelled, triggered and closed by four threads.
* **State read and used later.** epoll results, the size of the context table, descriptor numbers held by a
  timeout callback.
* **Timeouts racing completions**, in `do_io`, in `RockStream::request`, in `FoxRedis::cmd`, and the answer that comes after
  an HTTP request has timed out.
* **Results applied out of order**: two queries of the name-server client, two threads in `getChildren()`.
* **Reuse**: a descriptor number, a pooled connection, a ring slot, a worker's permit that is used again while something still
  refers to its last use.
* **Cuts**: a read that ends anywhere in a message, a number or a string that spans two blocks, a run that needs two words.
* **Wake-ups**: of a sleeping poller by a new earliest timer, of `doWrite` by `enqueue`, of a semaphore's
  waiters, of an edge-triggered descriptor.
* **Stopping**: who decides that nothing is left to do, and what is left when `stop()` returns.
* **Partial failure**: a failing `epoll_ctl`, a throwing callback, a failing reconnect, a statement that fails in a transaction.
* **Restart and expiry**: a process that comes back while ZooKeeper still has the node of its old session; Redis that goes away.

The `hazards` of `PROJECT.json` name the line of each, with the properties that cover it.

## 2. Modules

Granularity is the same everywhere: one action per critical section, or per access to a word that another
thread reads without a lock. Sections under one hold of a mutex are one step; whatever the code reads
before it takes the mutex is kept in a variable of the thread and may be stale. Logging, names and
payloads are left out. A name ending in the description of a mistake (`PostNeverRequeue`,
`CtlLeftAlwaysDel`, ...) is a mutated copy of the definition that follows it; the comment before it says
what is wrong with it. Specifications never use them.

The runtime:

| Module | Models | Variables and code |
|---|---|---|
| `Scheduler` | `scheduler.cpp`, the state machine of `coroutine.cpp`, the exit test of `IOManager::idle` | `queue` is `m_taskQueue`, `state` is `m_state`, `active` is `m_activeThreadCount`, `waiting` are the coroutines with an armed timer or event; `pc` is the place of a thread in `run()` |
| `IOManager` | events of descriptors: FdContext, epoll set, pending counter, the loop of `idle()`, the `close()` hook | `events`, `ctx` are the FdContexts, `interest`/`inEpoll` the kernel's set, which is external |
| `FdTable` | `m_fdContexts` and its read-write lock | a context is named by descriptor and generation, so that one that was cut off and allocated again is told apart |
| `TimerManager` | `timer.cpp`, the timeout of epoll_wait, the tickle pipe | `timers` is `m_timers`; a sleeping thread counts its timeout down, the wall clock may be set back |
| `HookIO` | `do_io` and `connect_with_timeout` | calls are numbered; a number stands for the call's `timer_info`, which callbacks hold weakly |
| `FdFlags` | `fd_manager.cpp`, the hooks `socket`, `accept`, `close`, `fcntl`, `ioctl`, and `Socket::setRecvTimeout` | `fcCtx` is `m_fdCtxs`, `fcKern` the kernel's table, which reuses numbers; sockets are numbered, so that a context of an earlier one is told apart |
| `WorkerGroup` | `worker.cpp` on `CoroutineSemaphore` | `concurrency`, `waiters`, `finish`; callbacks are counted |
| `ThreadPool` | `thread_pool.hpp` | `tpAt` is the place of a worker, `tpIdle` and `tpCur` the counters (unsigned, modulo `TpUint`) |

Streams and what uses them:

| Module | Models | Variables and code |
|---|---|---|
| `RockRequest` | `RockStream::request` and `sendMessage`, and the stream's `doRead`, `doWrite`, `innerClose`, `start`, `close` | `ctxs` is `m_ctxs`, `queue` is `m_queue`, `owner` is `Ctx::scheduler`, `sem` is `m_sem`; `ppc` is the place of a party that may complete a request |
| `StreamLife` | the connections of one AsyncSocketStream: `start()` with its callbacks and retries, the ends of reader and writer, the two reconnect timers, `close()` | `slSem` is `m_waitSem`, `slTimer` is `m_timer`, `slShort` the timers of 10 ms that nobody keeps |
| `NameServer` | `handleRegister`, `set()`, `diff()`, `NSDomain`, `NSNodeSet`, `onDisconnect`, the close after a refused request | `nsLink` says how far the end of a stream is, `nsSessions` is `m_sessions`; domains and node sets are heap objects held by pointer (`nsDir`, `nsDomObj`, `nsSetObj`) |
| `NSClient` | `ns_client.cpp` | `ncView` is `m_domains`, `ncQuery` is `m_queryDomains`; each query is a coroutine |
| `Discovery` | `service_discovery.cpp` with `SDLoadBalance::onServiceChange` | `sdDatas` is `m_datas`, `sdLb` and `sdStreams` the balancer; `zk...` is ZooKeeper, external |
| `LoadBalance` | `load_balance.cpp`: items, weights, the ring of statistics, `RockSDLoadBalance::request` | `lbDoing`, `lbTotal` are slots of the ring; the unsigned counters are modulo `LbUint` |
| `SqlPool` | the pool and the transactions of `mysql.cpp` | a connection is `[up, err, idle, tx]`; the server is external |
| `HttpPool` | `HttpConnectionPool` | a connection carries the answers still to come; `hpTotal` is `m_total` |
| `FoxRedis` | `FoxRedis` of `redis.cpp` over one `FoxThread` | `fxCtx` is the Ctx on the heap, `fxAt` the caller with its FCtx on the stack; hiredis and libevent are external |
| `HttpFraming` | `recvRequest()` in the loop of `handleClient()`, `recvResponse()`, the `.rl` grammars at the level of lines and fields | `hfKeepalive` is `m_isKeepalive`, `hfWire` is the stream of tokens, `hfParser` the parser, `hfBuf` the buffer between two calls |
| `WsSession` | `WSServer::handleClient`, `WSRecvMessage`, the gateway's callbacks | `wsWire` is the stream of heads, keys and payload bytes |

Containers:

| Module | Models | Variables and code |
|---|---|---|
| `ByteArray` | `byte_array.cpp`, and the transfers of `socket_stream.cpp` | blocks, current block, position and size; bytes have `BaByte` values |
| `FlatBuffer` | the abstract specification: a flat sequence of bytes with a position | `ByteArray` implements it (`BaIsFlat`) |
| `Caches` | `LruCache`, `TimedCache`, `TimedLruCache` | `ccMap`, `ccTimed`, `ccList` are the three containers; `ccKind` says which cache it is |
| `Bitmap` | `bitmap.cpp` | a word is `[c, v, b]`: the two high bits and the set of value bits |

`MCScheduler`, `MCIOManager`, `MCTimerManager`, `MCRockRequest` and `MCByteArray` declare the model
values, symmetry and values that TLC needs. The constants of `HookIO` and `FdFlags` can be written in a .cfg; two runs have them as their modules.
`MCStores` and `MCProgress` put several components side by side: the initial state chooses one,
which runs while the others stay as they are. The states of such an instance are the disjoint union of those of its
components, so it checks exactly what separate instances would; the components do not interact in it. `MCStores` uses the same model
values for the coroutines, and for the connections, of several of its components, so that one symmetry set (`StoresSymmetry`:
the two users, and the first two connections) serves them all; no component chooses among these values other than by `\E`.
The proofs are in modules of their own: `SchedulerProofs`, `IOManagerProofs`, `TimerManagerProofs`, `HookIOProofs`,
`RockRequestProofs` and `NameServerProofs` extend the module they are named after; `StoreProofs` holds those about `FdTable`, `FdFlags`,
`FoxRedis`, `SqlPool`, `HttpPool` and `Caches`, and `StreamProofs` those about `StreamLife`, `Discovery`, `LoadBalance` and `WsSession`.

How the modules rely on one another: `IOManager` and `HookIO` rely on the scheduler to run a coroutine once per
entry (`OverlapOnlyEarly`, without the window it names); `Scheduler` treats the arming of timers and events as an abstract set `waiting`. `HookIO` relies on
`OneShotOnce` of `TimerManager` and on `WaitAccounted` of `IOManager`, and takes flags from the FdCtx that
`FcExact` is about, and the timeouts of do_io, which at present nothing sets (`fd_timeout` in section 3): of the calls of the program only
`connect` has one, so what `HookIO` shows of a timed do_io is what the code of do_io promises. `RockRequest` relies on `CloseCleans` (a closed descriptor wakes its readers) and on the semaphore of
`WorkerGroup`; `StreamLife` on `StreamEnds` of `RockRequest`: the reader and the writer of a broken connection end.
`NameServer`, `NSClient` and `LoadBalance` rely on `ResumedOnce` and `RequestsReturn`. `HttpPool` treats a response as one message, which `HttpFraming`
justifies within its exceptions.

### Constants that choose an instance

No property is guarded by an assumption about timing or about the callers. What the code cannot ensure is an exception in the statement of
the property, kept track of by a variable that no action of the code reads: `early` (Scheduler), `late`, `missed`, `stranded` (IOManager),
`cut`, `raced` (FdTable), `nsMuddled` (NameServer), and the like. Three Boolean constants say what is being run:

* `OneThread` (IOManager, HookIO, RockRequest): the IOManager has one thread, which runs a coroutine from yield to
  yield. `accept` has two threads and the worker pools have eight in the shipped configuration. All runs but `hook_connect_fail` have many.
* `EpollCanFail` (HookIO), `MayThrow` (WorkerGroup): whether these failures occur. In `IOManager` every epoll_ctl may fail.

## 3. What TLC checks

Passing runs:

| Run | Instance | Properties |
|---|---|---|
| `sched_pool` | 2 workers, 2 tasks with one yield each, work pinned to one thread or to none | `OverlapOnlyEarly`: no stack is in use twice but after a resumption in the window of `sched_overlap`; `ActiveCount`; `TasksFinishBeforeStop`; `StopReturnsUnlessPinned` |
| `sched_caller` | the creating thread alone (use_caller), 2 yields | `CleanStop`: no suspended coroutine is left by stop() |
| `io_pool` | 1 descriptor in both directions, 2 coroutines, 2 pollers, close() at any time; each epoll_ctl may fail, each descriptor may hang up | `WaitAccounted`: a suspended coroutine is registered or scheduled once; `CloseCleans`: what close() leaves came during it; `ReadyWakes`: no edge and no hang-up is lost |
| `timer` | 2 threads, 2 timers, delays 1 and 3 with a cap of 2, the clock set back once by 2 with an "hour" of 1 | `NoOversleep`, `OneShotOnce` |
| `rock` | 1 request and 1 one-way message, one more start(), many threads | `ResumedOnce`, `NoLostMessage`, `HonestResult`, `RequestsReturn`, `StreamEnds` |
| `stores` | `MCStores`, see below | `InRange`, `CancelFinds`, `NsExact`, `LbWindow`, `MyClean`, `HpOwnAnswer`, `BaRoundTrip`, `CcAgree`, `WsDelivers`, `BmIsSet`, `HfFramed`, `FcExact`; the refinement `BaIsFlat` |
| `progress` | `MCProgress`, see below | `NoEarlyTimeout`, `CleanReturn`, `SlOrderly`, `SdConsistent`, `FxSafe`; under fairness `TimedCallsReturn`, `WaitAllReturns`, `SlRecovers`, `DiscoverySettles`, `NcSettles`, `TpDestroyed`, `FxReturns` |

What the two composed instances show:

| Component | Instance | Property |
|---|---|---|
| FdTable | 2 threads, descriptors 1, 2, 3, 5, initial size 2 | `InRange`, `CancelFinds`: no access beyond the table, a registered context is found unless two threads were growing the table |
| NameServer | 2 streams, 2 handlers, 3 registrations of 2 nodes, 2 requests, refused ones among them | `NsExact`: at rest the directory is what was registered on connections that onDisconnect() has not taken off |
| LoadBalance | 2 items, 2 calls, a ring of 2 seconds, a counter of 8 bits | `LbWindow`: a slot counts its second, and its requests in progress |
| SqlPool | 2 users, 3 connections, pool of 2 | `MyClean`: nobody gets a connection inside a transaction of somebody else, or one that is in use |
| HttpPool | 2 users, 3 connections, 3 requests | `HpOwnAnswer`: nobody reads the answer of an earlier request; the count is exact |
| ByteArray | blocks of 2 bytes of 4 values, 4 kinds of items, 2 operations and positions up to 5 | `BaIsFlat` (every step is a step of `FlatBuffer`), `BaRoundTrip` |
| Caches | 2 keys, 2 values, 2 delays, size 1 with elasticity 1 | `CcAgree`: the containers agree with one another and with what was put in |
| WsSession | 3 frames of lengths 0 to 2, a limit of 3 | `WsDelivers`: whole messages, once, in order |
| Bitmap | words of 3 value bits, 2 of them in the low byte, sizes 5 and 8, 4 operations | `BmIsSet`: compressed or not, it is the set that the operations should have made, and the queries see it |
| HttpFraming | 2 messages with body, without, or in 2 chunks; reads of any length, a server with and without keep-alive | `HfFramed`: the messages received are those sent, and the connection is closed only when it broke or, by a server, after a request |
| FdFlags | 2 threads with and one without hooks, 2 numbers, 3 sockets, 2 changes | `FcExact`: a socket in use has its own context, the flags its user set, a kernel that does not block |
| HookIO | 3 calls on one number, callbacks on other threads, failing epoll_ctl | `NoEarlyTimeout`: a call reports a timeout only when its own is over; `CleanReturn`: it leaves no timer and no event; `TimedCallsReturn` |
| WorkerGroup | 3 submitters, 1 closer, batch of 2, callbacks may throw | `WaitAllReturns`: waitAll() returns, and only when all callbacks have ended |
| StreamLife | 3 breaks, 3 failed connects, close() at any time | `SlOrderly`, `SlRecovers`: connected again after every break |
| Discovery | this process and one other provider, 1 change, 1 expired session | `SdConsistent`, `DiscoverySettles`: registered again, and the list is ZooKeeper's |
| NSClient | 2 domains, 2 overlapping queries, 1 change, 1 fault | `NcSettles`: the copy ends up as the directory |
| ThreadPool | 3 workers, both modes, queue of 2, 4 tasks | `TpDestroyed`: the destructor returns, every task run |
| FoxRedis | 2 commands, a socket pair of 1 byte, 2 connects, 1 stop | `FxSafe`: no FCtx is used after its call; `FxReturns` |

Runs in which the code does what a comment or an assertion of the repository excludes (the quotations are
under `findings`):

| Run | Property | What happens |
|---|---|---|
| `sched_overlap` | `NoOverlap` | HOLD is published before the context is saved; a second thread resumes the coroutine |
| `io_abort` | `NoTriggerAbort` | one of two reported events is cancelled by another thread before the result is processed |
| `hook_connect_fail` | `ConnectHonest` | addEvent fails and connect() returns 0 for a socket that is still connecting |
| `byte_seek` | `BaSeekSafe` | setPosition() to the end of the capacity dereferences a null pointer |
| `fd_timeout` | `FcTimeoutKnown` | a timeout set on a socket does not get into its FdCtx: the `setsockopt` of `hook.cpp` is not C-linked and has no caller |

Exceptions that a property names in its own statement, each a behaviour of the code:

* `OverlapOnlyEarly`: a coroutine whose state says HOLD or READY may be resumed before the thread it yielded on has left its stack and its
  post-processing in `run()`. Once that has happened (`early`), two threads may share a stack and a state may be overwritten, so `TasksFinishBeforeStop` and
  `StopReturnsUnlessPinned` leave such a task out too.
* `StopReturnsUnlessPinned`: an entry for a thread that has left `run()` stays in the queue and keeps
  `stopping()` false for the other workers; `stop()` then waits for ever.
* `TimedCallsReturn`: the condition timer is armed before `addEvent`; if its callback runs on another thread in between
  (`TimeoutLost`), the call waits without a timeout.
* `WaitAllReturns`: a callback that throws keeps its permit, and `waitAll()` never gets it.
* `WaitAccounted` and `ReadyWakes`: a second coroutine that waits for an event that is registered is told true and recorded nowhere
  (`stranded`). A registration made between `cancelAll()` and `close_f()` of a `close()` stays in the FdContext while epoll forgets it
  (`late`); `CloseCleans` says that nothing else stays. When epoll_ctl fails in `idle()`, the edge it was about is dropped (`missed`).
* `CancelFinds`: two threads that both saw the table too small grow it one after the other, and the second may make it smaller again; entries
  that this drops (`cut`) are not found.
* `HonestResult`: `doRecv` writes `ctx->result` before it knows whether the timeout has completed the request, so a request
  that timed out can return OK with a null response. `ns_client.cpp` tests the response.
* `NoOversleep`: after the clock was set back `refresh()` may make a timer the earliest, and announces nothing.
* `SlOrderly`: `close()` makes `isConnected()` false before `innerClose()` tests it, so the disconnect callback may not be called;
  reader and writer in `innerClose()` together call it twice; a stream that is closed between two connections may connect once more.
* `NsExact`: domains touched by two calls of `set()` for one node or one stream at a time, or by a register request on a
  stream whose `onDisconnect()` has begun. A stream on which a request was refused is closed with `close()` and never gets to `onDisconnect()`
  (`NsKept`): its nodes stay listed.
* `LbWindow`: a slot in which a request of `LbSize` seconds (5 in the code) or more has ended.
* `MyClean`: `commit()` of an auto-commit transaction in which a statement failed returns early, and nothing rolls back.
* `HpOwnAnswer`: a connection on which a send failed is not closed.
* `BaRoundTrip`: a string longer than its length prefix can say.
* `CcAgree`: a key that is set again in a `TimedCache` leaves its old item behind, which takes the new one with it. `TimedCache::del()` ends
  without a return value, which is undefined; nothing calls it, and it is left out.
* `WsDelivers`: a control frame with a masking key or a payload, which `WSRecvMessage()` does not skip.
* `BmIsSet`: words whose high bits `operator~`, a def byte or `resize()` has set, met by `compress()`; `resize()` from a word boundary, or
  within a word, or with ones; queries on bitmaps with bits behind their end (`BmPlain`); `any()` of a bitmap that ends
  at a word boundary, or is compressed and has a run of zeros (an empty one then answers true) or a word with high bits only (`BmAnySees`).
* `HfFramed`: a read that ends inside a line of a head, whose field is then lost. A request behind another on one session is never received,
  as the server closes the session after each one: `handleClient()` leaves its loop when `isClose()`, which is true of every request received, since
  nothing changes what the constructor of `HttpRequest` sets. `m_isKeepalive` and the connection field have no effect.
* `FcExact`: a number that was closed by a thread without hooks keeps its old context; `ioctl(FIONBIO)` is recorded as the
  system's flag.
* `SdConsistent`: hosts touched by two overlapping callbacks, and hosts whose stream could not be made.
* `NcSettles`: a client whose last domain was removed keeps that domain's nodes.
* `TpDestroyed`: a last worker that leaves by the idle path does not signal the destructor.
* `FxReturns`: `stop()` drops what is still queued; the ping of the liveness timer uses a context that hiredis has freed.

Two changes of a run that TLC answers with a violation, for what the properties above do not say:

| Run, change | Property that fails | What happens |
|---|---|---|
| `sched_pool`, `CleanStop` added | `CleanStop` | a worker past its idle coroutine takes a re-queued task, which then waits when nobody is left to poll |
| `hook_connect_fail`, `OneThread = FALSE`, `EpollCanFail = FALSE`, `MaxCalls = 3` | `ConnectHonest` | a late callback cancels the WRITE event of the next socket with the same number |

**Bounds.** Two threads are enough for each race above: all of them are between the owner of a
piece of state and one other party; a third thread only repeats a role. Two tasks (coroutines, timers, messages, connections)
let one be pending while another runs. `MaxYields` lets a task be re-queued or wait before it ends, and with 2 do both.
In `FdTable` the descriptors 1, 2, 3, 5 include the one where `fd * 1.5` rounds to fd itself (1, reachable only below the
initial size) and two growths. In `TimerManager` the delays lie below and above the cap; the state of a timer that has left
the set is dropped from the states TLC compares (`LiveState`), since nothing reads it again. `MaxCalls` lets a callback of
one call meet the next but one. `MaxConnects` lets a Ctx filed late meet the next connection. A ring of two seconds goes round within the
three seconds of `LbMaxTime`. A third connection is one more than the pools of two keep. With three value bits a run of
three words needs two words to say its length. Blocks of two bytes make every fixed-width number, string and transfer able to cross a boundary, and end at it. Three sockets on two
numbers make a number used again. The bounds `MaxNow`, `MaxJobs`, `MaxCalls`, `MaxConnects` and those whose comment says "bound" only end behaviours;
because of them, and because a closed system really rests, deadlock is not checked.

**Fairness.** Weak fairness of every thread's or coroutine's own next step: the operating system schedules runnable
threads, and the scheduler runnable coroutines. Strong fairness of the report of a ready descriptor or an expired timer:
each poller returns to epoll_wait at the latest after MAX_TIMEOUT, but the condition is not enabled continuously, since a
poller may be busy. In
`RockRequest` each party (a requester, its timeout, the reader, the writer, the caller of start()) has its own weak
fairness, and a read or write on a closed socket returns. In `MCProgress` the i-th condition of every component is one
weak fairness condition, as only one component runs: time, the coroutine, epoll, timers and callbacks (`HookFair`); callbacks that end and coroutines that wait for a permit (`GroupFair`); timers, the
starting, reading and writing coroutines (`StreamFair`); ZooKeeper's events, the end of dead sessions, the watcher thread and the 60 s timer
(`DiscoveryFair`); answers on an open connection and the timer (`ClientFair`); worker threads, and not
the timeouts of their waits (`ThreadsFair`); the libevent thread, its timers and the callers (`RedisFair`). Nothing is assumed of
peers, of an open socket, of callers of the API or of reconnection, except that the peer accepts a connection after `SlMaxFails` refusals.

## 4. What is proved

For every value of the constants that satisfies the named assumptions of the modules:

* `SchedulerProofs`: `TypeCorrect`, `CountCorrect`, and `OverlapOnlyEarlyCorrect` (with
  `StateAsserts`, the assertions of coroutine.cpp): what the unsaved context of `sched_overlap` breaks, it alone breaks. `OverlapOnlyEarly` is not inductive: that a coroutine is not
  resumed twice needs that nobody else can be about to resume it. The strengthening `OwnerInv` says that a
  coroutine that was never resumed early is pending in at most one of queue, `waiting` and a waking poller (`OnePending`), is held by at most one
  thread in a state that fits its place (`OneHolder`), is held and pending together only on its way to HOLD
  (`HeldPending`), and that all this concerns scheduled tasks only (`CreatedOK`). `ActiveCount` is a cardinality, proved
  with the library's facts on finite sets from the fact that each step moves at most one thread across the
  counted section. `CleanStopCorrect` is about the creating thread alone (`Threads = {Root}`), since with two threads the property fails
  (section 3): `NoneLost` says where a task that is not over is (queued, armed, in hand) and that one on its way to HOLD has its waker;
  `OverForGood` that the idle coroutine ends only when nothing is left and nothing can come.
* `IOManagerProofs`: `PendingExact`: `m_pendingEventCount` is the number of registered events. `CloseCleansHolds`, an action property:
  FdContexts and kernel agree but for what was registered during a `close()` (`KernelInv`), and nothing else is registered on a
  descriptor in `close()` (`CloseInv`). `WaitAccountedHolds`: `WaitInv` names for every waiter that `addEvent` recorded the one
  place that will wake it; the property alone is not inductive, as it does not say that the place is not shared. All three hold whatever epoll_ctl refuses.
* `TimerManagerProofs`: `OneShotOnceHolds` without assumption, from `ShotInv` (a timer in the set was never handed out).
  `NoOversleepHolds` under `SmallDelays`: intervals below half the range of the int that epoll_wait takes, which is where the code's cast starts to
  change them. `GuardInv` says that somebody is stirring, or some sleeper's timeout ends by the first deadline; `TickledInv` that
  `m_tickled` is set only while somebody stirs. That a first deadline exists is the well-foundedness of the natural numbers (`WFMin`).
* `RockRequestProofs`: `ResumedOnceHolds`, `NoLostMessageHolds` and `HonestResultHolds` from one invariant `RockInv`. A Ctx has an owner until
  one party takes it (`OwnerInv`), only its holder may still complete it (`HeldInv`), a result is set before the requester is scheduled
  (`ResultInv`, `ReturnInv`), and `m_queue` is non-empty only with a permit, a running writer or a pending notification (`QueueInv`).
* `StoreProofs`: `FcExactHolds`: a thread in `socket()`, `accept()` or `close()` owns the number it works on (`FcCallInv`), every other number
  in use has the context of its own socket (`FcFine`). `FxSafeHolds`: every reference to an FCtx that is left belongs to a call that has not returned
  (`FxHeldInv`). `MyCleanHolds`: a connection is in the pool once, or with one user (`MyUserInv`, `MyConnInv`). `HpOwnAnswerHolds`: a connection
  is in one place (`HpPlaces`) and owes at most the answer of the request that has it (`HpOwed`); that `m_total` is the number of connections is
  a cardinality again (`CardSplit`). What is in a list, and in it once (`SeqHas`, `SeqOnce`), is the common vocabulary of the pools.
  `CcAgreeHolds`: `m_timed` has exactly the content of the map (`CcTimedInv`), so what pruning and expiry take from one container they take from
  the others. That sorting a set, or erasing keys of a list, neither loses nor doubles anything is a fact about ranks in a finite order (`Ranks`),
  proved by counting; that pruning ends is that some number of erased items is enough (`PrunedIs`). `InRangeCorrect` (of `FdTable`), without
  assumption on the threads, although concurrent growth may shrink the table: it never gets smaller than two entries and nobody grows it for a
  descriptor below two (`SizeInv`), so the new size always exceeds the descriptor it is grown for (`NewSizeBeyond`). `CancelFindsCorrect`:
  until two threads grow the table at once the one that does still has to, and drops nothing (`GrowerInv`); a context in hand whose entry was not dropped is the one in the table (`HeldInv`).
* `StreamProofs`: `SlOrderlyHolds`: the right to start the stream is one token, with the application, a timer, `start()` or the reader (`SlTokenInv`), and the
  two permits of `m_waitSem` are conserved (`SlPermitInv`); so a connection is made only when the reader and the writer of the last one are
  gone, and what is told of it can be counted (`SlConnInv`, `SlToldInv`). `SdConsistentHolds`: the changes of overlapping callbacks are apart but
  for the muddled hosts (`SdApart`), and a host in a change is as the old list says until it is made (`SdHostInv`).
  `LbWindowHolds`: `init()` clears exactly the slots that come to stand for a later second, however long the ring was left alone (`ClearedAreNew`); nothing
  begins after the last update (`LbPastInv`), so a cleared slot is right to hold zero, and the decrement of a counter that is right does not wrap.
  `WsDelivery`: the property alone says nothing of what is still on the wire. `WsFlow` says that there is a list of stations along it, one at the start
  of each frame, with the messages that were complete there and the one that was not; it begins with what was handed out and ends with what was sent
  (`WsTrace`). A frame that is sent adds a station, one that is read drops the first (`WsTraceMoves`); so the argument needs no induction over the
  frames, the induction over steps does it.
* `NameServerProofs`: `NsDirectoryExact`, refused requests and streams cut by them included. `NsExact` is about states at rest
  and says nothing of the calls that lead there; `NsInv` says for every moment what a slot of a domain that is not muddled should list (`NsOwed`): from the difference on a call answers for all slots of its two registrations,
  with the old one where it has still to change the slot (`NsToDo`) and the new one elsewhere, and a stream without such a call answers with its session.
  `NsListing` is that the directory lists just that. Each step of `set()` leaves a slot and its duty alone (`NsSlotSame`) or fulfils it (`NsDone`), which needs
  that (1) in such a domain the call is alone and its session and stream are still what it took them for (`NsControl`: `NsPairs`, `NsTwins`, `NsBasis`,
  `NsLinks`), (2) its operations have each slot once, as the registrations say (`NsWork`, from `NsDiffIs`), and (3) the `NSDomain` and the `NSNodeSet` it points
  to are the ones in the directory, belong to this slot only, and a set that was found empty still is when it is taken out (`NsHeap`, `NsHeld`,
  `NsPlace`). At rest only sessions answer, and a stream whose `onDisconnect()` has
  begun has none outside of the muddled domains, which gives `NsExact`; the session of one that a refused request has cut answers for ever.
* `HookIOProofs`: `NoEarlyTimeoutCorrect` and `CleanReturnCorrect`, with callbacks on other threads and failing
  epoll_ctl. `HookInv` relates the remaining time of the timer to what the call has taken (`TimerInv`), and a fired callback of
  the present call to its timeout (`FiredInv`); callbacks of earlier calls cannot lock their `timer_info` any more.

The assumptions on constants are those of the modules: names are apart (the null connection `"none"` is no connection, `None` no task), bounds
are numbers, sets that are counted are finite. `Spec` in a theorem has no fairness, so each also holds of the specifications the runs use. The
specifications `FcSpec`, `FxSpec`, `MySpec`, `HpSpec`, `CcSpec`, `SlSpec`, `SdSpec`, `LbSpec`, `WsSpec` and `NsSpec` are the components that `MCStores` and `MCProgress` put side by side.

Only model-checked: every liveness property (the prover has no fairness or ENABLED); and `BaIsFlat`, `BaRoundTrip`, `BmIsSet` and `HfFramed`. These
four are about what a recursive reader, a fold over words or a loop of a parser computes for every input; that takes induction over data, whose
theorems have an operator as a parameter and cannot be instantiated here.

## 5. Limits

* One IOManager: a descriptor that a coroutine of another IOManager waits on is not modelled, nor is `close()`
  from a thread without one.
* Memory is sequentially consistent except where a step is split at an unlocked word.
* The stack and the context switch themselves are one step each.
* `RockRequest` leaves out incoming requests and notifies, the callbacks and `m_timer`; the callbacks and the timers are in `StreamLife`.
* Timeouts of descriptors are whole milliseconds, and the two of a socket are one in `FdFlags`.

### Not modelled

The map covers a small share of the lines of the repository, because most of them are not its own logic: the vendored roaring bitmap (21 000 lines), the
two parsers that Ragel generates (10 000; `HttpFraming` models their grammars' level of lines and fields), the generated protobuf classes
(4 000), and headers of declarations and documentation comments. Of the rest:

* conversions over text and bytes (URIs, JSON, hashes, time, cookies, SQL escaping, the printing of logs, the ORM generator): no state;
* wrappers of system or library calls (`socket.cpp`, `address.cpp`, SQLite, the synchronous Redis clients, `Thread`, `Semaphore`, zlib);
* start-up and configuration (`application.cpp`, `daemon.cpp`, `env.cpp`, `module.cpp`, `config.cpp`): sequential;
* the API modules, stubs that answer fixed JSON, and authentication, one SQL statement per request;
* `TcpServer`, an accept loop; `FoxRedisCluster`, a second copy of `FoxRedis`; the memory pool and several containers, which nothing in the server uses;
* log rotation against writers: `rotate()` and `writeLog()` use `m_fd` under different locks (listed under the hazards).

## 6. What is left

Every safety property that a run checks is either proved in section 4 or one of the four above. An induction over the blocks of a `ByteArray`, the words of a
`Bitmap` and the lines of a message would carry these three components from the instances of section 3 to all sizes. Of the code,
log rotation against writers is the one hazard of `PROJECT.json` without a model.
