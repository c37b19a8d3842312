----------------------------- MODULE IOManager -----------------------------
(***************************************************************************)
(* The fd events of IOManager (src/src/io/iomanager.cpp): registration in  *)
(* the FdContexts and in epoll, cancellation, the epoll loop of idle(),    *)
(* the counter m_pendingEventCount, and the close() hook of                *)
(* src/src/net/hook.cpp that cancels the events of an fd.                  *)
(*                                                                         *)
(* Coroutines follow the pattern of do_io(): try the call, and on EAGAIN   *)
(* register the event and yield until triggerEvent schedules them.  What   *)
(* runs under one hold of FdContext::mutex is one step; the result of      *)
(* epoll_wait is obtained before the mutex is taken and may be stale.      *)
(***************************************************************************)
EXTENDS Integers, FiniteSets

CONSTANTS
    Fds,           \* file descriptors
    Waiters,       \* coroutines that do I/O
    Pollers,       \* threads that execute idle()
    None,          \* an empty EventContext
    OneThread      \* one thread polls and runs all the coroutines

ASSUME IOManagerAssumption ==
    IsFiniteSet(Fds) /\ None \notin Waiters \cup Fds /\ OneThread \in BOOLEAN

EventKinds == {"READ", "WRITE"}
Slots == Fds \X EventKinds         \* one EventContext each
Conditions == EventKinds \cup {"HUP"}

VARIABLES
    events,    \* FdContext::events of all fds: the registered slots
    ctx,       \* FdContext::read / ::write: the coroutine to schedule
    pending,   \* m_pendingEventCount
    wstate,    \* a coroutine: running, about to register, waiting
    want,      \* the slot it registers, or waits for
    queued,    \* how often it has been handed to the scheduler
    inEpoll,   \* kernel: the fds that are in the epoll set
    interest,  \* kernel: the slots that epoll watches
    ready,     \* kernel: <<fd, condition>> that holds
    armed,     \* kernel: fds on epoll's ready list (edge-triggered)
    got,       \* the event a poller has fetched and not yet processed
    closing,   \* fds between cancelAll() and close_f()
    crashed,   \* an assertion has aborted the process
    late,      \* history: slots registered between cancelAll() and close_f()
    missed,    \* history: slots whose event idle() dropped, epoll_ctl having failed
    stranded   \* history: coroutines that wait for an event registered for another

kernelVars == <<inEpoll, interest, ready, armed>>
userVars == <<events, ctx, pending>>
coVars == <<wstate, want, queued>>
history == <<late, missed, stranded>>
vars == <<userVars, coVars, kernelVars, got, closing, crashed, history>>

NoEvent == [fd |-> None, conds |-> {}]
NoSlot == <<None, "READ">>

SlotsOf(fd) == {s \in events : s[1] = fd}
EventsOf(fd) == {e \in EventKinds : <<fd, e>> \in events}

\* Coroutines run: always, but on a single thread not while idle() is between
\* epoll_wait and the processing of what it returned.
Runs == ~crashed /\ (OneThread => \A p \in Pollers : got[p] = NoEvent)

Init ==
    /\ events = {}
    /\ ctx = [s \in Slots |-> None]
    /\ pending = 0
    /\ wstate = [w \in Waiters |-> "run"]
    /\ want = [w \in Waiters |-> NoSlot]
    /\ queued = [w \in Waiters |-> 0]
    /\ inEpoll = {}
    /\ interest = {}
    /\ ready = {}
    /\ armed = {}
    /\ got = [p \in Pollers |-> NoEvent]
    /\ closing = {}
    /\ crashed = FALSE
    /\ late = {} /\ missed = {} /\ stranded = {}

-----------------------------------------------------------------------------
(* The kernel, as the code uses it (external).                             *)

\* epoll_ctl(op, fd, es | EPOLLET): ADD fails for an fd that is in the set, MOD
\* and DEL for one that is not; ADD and MOD may also fail for want of memory or
\* of watches.  Both report a condition that already holds.
CtlWorks(op, fd) == (op = "ADD") # (fd \in inEpoll)
CtlFails(op, fd) == op # "DEL" \/ fd \notin inEpoll

Ctl(op, fd, es) ==
    LET slots == {<<fd, e>> : e \in es}
        rest == {s \in interest : s[1] # fd} IN
    /\ inEpoll' = IF op = "DEL" THEN inEpoll \ {fd} ELSE inEpoll \cup {fd}
    /\ interest' = rest \cup slots
    /\ armed' = IF op # "DEL" /\ \E c \in es \cup {"HUP"} : <<fd, c>> \in ready
                  THEN armed \cup {fd} ELSE armed \ {fd}
    /\ UNCHANGED ready

\* Data, buffer space or a hang-up arrives: an edge.
Arrive(fd, c) ==
    /\ ~crashed
    /\ <<fd, c>> \notin ready
    /\ ready' = ready \cup {<<fd, c>>}
    /\ armed' = IF fd \in inEpoll /\ (c = "HUP" \/ <<fd, c>> \in interest)
                  THEN armed \cup {fd} ELSE armed
    /\ UNCHANGED <<userVars, coVars, inEpoll, interest, got, closing, crashed, history>>

\* epoll_wait hands an fd from the ready list to one poller, with all
\* conditions that hold now and are watched.
EpollWait(p, fd) ==
    LET conds == {c \in Conditions : /\ <<fd, c>> \in ready
                                     /\ c = "HUP" \/ <<fd, c>> \in interest} IN
    /\ ~crashed
    /\ got[p] = NoEvent
    /\ fd \in armed
    /\ armed' = armed \ {fd}
    /\ got' = IF conds = {} THEN got
              ELSE [got EXCEPT ![p] = [fd |-> fd, conds |-> conds]]
    /\ UNCHANGED <<userVars, coVars, inEpoll, interest, ready, closing, crashed, history>>

-----------------------------------------------------------------------------
(* A coroutine in do_io().                                                 *)

\* fun(fd, ...) until EAGAIN: the condition is used up, the event comes next.
TryIO(w, s) ==
    /\ Runs
    /\ wstate[w] = "run"
    /\ ready' = ready \ {s}
    /\ wstate' = [wstate EXCEPT ![w] = "again"]
    /\ want' = [want EXCEPT ![w] = s]
    /\ UNCHANGED <<userVars, queued, inEpoll, interest, armed, got, closing,
                   crashed, history>>

\* epoll_ctl(ADD or MOD) for the event s of an fd, as its registered events say.
AddOp(s) == IF EventsOf(s[1]) = {} THEN "ADD" ELSE "MOD"

\* The part of addEvent after a successful epoll_ctl.
Register(w, s) ==
    /\ Ctl(AddOp(s), s[1], EventsOf(s[1]) \cup {s[2]})
    /\ pending' = pending + 1
    /\ events' = events \cup {s}
    /\ ctx' = [ctx EXCEPT ![s] = w]
    /\ late' = IF s[1] \in closing THEN late \cup {s} ELSE late

\* addEvent(fd, event), then YieldToHold.  An event that is already registered
\* is reported as a success without recording the caller; a failing epoll_ctl
\* makes do_io return -1.
AddEvent(w) ==
    LET s == want[w] IN
    /\ Runs
    /\ wstate[w] = "again"
    /\ \/ /\ s \in events
          /\ wstate' = [wstate EXCEPT ![w] = "wait"]
          /\ stranded' = stranded \cup {w}
          /\ UNCHANGED <<userVars, want, kernelVars, late>>
       \/ /\ s \notin events /\ CtlFails(AddOp(s), s[1])
          /\ wstate' = [wstate EXCEPT ![w] = "run"]
          /\ want' = [want EXCEPT ![w] = NoSlot]
          /\ UNCHANGED <<userVars, kernelVars, late, stranded>>
       \/ /\ s \notin events /\ CtlWorks(AddOp(s), s[1])
          /\ Register(w, s)
          /\ wstate' = [wstate EXCEPT ![w] = "wait"]
          /\ UNCHANGED <<want, stranded>>
    /\ UNCHANGED <<queued, got, closing, crashed, missed>>

\* The scheduler runs the coroutine again; do_io retries or returns.
Resume(w) ==
    /\ Runs
    /\ wstate[w] = "wait"
    /\ queued[w] > 0
    /\ queued' = [queued EXCEPT ![w] = @ - 1]
    /\ wstate' = [wstate EXCEPT ![w] = "run"]
    /\ want' = [want EXCEPT ![w] = NoSlot]
    /\ UNCHANGED <<userVars, kernelVars, got, closing, crashed, history>>

-----------------------------------------------------------------------------
(* triggerEvent and its callers.                                           *)

\* What the history keeps of slots that are not registered any more: nothing.
Forget(slots) == late' = late \ slots /\ missed' = missed \ slots /\ UNCHANGED stranded

\* triggerEvent for each of the slots: clear the bit, schedule the coroutine,
\* reset the context; the caller decrements the counter for each.
Trigger(slots) ==
    /\ events' = events \ slots
    /\ ctx' = [s \in Slots |-> IF s \in slots THEN None ELSE ctx[s]]
    /\ pending' = pending - Cardinality(slots)
    /\ queued' = [w \in Waiters |->
                    queued[w] + Cardinality({s \in slots : ctx[s] = w})]
    /\ Forget(slots)

\* Mistake for the mutation tests: the fd is always removed from epoll, even
\* if an event is left.
CtlLeftAlwaysDel(fd, left) == Ctl("DEL", fd, {})

\* epoll_ctl with the events that are left: MOD, or DEL if there are none.
LeftOp(left) == IF left = {} THEN "DEL" ELSE "MOD"
CtlLeft(fd, left) == Ctl(LeftOp(left), fd, left)

\* cancelEvent(fd, event): by a timeout of do_io, or by Socket::cancelRead...
\* When epoll_ctl fails it returns false and has changed nothing, like the two
\* operations that follow.
CancelEvent(s) ==
    /\ Runs
    /\ s \in events
    /\ s[1] \in inEpoll
    /\ CtlLeft(s[1], EventsOf(s[1]) \ {s[2]})
    /\ Trigger({s})
    /\ UNCHANGED <<wstate, want, got, closing, crashed>>

\* delEvent(fd, event): the event is dropped without scheduling anybody.  The
\* program never calls it for a coroutine that is suspended on the event; here
\* the coroutine it belongs to withdraws its wait.
DelEvent(s) ==
    /\ Runs
    /\ s \in events
    /\ s[1] \in inEpoll
    /\ CtlLeft(s[1], EventsOf(s[1]) \ {s[2]})
    /\ events' = events \ {s}
    /\ ctx' = [ctx EXCEPT ![s] = None]
    /\ pending' = pending - 1
    /\ Forget({s})
    /\ wstate' = [wstate EXCEPT ![ctx[s]] = "run"]
    /\ want' = [want EXCEPT ![ctx[s]] = NoSlot]
    /\ UNCHANGED <<queued, got, closing, crashed>>

\* cancelAll(fd), as Socket::cancelAll and the accept loop's stop() use it.
CancelAll(fd) ==
    /\ Runs
    /\ EventsOf(fd) # {}
    /\ fd \in inEpoll
    /\ Ctl("DEL", fd, {})
    /\ Trigger({<<fd, e>> : e \in EventsOf(fd)})
    /\ UNCHANGED <<wstate, want, got, closing, crashed>>

-----------------------------------------------------------------------------
(* idle(): the processing of one fetched event, under FdContext::mutex.    *)

\* EPOLLERR and EPOLLHUP stand for all registered events of the fd.
RealEvents(g) ==
    (g.conds \cap EventKinds) \cup (IF "HUP" \in g.conds THEN EventsOf(g.fd) ELSE {})

\* Skip if none of the events is registered or if epoll_ctl fails, which drops
\* the edge; otherwise trigger every event in real, also one that is not
\* registered (any more): there the assertion in triggerEvent aborts the process.
ProcessEvent(p) ==
    LET g == got[p]
        real == RealEvents(g)
        found == EventsOf(g.fd) \cap real
        op == LeftOp(EventsOf(g.fd) \ real) IN
    /\ ~crashed
    /\ g # NoEvent
    /\ got' = [got EXCEPT ![p] = NoEvent]
    /\ \/ /\ found = {}
          /\ UNCHANGED <<userVars, queued, kernelVars, crashed, history>>
       \/ /\ found # {} /\ CtlFails(op, g.fd)
          /\ missed' = missed \cup {<<g.fd, e>> : e \in found}
          /\ UNCHANGED <<userVars, queued, kernelVars, crashed, late, stranded>>
       \/ /\ found # {} /\ CtlWorks(op, g.fd)
          /\ CtlLeft(g.fd, EventsOf(g.fd) \ real)
          /\ IF real \subseteq EventsOf(g.fd)
               THEN /\ Trigger({<<g.fd, e>> : e \in real})
                    /\ UNCHANGED crashed
               ELSE /\ crashed' = TRUE
                    /\ UNCHANGED <<userVars, queued, history>>
    /\ UNCHANGED <<wstate, want, closing>>

-----------------------------------------------------------------------------
(* The close() hook: cancelAll, drop the FdCtx, then close_f.              *)

\* Mistake for the mutation tests: close() without cancelAll.
CloseBeginNoCancel(fd) ==
    /\ Runs
    /\ fd \notin closing
    /\ closing' = closing \cup {fd}
    /\ UNCHANGED <<userVars, coVars, kernelVars, got, crashed, history>>

CloseBegin(fd) ==
    /\ Runs
    /\ fd \notin closing
    /\ closing' = closing \cup {fd}
    /\ IF EventsOf(fd) # {} /\ fd \in inEpoll
         THEN Ctl("DEL", fd, {}) /\ Trigger({<<fd, e>> : e \in EventsOf(fd)})
         ELSE UNCHANGED <<userVars, queued, kernelVars, history>>
    /\ UNCHANGED <<wstate, want, got, crashed>>

\* The kernel drops the file from the epoll set; the number may be reused at
\* once by the next socket() or accept().
CloseEnd(fd) ==
    /\ Runs
    /\ fd \in closing
    /\ closing' = closing \ {fd}
    /\ inEpoll' = inEpoll \ {fd}
    /\ interest' = {s \in interest : s[1] # fd}
    /\ ready' = {s \in ready : s[1] # fd}
    /\ armed' = armed \ {fd}
    /\ UNCHANGED <<userVars, coVars, got, crashed, history>>

-----------------------------------------------------------------------------
Coroutine(w) ==
    \/ \E s \in Slots : TryIO(w, s)
    \/ AddEvent(w)
    \/ Resume(w)

Cancel ==
    \/ \E s \in Slots : CancelEvent(s) \/ DelEvent(s)
    \/ \E fd \in Fds : CancelAll(fd)

Close == \E fd \in Fds : CloseBegin(fd) \/ CloseEnd(fd)

Poll(p) == (\E fd \in Fds : EpollWait(p, fd)) \/ ProcessEvent(p)

Next ==
    \/ \E fd \in Fds, c \in Conditions : Arrive(fd, c)
    \/ \E w \in Waiters : Coroutine(w)
    \/ \E p \in Pollers : Poll(p)
    \/ Cancel
    \/ Close

Spec == Init /\ [][Next]_vars

\* Idle threads return to epoll_wait, and a file that is on the ready list is
\* eventually handed out.
Fairness ==
    /\ \A fd \in Fds : SF_vars(\E p \in Pollers : EpollWait(p, fd))
    /\ \A p \in Pollers : WF_vars(ProcessEvent(p))
    /\ \A w \in Waiters : WF_vars(AddEvent(w))
    /\ \A w \in Waiters : WF_vars(Resume(w))

LiveSpec == Spec /\ Fairness

-----------------------------------------------------------------------------
(* Properties.                                                             *)

\* The type of every variable.
TypeOK ==
    /\ events \subseteq Slots
    /\ ctx \in [Slots -> Waiters \cup {None}]
    /\ pending \in Nat
    /\ wstate \in [Waiters -> {"run", "again", "wait"}]
    /\ want \in [Waiters -> Slots \cup {NoSlot}]
    /\ queued \in [Waiters -> Nat]
    /\ inEpoll \subseteq Fds
    /\ interest \subseteq Slots
    /\ ready \subseteq Fds \X Conditions
    /\ armed \subseteq Fds
    /\ got \in [Pollers -> [fd : Fds, conds : SUBSET Conditions] \cup {NoEvent}]
    /\ closing \subseteq Fds
    /\ crashed \in BOOLEAN
    /\ late \subseteq Slots /\ missed \subseteq Slots /\ stranded \subseteq Waiters

\* Every wait is accounted for: a suspended coroutine is scheduled once, or it
\* is registered under its slot, in the FdContext and in epoll; none is scheduled
\* twice or while it does not wait (the scheduler's queue relies on it).
\* Excused are a second coroutine that waits for an event of the same fd, which
\* addEvent() does not record; and epoll has lost a registration that was made
\* while another thread was in close(), between cancelAll() and close_f().
WaitAccounted ==
    \A w \in Waiters :
        /\ queued[w] <= 1 /\ (queued[w] = 1 => wstate[w] = "wait")
        /\ wstate[w] = "wait" /\ queued[w] = 0 /\ ~crashed /\ w \notin stranded =>
               /\ want[w] \in events /\ ctx[want[w]] = w
               /\ want[w] \in interest \cup late

\* CIM_ASSERT(events & event) in triggerEvent never fails.
NoTriggerAbort == ~crashed

\* What close() leaves on the number, for the next socket to find, was registered
\* between its cancelAll() and its close_f(); everything that was registered
\* before is gone, whatever is fetched, cancelled or refused by epoll meanwhile.
CloseCleans ==
    [][\A fd \in Fds : fd \in closing /\ fd \notin closing' => SlotsOf(fd) \subseteq late]_vars

\* A coroutine whose condition holds, or whose fd has hung up, is eventually
\* resumed: no edge is lost between EAGAIN, registration, cancellation and other
\* threads.  Excused are the waits that WaitAccounted excuses, and an edge that
\* idle() drops because its epoll_ctl fails.
ReadyWakes ==
    \A w \in Waiters, s \in Slots :
        LET holds == s \in ready \/ <<s[1], "HUP">> \in ready
        IN  (wstate[w] = "wait" /\ want[w] = s /\ w \notin stranded /\ holds)
                ~> (wstate[w] # "wait" \/ ~holds \/ crashed \/ s \in late \cup missed)
=============================================================================
