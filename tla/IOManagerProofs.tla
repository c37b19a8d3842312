-------------------------- MODULE IOManagerProofs --------------------------
(***************************************************************************)
(* Proofs about the fd events of IOManager, for every set of descriptors,  *)
(* coroutines and polling threads, and whatever epoll_ctl refuses, another *)
(* thread closes meanwhile, or a second coroutine registers.               *)
(***************************************************************************)
EXTENDS IOManager, FiniteSetTheorems, TLAPS

\* TypeOK, but for the counter of pending events; a coroutine that registers or
\* waits does so for a slot.
IoTypeOK ==
    /\ events \subseteq Slots
    /\ ctx \in [Slots -> Waiters \cup {None}]
    /\ pending \in Int
    /\ wstate \in [Waiters -> {"run", "again", "wait"}]
    /\ want \in [Waiters -> Slots \cup {NoSlot}]
    /\ queued \in [Waiters -> Nat]
    /\ inEpoll \subseteq Fds
    /\ interest \subseteq Slots
    /\ ready \subseteq Fds \X Conditions
    /\ armed \subseteq Fds
    /\ got \in [Pollers -> [fd : Fds, conds : SUBSET Conditions] \cup {NoEvent}]
    /\ closing \subseteq Fds
    /\ crashed \in BOOLEAN
    /\ late \subseteq Slots /\ missed \subseteq Slots /\ stranded \subseteq Waiters
    /\ \A w \in Waiters : wstate[w] = "run" <=> want[w] = NoSlot

\* m_pendingEventCount counts the registered events.
PendingInv == pending = Cardinality(events)

\* For a descriptor that is in the epoll set, epoll watches exactly its registered
\* events, of which there is one; for any other it watches nothing, and what is
\* registered was registered while close() was under way.
KernelInv ==
    ~crashed =>
        \A fd \in Fds :
            /\ fd \in inEpoll =>
                  /\ EventsOf(fd) # {}
                  /\ \A e \in EventKinds : <<fd, e>> \in interest <=> <<fd, e>> \in events
            /\ fd \notin inEpoll =>
                  \A e \in EventKinds : /\ <<fd, e>> \notin interest
                                        /\ <<fd, e>> \in events => <<fd, e>> \in late

\* What is registered for a descriptor that is being closed was registered since
\* cancelAll().
CloseInv ==
    \A fd \in closing, e \in EventKinds : <<fd, e>> \in events => <<fd, e>> \in late

\* An EventContext is filled exactly when its event is registered; it has a
\* coroutine that waits for it and was not scheduled yet, and every such coroutine
\* is in the EventContext that it waits for, unless addEvent() found it taken.
WaitInv ==
    /\ \A s \in Slots : s \in events <=> ctx[s] # None
    /\ \A s \in Slots, w \in Waiters :
          ctx[s] = w => wstate[w] = "wait" /\ want[w] = s /\ queued[w] = 0
    /\ \A w \in Waiters :
          wstate[w] = "wait" /\ queued[w] = 0 /\ w \notin stranded => ctx[want[w]] = w
    /\ \A w \in Waiters : queued[w] <= 1 /\ (queued[w] = 1 => wstate[w] = "wait")

-----------------------------------------------------------------------------
\* The initial values have their types.
LEMMA IoTypeInit == Init => IoTypeOK
<1> SUFFICES ASSUME Init PROVE IoTypeOK
  OBVIOUS
<1>1. /\ events \subseteq Slots /\ interest \subseteq Slots /\ inEpoll \subseteq Fds
      /\ ready \subseteq Fds \X Conditions /\ armed \subseteq Fds /\ closing \subseteq Fds
      /\ pending \in Int
      /\ late \subseteq Slots /\ missed \subseteq Slots /\ stranded \subseteq Waiters
  BY DEF Init
<1>3. crashed \in BOOLEAN
  BY Zenon DEF Init
<1>2. got \in [Pollers -> [fd : Fds, conds : SUBSET Conditions] \cup {NoEvent}]
  BY DEF Init
<1> QED
  BY <1>1, <1>2, <1>3 DEF Init, IoTypeOK

\* What a step fetches, triggers or registers are slots.
LEMMA SlotFacts ==
  ASSUME IoTypeOK, NEW fd \in Fds
  PROVE  /\ EventsOf(fd) \subseteq EventKinds
         /\ \A es \in SUBSET EventKinds : {<<fd, e>> : e \in es} \subseteq Slots
         /\ {<<fd, e>> : e \in EventsOf(fd)} \subseteq events
         /\ NoSlot \notin Slots
<1>1. EventsOf(fd) \subseteq EventKinds
  BY DEF EventsOf
<1>2. \A es \in SUBSET EventKinds : {<<fd, e>> : e \in es} \subseteq Slots
  BY DEF Slots
<1>3. {<<fd, e>> : e \in EventsOf(fd)} \subseteq events
  BY DEF EventsOf
<1>4. NoSlot \notin Slots
  BY IOManagerAssumption DEF NoSlot, Slots
<1> QED
  BY <1>1, <1>2, <1>3, <1>4

\* The events that idle() derives from what it fetched.
LEMMA RealFacts ==
  ASSUME IoTypeOK, NEW p \in Pollers, got[p] # NoEvent
  PROVE  got[p].fd \in Fds /\ RealEvents(got[p]) \subseteq EventKinds
<1>1. got[p] \in [fd : Fds, conds : SUBSET Conditions]
  BY DEF IoTypeOK
<1> QED
  BY <1>1 DEF RealEvents, EventsOf

\* epoll_ctl keeps the kernel's types.
LEMMA CtlTypes ==
  ASSUME IoTypeOK, NEW op, NEW fd \in Fds, NEW es \in SUBSET EventKinds,
         Ctl(op, fd, es)
  PROVE  /\ inEpoll' \subseteq Fds /\ interest' \subseteq Slots
         /\ armed' \subseteq Fds /\ ready' = ready
<1>1. interest' \subseteq Slots
  <2>1. {<<fd, e>> : e \in es} \subseteq Slots
    BY SlotFacts
  <2> QED
    BY <2>1 DEF Ctl, IoTypeOK
<1> QED
  BY <1>1 DEF Ctl, IoTypeOK

\* Trigger keeps the types.
LEMMA TriggerTypes ==
  ASSUME IoTypeOK, NEW slots \in SUBSET Slots, Trigger(slots)
  PROVE  /\ events' \subseteq Slots
         /\ ctx' \in [Slots -> Waiters \cup {None}]
         /\ pending' \in Int
         /\ queued' \in [Waiters -> Nat]
         /\ late' \subseteq Slots /\ missed' \subseteq Slots /\ stranded' = stranded
<1>1. IsFiniteSet(Slots)
  <2>1. IsFiniteSet(EventKinds)
    <3>1. EventKinds = {"READ"} \cup {"WRITE"}
      BY DEF EventKinds
    <3> QED
      BY <3>1, FS_Singleton, FS_Union
  <2> QED
    BY <2>1, FS_Product, IOManagerAssumption DEF Slots
<1>2. \A T \in SUBSET Slots : Cardinality(T) \in Nat
  BY <1>1, FS_Subset, FS_CardinalityType
<1>3. Cardinality(slots) \in Nat
  BY <1>2
<1>4. ASSUME NEW w \in Waiters PROVE Cardinality({s \in slots : ctx[s] = w}) \in Nat
  <2>1. {s \in slots : ctx[s] = w} \in SUBSET Slots
    OBVIOUS
  <2> QED
    BY <2>1, <1>2
<1>5. queued' \in [Waiters -> Nat]
  BY <1>4 DEF Trigger, IoTypeOK
<1> QED
  BY <1>3, <1>5 DEF Trigger, Forget, IoTypeOK

\* idle() skips a fetched event, drops it, triggers it or aborts.
LEMMA ProcessCases ==
  ASSUME NEW p, ProcessEvent(p)
  PROVE  LET g == got[p]
             real == RealEvents(g)
         IN  \/ UNCHANGED <<userVars, queued, kernelVars, crashed, history>>
             \/ /\ missed' = missed \cup {<<g.fd, e>> : e \in EventsOf(g.fd) \cap real}
                /\ UNCHANGED <<userVars, queued, kernelVars, crashed, late, stranded>>
             \/ /\ CtlLeft(g.fd, EventsOf(g.fd) \ real) /\ real \subseteq EventsOf(g.fd)
                /\ Trigger({<<g.fd, e>> : e \in real}) /\ UNCHANGED crashed
             \/ /\ CtlLeft(g.fd, EventsOf(g.fd) \ real) /\ crashed' = TRUE
                /\ UNCHANGED <<userVars, queued, history>>
  BY DEF ProcessEvent

\* Every step keeps the types.
LEMMA IoTypeStep == IoTypeOK /\ [Next]_vars => IoTypeOK'
<1> SUFFICES ASSUME IoTypeOK, [Next]_vars PROVE IoTypeOK'
  OBVIOUS
<1> USE DEF IoTypeOK, userVars, coVars, kernelVars, history
<1>1. ASSUME NEW fd \in Fds, NEW c \in Conditions, Arrive(fd, c) PROVE IoTypeOK'
  BY <1>1 DEF Arrive
<1>2. ASSUME NEW w \in Waiters, NEW s \in Slots, TryIO(w, s) PROVE IoTypeOK'
  BY <1>2, SlotFacts DEF TryIO, Slots
<1>3. ASSUME NEW w \in Waiters, AddEvent(w) PROVE IoTypeOK'
  <2>1. want[w] \in Slots /\ want[w][1] \in Fds
        /\ EventsOf(want[w][1]) \cup {want[w][2]} \in SUBSET EventKinds
    BY <1>3 DEF AddEvent, Slots, EventsOf
  <2>2. CASE Register(w, want[w]) /\ wstate' = [wstate EXCEPT ![w] = "wait"]
             /\ UNCHANGED <<want, stranded>>
    <3>1. /\ inEpoll' \subseteq Fds /\ interest' \subseteq Slots
          /\ armed' \subseteq Fds /\ ready' = ready
      BY <2>1, <2>2, CtlTypes DEF Register
    <3>2. /\ events' \subseteq Slots /\ ctx' \in [Slots -> Waiters \cup {None}]
          /\ pending' \in Int /\ late' \subseteq Slots
      BY <2>1, <2>2 DEF Register
    <3>3. UNCHANGED <<queued, got, closing, crashed, missed>>
      BY <1>3 DEF AddEvent
    <3> QED
      BY <2>1, <2>2, <3>1, <3>2, <3>3, SlotFacts
  <2>3. CASE UNCHANGED <<userVars, kernelVars, late>>
    BY <1>3, <2>1, <2>3, SlotFacts DEF AddEvent
  <2> QED
    BY <1>3, <2>2, <2>3 DEF AddEvent
<1>4. ASSUME NEW w \in Waiters, Resume(w) PROVE IoTypeOK'
  BY <1>4 DEF Resume
<1>5. ASSUME NEW p \in Pollers, NEW fd \in Fds, EpollWait(p, fd) PROVE IoTypeOK'
  <2> DEFINE conds == {c \in Conditions : /\ <<fd, c>> \in ready
                                          /\ c = "HUP" \/ <<fd, c>> \in interest}
  <2>1. [fd |-> fd, conds |-> conds] \in [fd : Fds, conds : SUBSET Conditions]
    OBVIOUS
  <2>2. got' \in [Pollers -> [fd : Fds, conds : SUBSET Conditions] \cup {NoEvent}]
    BY <1>5, <2>1 DEF EpollWait
  <2> QED
    BY <1>5, <2>2 DEF EpollWait
<1>6. ASSUME NEW p \in Pollers, ProcessEvent(p) PROVE IoTypeOK'
  <2> DEFINE g == got[p]
             real == RealEvents(g)
  <2>1. g.fd \in Fds /\ real \subseteq EventKinds /\ EventsOf(g.fd) \subseteq EventKinds
    BY <1>6, RealFacts, SlotFacts DEF ProcessEvent
  <2>2. /\ got' = [got EXCEPT ![p] = NoEvent]
        /\ UNCHANGED <<wstate, want, closing>>
    BY <1>6 DEF ProcessEvent
  <2>3. CASE UNCHANGED <<userVars, queued, kernelVars, crashed, history>>
    BY <2>2, <2>3
  <2>4. CASE /\ missed' = missed \cup {<<g.fd, e>> : e \in EventsOf(g.fd) \cap real}
             /\ UNCHANGED <<userVars, queued, kernelVars, crashed, late, stranded>>
    <3>1. {<<g.fd, e>> : e \in EventsOf(g.fd) \cap real} \subseteq Slots
      BY <2>1 DEF Slots
    <3> QED
      BY <2>2, <2>4, <3>1
  <2>5. CASE CtlLeft(g.fd, EventsOf(g.fd) \ real) /\ real \subseteq EventsOf(g.fd)
             /\ Trigger({<<g.fd, e>> : e \in real}) /\ UNCHANGED crashed
    <3>1. /\ inEpoll' \subseteq Fds /\ interest' \subseteq Slots
          /\ armed' \subseteq Fds /\ ready' = ready
      BY <2>1, <2>5, CtlTypes DEF CtlLeft
    <3>2. {<<g.fd, e>> : e \in real} \in SUBSET Slots
      BY <2>1, SlotFacts
    <3>3. /\ events' \subseteq Slots
          /\ ctx' \in [Slots -> Waiters \cup {None}]
          /\ pending' \in Int
          /\ queued' \in [Waiters -> Nat]
          /\ late' \subseteq Slots /\ missed' \subseteq Slots /\ stranded' = stranded
      BY <2>5, <3>2, TriggerTypes
    <3> QED
      BY <2>2, <2>5, <3>1, <3>3
  <2>6. CASE CtlLeft(g.fd, EventsOf(g.fd) \ real) /\ crashed' = TRUE
             /\ UNCHANGED <<userVars, queued, history>>
    <3>1. /\ inEpoll' \subseteq Fds /\ interest' \subseteq Slots
          /\ armed' \subseteq Fds /\ ready' = ready
      BY <2>1, <2>6, CtlTypes DEF CtlLeft
    <3> QED
      BY <2>2, <2>6, <3>1
  <2> QED
    BY <1>6, <2>3, <2>4, <2>5, <2>6, ProcessCases DEF userVars
<1>7. ASSUME NEW s \in Slots, CancelEvent(s) PROVE IoTypeOK'
  <2>1. s[1] \in Fds /\ EventsOf(s[1]) \ {s[2]} \in SUBSET EventKinds /\ {s} \in SUBSET Slots
    BY DEF Slots, EventsOf
  <2>2. CtlLeft(s[1], EventsOf(s[1]) \ {s[2]}) /\ Trigger({s})
    BY <1>7 DEF CancelEvent
  <2>3. /\ inEpoll' \subseteq Fds /\ interest' \subseteq Slots
        /\ armed' \subseteq Fds /\ ready' = ready
    BY <2>1, <2>2, CtlTypes DEF CtlLeft
  <2> QED
    BY <1>7, <2>1, <2>2, <2>3, TriggerTypes DEF CancelEvent
<1>8. ASSUME NEW s \in Slots, DelEvent(s) PROVE IoTypeOK'
  <2>1. s[1] \in Fds /\ EventsOf(s[1]) \ {s[2]} \in SUBSET EventKinds
    BY DEF Slots, EventsOf
  <2>2. CtlLeft(s[1], EventsOf(s[1]) \ {s[2]})
    BY <1>8 DEF DelEvent
  <2>3. /\ inEpoll' \subseteq Fds /\ interest' \subseteq Slots
        /\ armed' \subseteq Fds /\ ready' = ready
    BY <2>1, <2>2, CtlTypes DEF CtlLeft
  <2>4. /\ events' = events \ {s} /\ ctx' = [ctx EXCEPT ![s] = None] /\ pending' = pending - 1
        /\ wstate' = [wstate EXCEPT ![ctx[s]] = "run"]
        /\ want' = [want EXCEPT ![ctx[s]] = NoSlot]
        /\ late' \subseteq Slots /\ missed' \subseteq Slots
        /\ UNCHANGED <<queued, got, closing, crashed, stranded>>
    BY <1>8 DEF DelEvent, Forget
  <2>5. /\ wstate' \in [Waiters -> {"run", "again", "wait"}]
        /\ want' \in [Waiters -> Slots \cup {NoSlot}]
        /\ \A w \in Waiters : wstate'[w] = "run" <=> want'[w] = NoSlot
    BY <2>4
  <2> QED
    BY <2>3, <2>4, <2>5
<1>9. ASSUME NEW fd \in Fds, CancelAll(fd) PROVE IoTypeOK'
  <2>1. {<<fd, e>> : e \in EventsOf(fd)} \in SUBSET Slots
    BY SlotFacts
  <2>2. Ctl("DEL", fd, {}) /\ Trigger({<<fd, e>> : e \in EventsOf(fd)})
    BY <1>9 DEF CancelAll
  <2>3. /\ inEpoll' \subseteq Fds /\ interest' \subseteq Slots
        /\ armed' \subseteq Fds /\ ready' = ready
    BY <2>2, CtlTypes
  <2> QED
    BY <1>9, <2>1, <2>2, <2>3, TriggerTypes DEF CancelAll
<1>10. ASSUME NEW fd \in Fds, CloseBegin(fd) PROVE IoTypeOK'
  <2>1. {<<fd, e>> : e \in EventsOf(fd)} \in SUBSET Slots
    BY SlotFacts
  <2>2. CASE EventsOf(fd) # {} /\ fd \in inEpoll
    <3>1. Ctl("DEL", fd, {}) /\ Trigger({<<fd, e>> : e \in EventsOf(fd)})
      BY <1>10, <2>2 DEF CloseBegin
    <3>2. /\ inEpoll' \subseteq Fds /\ interest' \subseteq Slots
          /\ armed' \subseteq Fds /\ ready' = ready
      BY <3>1, CtlTypes
    <3> QED
      BY <1>10, <2>1, <3>1, <3>2, TriggerTypes DEF CloseBegin
  <2>3. CASE ~(EventsOf(fd) # {} /\ fd \in inEpoll)
    BY <1>10, <2>3 DEF CloseBegin
  <2> QED
    BY <2>2, <2>3
<1>11. ASSUME NEW fd \in Fds, CloseEnd(fd) PROVE IoTypeOK'
  BY <1>11 DEF CloseEnd
<1>12. CASE UNCHANGED vars
  BY <1>12 DEF vars
<1> QED
  BY <1>1, <1>2, <1>3, <1>4, <1>5, <1>6, <1>7, <1>8, <1>9, <1>10, <1>11, <1>12 DEF
     Next, Coroutine, Poll, Cancel, Close

-----------------------------------------------------------------------------
\* epoll_ctl and the FdContext change together: if epoll is told the events that
\* are then registered for the descriptor, and DEL if there are none, the kernel
\* still agrees with the FdContexts.
LEMMA CtlAgrees ==
  ASSUME IoTypeOK, KernelInv, ~crashed,
         NEW fd \in Fds, NEW es \in SUBSET EventKinds, NEW op,
         Ctl(op, fd, es), op = "DEL" <=> es = {},
         \A e \in EventKinds : <<fd, e>> \in events' <=> e \in es,
         \A f \in Fds, e \in EventKinds :
            f # fd => /\ <<f, e>> \in events' <=> <<f, e>> \in events
                      /\ <<f, e>> \in late' <=> <<f, e>> \in late
  PROVE  KernelInv'
<1> SUFFICES ASSUME NEW f \in Fds
             PROVE  /\ f \in inEpoll' =>
                          /\ EventsOf(f)' # {}
                          /\ \A e \in EventKinds : <<f, e>> \in interest' <=> <<f, e>> \in events'
                    /\ f \notin inEpoll' =>
                          \A e \in EventKinds : /\ <<f, e>> \notin interest'
                                                /\ <<f, e>> \in events' => <<f, e>> \in late'
  BY DEF KernelInv
<1>1. CASE f = fd
  <2>1. \A e \in EventKinds : <<f, e>> \in interest' <=> e \in es
    BY <1>1 DEF Ctl
  <2>2. f \in inEpoll' <=> es # {}
    BY <1>1 DEF Ctl
  <2>3. EventsOf(f)' = es
    BY <1>1 DEF EventsOf
  <2> QED
    BY <1>1, <2>1, <2>2, <2>3
<1>2. CASE f # fd
  <2>1. \A e \in EventKinds : <<f, e>> \in interest' <=> <<f, e>> \in interest
    BY <1>2 DEF Ctl
  <2>2. f \in inEpoll' <=> f \in inEpoll
    BY <1>2 DEF Ctl
  <2>3. EventsOf(f)' = EventsOf(f)
    BY <1>2 DEF EventsOf
  <2> QED
    BY <1>2, <2>1, <2>2, <2>3 DEF KernelInv
<1> QED
  BY <1>1, <1>2

\* Slots of one descriptor that are taken away leave the others as they were.
LEMMA TakenAway ==
  ASSUME IoTypeOK, NEW fd \in Fds, NEW es \in SUBSET EventKinds, NEW slots,
         slots = {<<fd, e>> : e \in es}
  PROVE  /\ \A e \in EventKinds :
               <<fd, e>> \in events \ slots <=> e \in EventsOf(fd) \ es
         /\ \A f \in Fds, e \in EventKinds :
               f # fd => /\ <<f, e>> \in events \ slots <=> <<f, e>> \in events
                         /\ <<f, e>> \in late \ slots <=> <<f, e>> \in late
<1>1. \A f \in Fds, e \in EventKinds : <<f, e>> \in slots <=> f = fd /\ e \in es
  OBVIOUS
<1> QED
  BY <1>1 DEF EventsOf

\* An event that is taken away in the FdContext and in epoll at once keeps both
\* invariants.
LEMMA TakeAgrees ==
  ASSUME IoTypeOK, KernelInv, CloseInv, ~crashed,
         NEW fd \in Fds, NEW es \in SUBSET EventKinds, NEW slots, NEW op,
         slots = {<<fd, e>> : e \in es},
         Ctl(op, fd, EventsOf(fd) \ es), op = "DEL" <=> EventsOf(fd) \ es = {},
         events' = events \ slots, late' = late \ slots
  PROVE  /\ KernelInv'
         /\ \A f \in closing \cup {fd}, e \in EventKinds :
               (f \in closing \/ EventsOf(fd) \subseteq es)
                  => (<<f, e>> \in events' => <<f, e>> \in late')
<1>1. EventsOf(fd) \ es \in SUBSET EventKinds
  BY DEF EventsOf
<1>2. KernelInv'
  BY <1>1, TakenAway, CtlAgrees
<1>3. \A f \in Fds, e \in EventKinds :
         <<f, e>> \in events' => <<f, e>> \in events /\ (<<f, e>> \in late => <<f, e>> \in late')
  OBVIOUS
<1>4. EventsOf(fd) \subseteq es => \A e \in EventKinds : <<fd, e>> \notin events'
  BY TakenAway
<1> QED
  BY <1>2, <1>3, <1>4 DEF CloseInv, IoTypeOK

\* Every step keeps epoll in agreement with the FdContexts, and accounts for what is
\* registered while a descriptor is being closed.
LEMMA KernelStep ==
  IoTypeOK /\ KernelInv /\ CloseInv /\ [Next]_vars => KernelInv' /\ CloseInv'
<1> SUFFICES ASSUME IoTypeOK, KernelInv, CloseInv, [Next]_vars PROVE KernelInv' /\ CloseInv'
  OBVIOUS
<1> USE DEF userVars, coVars, kernelVars, history
<1>1. ASSUME NEW fd \in Fds, NEW c \in Conditions, Arrive(fd, c) PROVE KernelInv' /\ CloseInv'
  BY <1>1 DEF Arrive, KernelInv, CloseInv, EventsOf
<1>2. ASSUME NEW w \in Waiters, NEW s \in Slots, TryIO(w, s) PROVE KernelInv' /\ CloseInv'
  BY <1>2 DEF TryIO, KernelInv, CloseInv, EventsOf
<1>3. ASSUME NEW w \in Waiters, AddEvent(w) PROVE KernelInv' /\ CloseInv'
  <2> DEFINE s == want[w]
             fd == s[1]
             es == EventsOf(fd) \cup {s[2]}
  <2>1. s \in Slots /\ fd \in Fds /\ s[2] \in EventKinds /\ s = <<fd, s[2]>>
    BY <1>3 DEF AddEvent, IoTypeOK, Slots
  <2>2. closing' = closing /\ crashed' = crashed /\ ~crashed
    BY <1>3 DEF AddEvent, Runs
  <2>3. CASE Register(w, s)
    <3>1. es \in SUBSET EventKinds /\ es # {} /\ AddOp(s) # "DEL"
      BY <2>1 DEF EventsOf, AddOp
    <3>2. /\ Ctl(AddOp(s), fd, es) /\ events' = events \cup {s}
          /\ late' = IF fd \in closing THEN late \cup {s} ELSE late
      BY <2>3 DEF Register
    <3>3. \A e \in EventKinds : <<fd, e>> \in events' <=> e \in es
      BY <2>1, <3>2 DEF EventsOf
    <3>4. \A f \in Fds, e \in EventKinds :
             f # fd => /\ <<f, e>> \in events' <=> <<f, e>> \in events
                       /\ <<f, e>> \in late' <=> <<f, e>> \in late
      BY <2>1, <3>2
    <3>5. KernelInv'
      <4> HIDE DEF s, fd, es
      <4> QED
        BY <2>1, <2>2, <3>1, <3>2, <3>3, <3>4, CtlAgrees
    <3>6. CloseInv'
      BY <2>1, <2>2, <3>2 DEF CloseInv, IoTypeOK
    <3> QED
      BY <3>5, <3>6
  <2>4. CASE UNCHANGED <<userVars, kernelVars, late>>
    BY <2>2, <2>4 DEF KernelInv, CloseInv, EventsOf
  <2> QED
    BY <1>3, <2>3, <2>4 DEF AddEvent
<1>4. ASSUME NEW w \in Waiters, Resume(w) PROVE KernelInv' /\ CloseInv'
  BY <1>4 DEF Resume, KernelInv, CloseInv, EventsOf
<1>5. ASSUME NEW p \in Pollers, NEW fd \in Fds, EpollWait(p, fd) PROVE KernelInv' /\ CloseInv'
  BY <1>5 DEF EpollWait, KernelInv, CloseInv, EventsOf
<1>6. ASSUME NEW p \in Pollers, ProcessEvent(p) PROVE KernelInv' /\ CloseInv'
  <2> DEFINE g == got[p]
             real == RealEvents(g)
  <2>1. g.fd \in Fds /\ real \subseteq EventKinds
    BY <1>6, RealFacts DEF ProcessEvent
  <2>2. ~crashed /\ UNCHANGED closing
    BY <1>6 DEF ProcessEvent
  <2>3. CASE UNCHANGED <<userVars, queued, kernelVars, crashed, late>>
    BY <2>2, <2>3 DEF KernelInv, CloseInv, EventsOf
  <2>4. CASE /\ CtlLeft(g.fd, EventsOf(g.fd) \ real) /\ Trigger({<<g.fd, e>> : e \in real})
             /\ UNCHANGED crashed
    <3>1. /\ Ctl(LeftOp(EventsOf(g.fd) \ real), g.fd, EventsOf(g.fd) \ real)
          /\ events' = events \ {<<g.fd, e>> : e \in real}
          /\ late' = late \ {<<g.fd, e>> : e \in real}
      BY <2>4 DEF CtlLeft, Trigger, Forget
    <3>2. LeftOp(EventsOf(g.fd) \ real) = "DEL" <=> EventsOf(g.fd) \ real = {}
      BY DEF LeftOp
    <3> QED
      BY <2>1, <2>2, <3>1, <3>2, TakeAgrees DEF CloseInv
  <2>5. CASE crashed' = TRUE /\ UNCHANGED <<userVars, queued, history>>
    BY <2>2, <2>5 DEF KernelInv, CloseInv
  <2> QED
    BY <1>6, <2>3, <2>4, <2>5, ProcessCases
<1>7. ASSUME NEW s \in Slots, CancelEvent(s) \/ DelEvent(s) PROVE KernelInv' /\ CloseInv'
  <2>1. s[1] \in Fds /\ {s[2]} \in SUBSET EventKinds /\ {s} = {<<s[1], e>> : e \in {s[2]}}
    BY DEF Slots
  <2>2. /\ ~crashed /\ UNCHANGED closing
        /\ Ctl(LeftOp(EventsOf(s[1]) \ {s[2]}), s[1], EventsOf(s[1]) \ {s[2]})
        /\ events' = events \ {s} /\ late' = late \ {s}
    BY <1>7 DEF CancelEvent, DelEvent, Runs, CtlLeft, Trigger, Forget
  <2>3. LeftOp(EventsOf(s[1]) \ {s[2]}) = "DEL" <=> EventsOf(s[1]) \ {s[2]} = {}
    BY DEF LeftOp
  <2> QED
    BY <2>1, <2>2, <2>3, TakeAgrees DEF CloseInv
<1>9. ASSUME NEW fd \in Fds, CancelAll(fd) PROVE KernelInv' /\ CloseInv'
  <2>1. EventsOf(fd) \in SUBSET EventKinds /\ EventsOf(fd) \ EventsOf(fd) = {}
    BY DEF EventsOf
  <2>2. /\ ~crashed /\ UNCHANGED closing
        /\ Ctl("DEL", fd, EventsOf(fd) \ EventsOf(fd))
        /\ events' = events \ {<<fd, e>> : e \in EventsOf(fd)}
        /\ late' = late \ {<<fd, e>> : e \in EventsOf(fd)}
    BY <1>9, <2>1 DEF CancelAll, Runs, Trigger, Forget
  <2> QED
    BY <2>1, <2>2, TakeAgrees DEF CloseInv
<1>10. ASSUME NEW fd \in Fds, CloseBegin(fd) PROVE KernelInv' /\ CloseInv'
  <2>1. ~crashed /\ UNCHANGED crashed /\ closing' = closing \cup {fd}
    BY <1>10 DEF CloseBegin, Runs
  <2>2. CASE EventsOf(fd) # {} /\ fd \in inEpoll
    <3>1. EventsOf(fd) \in SUBSET EventKinds /\ EventsOf(fd) \ EventsOf(fd) = {}
      BY DEF EventsOf
    <3>2. /\ Ctl("DEL", fd, EventsOf(fd) \ EventsOf(fd))
          /\ events' = events \ {<<fd, e>> : e \in EventsOf(fd)}
          /\ late' = late \ {<<fd, e>> : e \in EventsOf(fd)}
      BY <1>10, <2>2, <3>1 DEF CloseBegin, Trigger, Forget
    <3> QED
      BY <2>1, <3>1, <3>2, TakeAgrees DEF CloseInv
  <2>3. CASE ~(EventsOf(fd) # {} /\ fd \in inEpoll)
    <3>1. \A e \in EventKinds : <<fd, e>> \in events => <<fd, e>> \in late
      BY <2>1, <2>3 DEF KernelInv, EventsOf
    <3>2. UNCHANGED <<events, inEpoll, interest, late>>
      BY <1>10, <2>3 DEF CloseBegin
    <3> QED
      BY <2>1, <3>1, <3>2 DEF KernelInv, CloseInv, EventsOf
  <2> QED
    BY <2>2, <2>3
<1>11. ASSUME NEW fd \in Fds, CloseEnd(fd) PROVE KernelInv' /\ CloseInv'
  <2>1. /\ fd \in closing /\ closing' = closing \ {fd} /\ inEpoll' = inEpoll \ {fd}
        /\ interest' = {s \in interest : s[1] # fd} /\ UNCHANGED <<events, late, crashed>>
    BY <1>11 DEF CloseEnd
  <2>2. \A f \in Fds : EventsOf(f)' = EventsOf(f)
    BY <2>1 DEF EventsOf
  <2>3. KernelInv'
    BY <2>1, <2>2 DEF KernelInv, CloseInv
  <2>4. CloseInv'
    BY <2>1 DEF CloseInv
  <2> QED
    BY <2>3, <2>4
<1>12. CASE UNCHANGED vars
  BY <1>12 DEF vars, KernelInv, CloseInv, EventsOf
<1> QED
  BY <1>1, <1>2, <1>3, <1>4, <1>5, <1>6, <1>7, <1>9, <1>10, <1>11, <1>12 DEF
     Next, Coroutine, Poll, Cancel, Close

-----------------------------------------------------------------------------
\* Triggering registered events schedules each of their coroutines once, and all
\* of these waited.
LEMMA TriggerWaits ==
  ASSUME IoTypeOK, WaitInv, NEW slots \in SUBSET events, Trigger(slots),
         UNCHANGED <<wstate, want>>
  PROVE  WaitInv'
<1> USE DEF IoTypeOK
<1>1. ASSUME NEW w \in Waiters
      PROVE  queued'[w] = IF want[w] \in slots /\ ctx[want[w]] = w THEN 1 ELSE queued[w]
  <2> DEFINE mine == {s \in slots : ctx[s] = w}
  <2>0. queued'[w] = queued[w] + Cardinality(mine) /\ queued[w] \in Nat
    BY DEF Trigger
  <2>1. CASE want[w] \in slots /\ ctx[want[w]] = w
    <3>1. mine = {want[w]} /\ queued[w] = 0
      BY <2>1 DEF WaitInv
    <3>2. Cardinality(mine) = 1
      BY <3>1, FS_Singleton
    <3> HIDE DEF mine
    <3> QED
      BY <2>0, <2>1, <3>1, <3>2
  <2>2. CASE ~(want[w] \in slots /\ ctx[want[w]] = w)
    <3>1. mine = {}
      BY <2>2 DEF WaitInv
    <3>2. Cardinality(mine) = 0
      BY <3>1, FS_EmptySet
    <3> HIDE DEF mine
    <3> QED
      BY <2>0, <2>2, <3>2
  <2> QED
    BY <2>1, <2>2
<1>2. \A s \in Slots : ctx'[s] = IF s \in slots THEN None ELSE ctx[s]
  BY DEF Trigger
<1>3. events' = events \ slots
  BY DEF Trigger
<1>4. \A s \in Slots : s \in events' <=> ctx'[s] # None
  BY <1>2, <1>3 DEF WaitInv
<1>5. ASSUME NEW s \in Slots, NEW w \in Waiters, ctx'[s] = w
      PROVE  wstate[w] = "wait" /\ want[w] = s /\ queued'[w] = 0
  <2>1. s \notin slots /\ ctx[s] = w
    BY <1>2, <1>5, IOManagerAssumption
  <2>2. want[w] = s
    BY <2>1 DEF WaitInv
  <2> QED
    BY <1>1, <2>1, <2>2 DEF WaitInv
<1>6. ASSUME NEW w \in Waiters, wstate[w] = "wait", queued'[w] = 0, w \notin stranded
      PROVE  ctx'[want[w]] = w
  <2>1. want[w] \in Slots
    BY <1>6
  <2>2. queued[w] = 0 /\ ~(want[w] \in slots /\ ctx[want[w]] = w)
    BY <1>1, <1>6
  <2> QED
    BY <1>2, <1>6, <2>1, <2>2 DEF WaitInv
<1>7. ASSUME NEW w \in Waiters
      PROVE  queued'[w] <= 1 /\ (queued'[w] = 1 => wstate[w] = "wait")
  <2>1. CASE want[w] \in slots /\ ctx[want[w]] = w
    BY <1>1, <2>1 DEF WaitInv
  <2>2. CASE ~(want[w] \in slots /\ ctx[want[w]] = w)
    BY <1>1, <2>2 DEF WaitInv
  <2> QED
    BY <2>1, <2>2
<1>8. stranded' = stranded
  BY DEF Trigger, Forget
<1> QED
  BY <1>4, <1>5, <1>6, <1>7, <1>8 DEF WaitInv

\* Every step keeps the account of the waits.
LEMMA WaitStep == IoTypeOK /\ WaitInv /\ [Next]_vars => WaitInv'
<1> SUFFICES ASSUME IoTypeOK, WaitInv, [Next]_vars PROVE WaitInv'
  OBVIOUS
<1> USE DEF userVars, coVars, kernelVars, history
<1>1. ASSUME NEW fd \in Fds, NEW c \in Conditions, Arrive(fd, c) PROVE WaitInv'
  BY <1>1 DEF Arrive, WaitInv
<1>2. ASSUME NEW w \in Waiters, NEW s \in Slots, TryIO(w, s) PROVE WaitInv'
  <2>1. /\ want' = [want EXCEPT ![w] = s] /\ wstate' = [wstate EXCEPT ![w] = "again"]
        /\ UNCHANGED <<events, ctx, queued, stranded>> /\ wstate[w] = "run"
    BY <1>2 DEF TryIO
  <2> QED
    BY <2>1 DEF WaitInv, IoTypeOK
<1>3. ASSUME NEW w \in Waiters, AddEvent(w) PROVE WaitInv'
  <2>1. want[w] \in Slots /\ wstate[w] = "again"
    BY <1>3 DEF AddEvent, IoTypeOK
  <2>2. queued[w] = 0 /\ \A s \in Slots : ctx[s] # w
    BY <2>1 DEF WaitInv, IoTypeOK
  <2>3. CASE want[w] \notin events /\ Register(w, want[w])
             /\ wstate' = [wstate EXCEPT ![w] = "wait"] /\ UNCHANGED <<want, stranded>>
    <3>1. /\ events' = events \cup {want[w]} /\ ctx' = [ctx EXCEPT ![want[w]] = w]
          /\ UNCHANGED queued
      BY <1>3, <2>3 DEF AddEvent, Register
    <3>2. ctx[want[w]] = None
      BY <2>1, <2>3 DEF WaitInv
    <3> QED
      BY <2>1, <2>2, <2>3, <3>1, <3>2, IOManagerAssumption DEF WaitInv, IoTypeOK
  <2>4. CASE /\ wstate' = [wstate EXCEPT ![w] = "run"] /\ want' = [want EXCEPT ![w] = NoSlot]
             /\ UNCHANGED <<userVars, stranded>>
    <3>1. UNCHANGED <<events, ctx, queued>>
      BY <1>3, <2>4 DEF AddEvent
    <3> QED
      BY <2>1, <2>2, <2>4, <3>1 DEF WaitInv, IoTypeOK
  <2>5. CASE /\ wstate' = [wstate EXCEPT ![w] = "wait"] /\ stranded' = stranded \cup {w}
             /\ UNCHANGED <<userVars, want>>
    <3>1. UNCHANGED <<events, ctx, queued>>
      BY <1>3, <2>5 DEF AddEvent
    <3> QED
      BY <2>1, <2>2, <2>5, <3>1 DEF WaitInv, IoTypeOK
  <2> QED
    BY <1>3, <2>3, <2>4, <2>5 DEF AddEvent
<1>4. ASSUME NEW w \in Waiters, Resume(w) PROVE WaitInv'
  <2>1. queued[w] = 1 /\ \A s \in Slots : ctx[s] # w
    BY <1>4 DEF Resume, WaitInv, IoTypeOK
  <2>2. /\ queued' = [queued EXCEPT ![w] = 0] /\ wstate' = [wstate EXCEPT ![w] = "run"]
        /\ want' = [want EXCEPT ![w] = NoSlot] /\ UNCHANGED <<events, ctx, stranded>>
    BY <1>4, <2>1 DEF Resume, IoTypeOK
  <2> QED
    BY <2>1, <2>2 DEF WaitInv, IoTypeOK
<1>5. ASSUME NEW p \in Pollers, NEW fd \in Fds, EpollWait(p, fd) PROVE WaitInv'
  BY <1>5 DEF EpollWait, WaitInv
<1>6. ASSUME NEW p \in Pollers, ProcessEvent(p) PROVE WaitInv'
  <2> DEFINE g == got[p]
             real == RealEvents(g)
  <2>1. UNCHANGED <<wstate, want>>
    BY <1>6 DEF ProcessEvent
  <2>2. CASE UNCHANGED <<userVars, queued, stranded>>
    BY <2>1, <2>2 DEF WaitInv
  <2>3. CASE Trigger({<<g.fd, e>> : e \in real}) /\ real \subseteq EventsOf(g.fd)
    <3>1. {<<g.fd, e>> : e \in real} \in SUBSET events
      BY <2>3 DEF EventsOf
    <3> QED
      BY <2>1, <2>3, <3>1, TriggerWaits
  <2> QED
    BY <1>6, <2>2, <2>3, ProcessCases
<1>7. ASSUME NEW s \in Slots, CancelEvent(s) PROVE WaitInv'
  BY <1>7, TriggerWaits DEF CancelEvent
<1>8. ASSUME NEW s \in Slots, DelEvent(s) PROVE WaitInv'
  <2>1. PICK w \in Waiters : ctx[s] = w
    BY <1>8 DEF DelEvent, WaitInv, IoTypeOK
  <2>2. /\ events' = events \ {s} /\ ctx' = [ctx EXCEPT ![s] = None] /\ queued' = queued
        /\ wstate' = [wstate EXCEPT ![w] = "run"] /\ want' = [want EXCEPT ![w] = NoSlot]
        /\ stranded' = stranded
    BY <1>8, <2>1 DEF DelEvent, Forget
  <2> QED
    BY <2>1, <2>2, IOManagerAssumption DEF WaitInv, IoTypeOK
<1>9. ASSUME NEW fd \in Fds, CancelAll(fd) PROVE WaitInv'
  <2>1. {<<fd, e>> : e \in EventsOf(fd)} \in SUBSET events
    BY SlotFacts
  <2> QED
    BY <1>9, <2>1, TriggerWaits DEF CancelAll
<1>10. ASSUME NEW fd \in Fds, CloseBegin(fd) PROVE WaitInv'
  <2>1. {<<fd, e>> : e \in EventsOf(fd)} \in SUBSET events
    BY SlotFacts
  <2>2. UNCHANGED <<wstate, want>>
    BY <1>10 DEF CloseBegin
  <2>3. CASE UNCHANGED <<userVars, queued, stranded>>
    BY <2>2, <2>3 DEF WaitInv
  <2>4. CASE Trigger({<<fd, e>> : e \in EventsOf(fd)})
    BY <2>1, <2>2, <2>4, TriggerWaits
  <2> QED
    BY <1>10, <2>3, <2>4 DEF CloseBegin
<1>11. ASSUME NEW fd \in Fds, CloseEnd(fd) PROVE WaitInv'
  BY <1>11 DEF CloseEnd, WaitInv
<1>12. CASE UNCHANGED vars
  BY <1>12 DEF vars, WaitInv
<1> QED
  BY <1>1, <1>2, <1>3, <1>4, <1>5, <1>6, <1>7, <1>8, <1>9, <1>10, <1>11, <1>12 DEF
     Next, Coroutine, Poll, Cancel, Close

-----------------------------------------------------------------------------
\* There are finitely many slots, so registered events can be counted.
LEMMA EventsFinite == IoTypeOK => IsFiniteSet(events)
<1>1. EventKinds = {"READ"} \cup {"WRITE"}
  BY DEF EventKinds
<1>2. IsFiniteSet(EventKinds)
  BY <1>1, FS_Singleton, FS_Union
<1>3. IsFiniteSet(Slots)
  BY <1>2, FS_Product, IOManagerAssumption DEF Slots
<1> QED
  BY <1>3, FS_Subset DEF IoTypeOK

\* The callers of triggerEvent take as much from the counter as they clear bits.
LEMMA TriggerCounts ==
  ASSUME IoTypeOK, PendingInv, NEW slots \in SUBSET events, Trigger(slots)
  PROVE  PendingInv'
<1>1. Cardinality(events \ slots) = Cardinality(events) - Cardinality(events \cap slots)
  BY EventsFinite, FS_Difference
<1>2. events \cap slots = slots
  OBVIOUS
<1>3. Cardinality(events \ slots) = Cardinality(events) - Cardinality(slots)
  BY <1>1, <1>2
<1> QED
  BY <1>3 DEF PendingInv, Trigger

\* Every step keeps m_pendingEventCount exact.
LEMMA PendingStep == IoTypeOK /\ PendingInv /\ [Next]_vars => PendingInv'
<1> SUFFICES ASSUME IoTypeOK, PendingInv, [Next]_vars PROVE PendingInv'
  OBVIOUS
<1> USE DEF userVars, coVars, kernelVars, history
<1>1. ASSUME NEW fd \in Fds, NEW c \in Conditions, Arrive(fd, c) PROVE PendingInv'
  BY <1>1 DEF Arrive, PendingInv
<1>2. ASSUME NEW w \in Waiters, NEW s \in Slots, TryIO(w, s) PROVE PendingInv'
  BY <1>2 DEF TryIO, PendingInv
<1>3. ASSUME NEW w \in Waiters, AddEvent(w) PROVE PendingInv'
  <2>1. CASE Register(w, want[w]) /\ want[w] \notin events
    <3>1. Cardinality(events \cup {want[w]}) = Cardinality(events) + 1
      BY <2>1, EventsFinite, FS_AddElement
    <3> QED
      BY <2>1, <3>1 DEF Register, PendingInv
  <2>2. CASE UNCHANGED userVars
    BY <2>2 DEF PendingInv
  <2> QED
    BY <1>3, <2>1, <2>2 DEF AddEvent
<1>4. ASSUME NEW w \in Waiters, Resume(w) PROVE PendingInv'
  BY <1>4 DEF Resume, PendingInv
<1>5. ASSUME NEW p \in Pollers, NEW fd \in Fds, EpollWait(p, fd) PROVE PendingInv'
  BY <1>5 DEF EpollWait, PendingInv
<1>6. ASSUME NEW p \in Pollers, ProcessEvent(p) PROVE PendingInv'
  <2> DEFINE g == got[p]
             real == RealEvents(g)
  <2>1. CASE UNCHANGED userVars
    BY <2>1 DEF PendingInv
  <2>2. CASE Trigger({<<g.fd, e>> : e \in real}) /\ real \subseteq EventsOf(g.fd)
    <3>1. {<<g.fd, e>> : e \in real} \in SUBSET events
      BY <2>2 DEF EventsOf
    <3> QED
      BY <2>2, <3>1, TriggerCounts
  <2> QED
    BY <1>6, <2>1, <2>2, ProcessCases
<1>7. ASSUME NEW s \in Slots, CancelEvent(s) PROVE PendingInv'
  BY <1>7, TriggerCounts DEF CancelEvent
<1>8. ASSUME NEW s \in Slots, DelEvent(s) PROVE PendingInv'
  <2>1. Cardinality(events \ {s}) = Cardinality(events) - 1
    BY <1>8, EventsFinite, FS_RemoveElement DEF DelEvent
  <2> QED
    BY <1>8, <2>1 DEF DelEvent, PendingInv
<1>9. ASSUME NEW fd \in Fds, CancelAll(fd) PROVE PendingInv'
  <2>1. {<<fd, e>> : e \in EventsOf(fd)} \in SUBSET events
    BY SlotFacts
  <2> QED
    BY <1>9, <2>1, TriggerCounts DEF CancelAll
<1>10. ASSUME NEW fd \in Fds, CloseBegin(fd) PROVE PendingInv'
  <2>1. {<<fd, e>> : e \in EventsOf(fd)} \in SUBSET events
    BY SlotFacts
  <2>2. CASE UNCHANGED userVars
    BY <2>2 DEF PendingInv
  <2>3. CASE Trigger({<<fd, e>> : e \in EventsOf(fd)})
    BY <2>1, <2>3, TriggerCounts
  <2> QED
    BY <1>10, <2>2, <2>3 DEF CloseBegin
<1>11. ASSUME NEW fd \in Fds, CloseEnd(fd) PROVE PendingInv'
  BY <1>11 DEF CloseEnd, PendingInv
<1>12. CASE UNCHANGED vars
  BY <1>12 DEF vars, PendingInv
<1> QED
  BY <1>1, <1>2, <1>3, <1>4, <1>5, <1>6, <1>7, <1>8, <1>9, <1>10, <1>11, <1>12 DEF
     Next, Coroutine, Poll, Cancel, Close

-----------------------------------------------------------------------------
\* Every variable keeps its type, and m_pendingEventCount, which decides whether
\* the IOManager may stop, is exactly the number of registered events: it never
\* drops below zero, whatever fails, is cancelled or is closed meanwhile.
THEOREM PendingExact == Spec => [](TypeOK /\ PendingInv)
<1>1. Init => IoTypeOK /\ PendingInv
  BY IoTypeInit, FS_EmptySet DEF Init, PendingInv
<1>2. IoTypeOK /\ PendingInv /\ [Next]_vars => IoTypeOK' /\ PendingInv'
  BY IoTypeStep, PendingStep
<1>3. IoTypeOK /\ PendingInv => TypeOK /\ PendingInv
  <2> SUFFICES ASSUME IoTypeOK, PendingInv PROVE TypeOK
    OBVIOUS
  <2>1. pending \in Nat
    BY EventsFinite, FS_CardinalityType DEF PendingInv
  <2> QED
    BY <2>1 DEF IoTypeOK, TypeOK
<1> QED
  BY <1>1, <1>2, <1>3, PTL DEF Spec

\* What close() leaves on the number was registered between its cancelAll() and its
\* close_f(): every event that was registered before is gone, for any number of
\* descriptors, coroutines and polling threads.
THEOREM CloseCleansHolds == Spec => CloseCleans
<1>1. Init => IoTypeOK /\ KernelInv /\ CloseInv
  BY IoTypeInit DEF Init, KernelInv, CloseInv
<1>2. IoTypeOK /\ KernelInv /\ CloseInv /\ [Next]_vars
         => IoTypeOK' /\ KernelInv' /\ CloseInv'
  BY IoTypeStep, KernelStep
<1>3. IoTypeOK /\ CloseInv /\ [Next]_vars
         => [\A fd \in Fds : fd \in closing /\ fd \notin closing' => SlotsOf(fd) \subseteq late]_vars
  <2> SUFFICES ASSUME IoTypeOK, CloseInv, NEW fd \in closing, NEW s \in events, s[1] = fd
               PROVE  s \in late
    BY DEF SlotsOf
  <2>1. s[2] \in EventKinds /\ s = <<fd, s[2]>>
    BY DEF IoTypeOK, Slots
  <2> QED
    BY <2>1 DEF CloseInv
<1> QED
  BY <1>1, <1>2, <1>3, PTL DEF Spec, CloseCleans

\* Every suspended coroutine is scheduled once, or is registered where an event, a
\* cancellation or close() will find it, except for the second waiter of one event
\* and for what epoll loses when close() is under way.
THEOREM WaitAccountedHolds == Spec => []WaitAccounted
<1> DEFINE I == IoTypeOK /\ KernelInv /\ CloseInv /\ WaitInv
<1>1. Init => I
  <2> SUFFICES ASSUME Init PROVE I
    OBVIOUS
  <2>1. KernelInv /\ CloseInv
    BY DEF Init, KernelInv, CloseInv
  <2>2. WaitInv
    BY IOManagerAssumption DEF Init, WaitInv
  <2> QED
    BY <2>1, <2>2, IoTypeInit
<1>2. I /\ [Next]_vars => I'
  BY IoTypeStep, KernelStep, WaitStep
<1>3. I => WaitAccounted
  <2> SUFFICES ASSUME I, NEW w \in Waiters, wstate[w] = "wait", queued[w] = 0, ~crashed,
                      w \notin stranded
      PROVE  want[w] \in events /\ ctx[want[w]] = w /\ want[w] \in interest \cup late
    BY DEF WaitAccounted, WaitInv
  <2>1. want[w] \in Slots /\ ctx[want[w]] = w
    BY DEF WaitInv, IoTypeOK
  <2>2. want[w] \in events
    BY <2>1, IOManagerAssumption DEF WaitInv
  <2>3. want[w][1] \in Fds /\ want[w][2] \in EventKinds /\ want[w] = <<want[w][1], want[w][2]>>
    BY <2>1 DEF Slots
  <2> QED
    BY <2>1, <2>2, <2>3 DEF KernelInv
<1> QED
  BY <1>1, <1>2, <1>3, PTL DEF Spec
=============================================================================
