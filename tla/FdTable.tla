------------------------------ MODULE FdTable ------------------------------
(***************************************************************************)
(* m_fdContexts of IOManager (src/src/io/iomanager.cpp): the table from    *)
(* file descriptors to their FdContext, which addEvent grows when it meets *)
(* an fd beyond the end.  The size is tested under the read lock and the   *)
(* table is resized under the write lock, with nothing held in between.    *)
(*                                                                         *)
(* A context is named by its fd and a generation: the entries that a       *)
(* resize cuts off are not deleted, and one that comes back is a new one.  *)
(* Which of READ and WRITE is registered does not matter here.             *)
(***************************************************************************)
EXTENDS Integers

CONSTANTS
    Fds,        \* the descriptors in use
    Threads,    \* the threads that add and cancel events
    InitSize    \* the size that the constructor gives the table

ASSUME FdTableAssumption ==
    /\ Fds \subseteq Nat
    /\ InitSize \in Nat /\ InitSize >= 2

VARIABLES
    size,   \* m_fdContexts.size()
    gen,    \* the newest context that was allocated for an fd; 0: none
    reg,    \* <<fd, generation>>: the contexts with events, as epoll has them
    pc,     \* a thread: outside, about to grow, or holding a context
    arg,    \* its fd
    held,   \* the generation of the context that it looked up
    cut,    \* history: the fds whose entries a resize to a smaller size dropped
    raced   \* history: two threads were about to grow the table at once

vars == <<size, gen, reg, pc, arg, held, cut, raced>>

Init ==
    /\ size = InitSize
    /\ gen = [f \in Fds |-> IF f < InitSize THEN 1 ELSE 0]
    /\ reg = {}
    /\ pc = [t \in Threads |-> "out"]
    /\ arg = [t \in Threads |-> 0]
    /\ held = [t \in Threads |-> 0]
    /\ cut = {} /\ raced = FALSE

-----------------------------------------------------------------------------
\* addEvent(f): the entry is taken under the read lock.
AddFound(t, f) ==
    /\ pc[t] = "out"
    /\ f < size
    /\ pc' = [pc EXCEPT ![t] = "add"]
    /\ arg' = [arg EXCEPT ![t] = f]
    /\ held' = [held EXCEPT ![t] = gen[f]]
    /\ UNCHANGED <<size, gen, reg, cut, raced>>

\* addEvent(f): the table is too small; the read lock is released.
AddTooSmall(t, f) ==
    /\ pc[t] = "out"
    /\ f >= size
    /\ pc' = [pc EXCEPT ![t] = "grow"]
    /\ arg' = [arg EXCEPT ![t] = f]
    /\ raced' = (raced \/ \E u \in Threads : pc[u] = "grow")
    /\ UNCHANGED <<size, gen, reg, held, cut>>

\* Mistake for the mutation tests: the new size is the descriptor itself.
NewSizeTight(f) == f

\* fd * 1.5, converted to size_t
NewSize(f) == (3 * f) \div 2

\* Mistake for the mutation tests: contextResize allocates every entry anew.
GrowReallocates(t) ==
    LET f == arg[t]
        n == NewSize(f) IN
    /\ pc[t] = "grow"
    /\ size' = n
    /\ gen' = [g \in Fds |-> IF g < n THEN gen[g] + 1 ELSE gen[g]]
    /\ pc' = [pc EXCEPT ![t] = "add"]
    /\ held' = [held EXCEPT ![t] = gen'[f]]
    /\ cut' = cut \cup {g \in Fds : n <= g /\ g < size}
    /\ UNCHANGED <<reg, arg, raced>>

\* contextResize(fd * 1.5) under the write lock, without another look at the
\* size, so that it may make the table smaller; then the entry is read without
\* a range check.
Grow(t) ==
    LET f == arg[t]
        n == NewSize(f) IN
    /\ pc[t] = "grow"
    /\ size' = n
    /\ gen' = [g \in Fds |-> IF size <= g /\ g < n THEN gen[g] + 1 ELSE gen[g]]
    /\ IF f < n
       THEN /\ pc' = [pc EXCEPT ![t] = "add"]
            /\ held' = [held EXCEPT ![t] = gen'[f]]
       ELSE /\ pc' = [pc EXCEPT ![t] = "wild"]
            /\ UNCHANGED held
    /\ cut' = cut \cup {g \in Fds : n <= g /\ g < size}
    /\ UNCHANGED <<reg, arg, raced>>

\* The rest of addEvent, under the context's mutex.  EPOLL_CTL_ADD fails when
\* epoll has the fd already, through an older context.
Register(t) ==
    /\ pc[t] = "add"
    /\ reg' = IF \E g \in {r[2] : r \in {s \in reg : s[1] = arg[t]}} : g # held[t]
              THEN reg
              ELSE reg \cup {<<arg[t], held[t]>>}
    /\ pc' = [pc EXCEPT ![t] = "out"]
    /\ UNCHANGED <<size, gen, arg, held, cut, raced>>

\* cancelAll(f), which close(f) calls, and the timeout's cancelEvent(f): an fd
\* out of range is an error that the callers do not look at.
CancelFound(t, f) ==
    /\ pc[t] = "out"
    /\ f < size
    /\ pc' = [pc EXCEPT ![t] = "cancel"]
    /\ arg' = [arg EXCEPT ![t] = f]
    /\ held' = [held EXCEPT ![t] = gen[f]]
    /\ UNCHANGED <<size, gen, reg, cut, raced>>

\* The rest of cancelAll, under the context's mutex.
CancelDo(t) ==
    /\ pc[t] = "cancel"
    /\ reg' = reg \ {<<arg[t], held[t]>>}
    /\ pc' = [pc EXCEPT ![t] = "out"]
    /\ UNCHANGED <<size, gen, arg, held, cut, raced>>

\* idle(): epoll reports the context by its address.
Trigger(r) ==
    /\ reg' = reg \ {r}
    /\ UNCHANGED <<size, gen, pc, arg, held, cut, raced>>

Step(t) ==
    \/ \E f \in Fds : AddFound(t, f) \/ AddTooSmall(t, f) \/ CancelFound(t, f)
    \/ Grow(t) \/ Register(t) \/ CancelDo(t)

Next ==
    \/ \E t \in Threads : Step(t)
    \/ \E r \in reg : Trigger(r)

Spec == Init /\ [][Next]_vars

-----------------------------------------------------------------------------
(* Properties.                                                             *)

\* No entry beyond the end of the table is read: fd * 1.5 is enough for every
\* fd that was out of range, since the table never has fewer than two entries.
InRange == \A t \in Threads : pc[t] # "wild"

\* A context with a registered event is the table's entry for its fd: cancelAll
\* and cancelEvent find the waiter, and addEvent does not start a second one --
\* unless a resize dropped the entry, which takes two threads that both saw the
\* table too small before either had grown it.
CancelFinds ==
    /\ cut # {} => raced
    /\ \A r \in reg : r[1] \in cut \/ (r[1] < size /\ r[2] = gen[r[1]])
=============================================================================
