----------------------------- MODULE NameServer -----------------------------
(***************************************************************************)
(* The name server (src/src/ns/name_server_module.cpp, ns_protocol.cpp):   *)
(* every session registers one node for a set of <<domain, command>>       *)
(* slots, and the directory lists the nodes of every slot.  Register       *)
(* requests are handled by coroutines of a pool of threads, the callback   *)
(* of a lost connection runs on the reader's thread before the socket is   *)
(* closed, and set() goes through the directory one lock at a time.        *)
(*                                                                         *)
(* NSDomain and NSNodeSet are heap objects that a call holds by pointer,   *)
(* so an object that was taken out of the directory can still be written.  *)
(* Index 0 is the null pointer, weight 0 a node that is absent.            *)
(***************************************************************************)
EXTENDS Integers, Sequences, FiniteSets, SequencesExt

CONSTANTS
    NsStreams,   \* connections of registering servers
    NsHandlers,  \* coroutines that handle requests
    NsInfos,     \* what servers ask to register: node, weight and slots
    NsMaxReqs    \* bound: the register requests

NsSlots == UNION {i.regs : i \in NsInfos}
NsNodes == {i.node : i \in NsInfos}
NsDomains == {s[1] : s \in NsSlots}
NsCmds == {s[2] : s \in NsSlots}
NsActors == NsHandlers \cup NsStreams

NsNoInfo == [node |-> "none", weight |-> 0, regs |-> {}]

ASSUME NameServerAssumption ==
    /\ NsHandlers \cap NsStreams = {}
    /\ \A i \in NsInfos :
          /\ i.weight \in Nat \ {0} /\ i.node # "none"
          /\ i.regs # {} /\ i.regs \subseteq NsDomains \X NsCmds /\ IsFiniteSet(i.regs)
    /\ NsMaxReqs \in Nat

VARIABLES
    nsLink,      \* a stream: up, cut, closing, shut or down (see Links)
    nsSessions,  \* m_sessions
    nsDir,       \* m_domains: the NSDomain of each domain
    nsDomObj,    \* the NSDomain objects: the NSNodeSet of each command
    nsSetObj,    \* the NSNodeSet objects: the weight of each node
    nsCall,      \* the call of set() that an actor is in
    nsReqs,      \* register requests so far
    nsRefused,   \* streams on which a request failed and close() comes next
    nsMuddled    \* domains that clashing calls have touched (NsClash)

nsHeap == <<nsDir, nsDomObj, nsSetObj>>
nsVars == <<nsLink, nsSessions, nsHeap, nsCall, nsReqs, nsRefused, nsMuddled>>

NsIdle == [pc |-> "idle"]

NsInit ==
    /\ nsLink = [r \in NsStreams |-> "up"]
    /\ nsSessions = [r \in NsStreams |-> NsNoInfo]
    /\ nsDir = [d \in NsDomains |-> 0]
    /\ nsDomObj = <<>> /\ nsSetObj = <<>>
    /\ nsCall = [a \in NsActors |-> NsIdle]
    /\ nsReqs = 0
    /\ nsRefused = {}
    /\ nsMuddled = {}

NsDomainsOf(info) == {s[1] : s \in info.regs}

\* Links.  From up a stream is either cut, by a handler that closes it after it has
\* refused a request, or it is closing: innerClose() has found it connected and runs
\* onDisconnect() before it closes it, when it is down.  A stream that is closing may
\* be cut too, it is shut then.  innerClose() does not call onDisconnect() for a
\* stream that was cut first, nobody will unregister its node: these are the links
\* for which onDisconnect() has not begun.
NsKept == {"up", "cut"}
NsConnected == {"up", "closing"}

-----------------------------------------------------------------------------
(* Calls that clash                                                        *)

\* Two calls in progress clash when they are for one stream, for one node id
\* or for a common domain; a call also clashes with a session that holds the
\* same node on another stream.  The domains that such a pair may spoil:
NsClash(a, rs, old, new) ==
    LET mine == NsDomainsOf(old) \cup NsDomainsOf(new)
        calls == {nsCall[b] : b \in {x \in NsActors \ {a} : nsCall[x] # NsIdle}}
        all(c) == NsDomainsOf(c.old) \cup NsDomainsOf(c.new)
        nodes(i, j) == {i.node, j.node} \ {"none"}
        twins == {nsSessions[r] : r \in {x \in NsStreams \ {rs} :
                                            nsSessions[x].node \in nodes(old, new)}}
    IN  (UNION {IF c.rs = rs \/ nodes(c.old, c.new) \cap nodes(old, new) # {}
                  THEN mine \cup all(c) ELSE mine \cap all(c) : c \in calls})
        \cup (UNION {mine \cup NsDomainsOf(t) : t \in twins})

-----------------------------------------------------------------------------
(* handleRegister() and onDisconnect()                                     *)

NsBegin(a, rs, new) ==
    /\ nsCall' = [nsCall EXCEPT ![a] =
         [pc |-> "set", rs |-> rs, old |-> NsNoInfo, new |-> new, ops |-> <<>>, d |-> 0, ns |-> 0]]
    /\ nsMuddled' = nsMuddled \cup NsClash(a, rs, nsSessions[rs], new)

\* A session keeps its node id; an empty request unregisters.  A request for
\* another node is refused, like a malformed one.
HandleRegister(h, rs, new) ==
    /\ nsCall[h] = NsIdle
    /\ nsReqs < NsMaxReqs
    /\ nsReqs' = nsReqs + 1
    /\ IF nsSessions[rs].node \in {"none", new.node} \/ new = NsNoInfo
       THEN NsBegin(h, rs, new) /\ UNCHANGED nsRefused
       ELSE nsRefused' = nsRefused \cup {rs} /\ UNCHANGED <<nsCall, nsMuddled>>
    /\ UNCHANGED <<nsLink, nsSessions, nsHeap>>

\* handleRequest() closes the stream of a refused request, with close() and not
\* with innerClose().
CloseRefused(rs) ==
    /\ rs \in nsRefused
    /\ nsRefused' = nsRefused \ {rs}
    /\ nsLink' = [nsLink EXCEPT ![rs] =
                    IF @ = "up" THEN "cut" ELSE IF @ = "closing" THEN "shut" ELSE @]
    /\ UNCHANGED <<nsSessions, nsHeap, nsCall, nsReqs, nsMuddled>>

\* innerClose() calls onDisconnect() if the socket is still connected ...
OnDisconnect(rs) ==
    /\ nsLink[rs] = "up"
    /\ nsLink' = [nsLink EXCEPT ![rs] = "closing"]
    /\ NsBegin(rs, rs, NsNoInfo)
    /\ UNCHANGED <<nsSessions, nsHeap, nsReqs, nsRefused>>

\* ... and then closes it.
CloseSocket(rs) ==
    /\ nsLink[rs] \in {"closing", "shut"} /\ nsCall[rs] = NsIdle
    /\ nsLink' = [nsLink EXCEPT ![rs] = "down"]
    /\ UNCHANGED <<nsSessions, nsHeap, nsCall, nsReqs, nsRefused, nsMuddled>>

-----------------------------------------------------------------------------
(* set()                                                                   *)

\* Operations on slots, one for each domain.
NsGroup(kind, slots) ==
    SetToSeq({[kind |-> kind, dom |-> d, cmds |-> {s[2] : s \in {x \in slots : x[1] = d}}] :
                d \in {s[1] : s \in slots}})

\* The slots that stay, when their weight changes.
NsComms(old, new) == IF old.weight # new.weight THEN old.regs \cap new.regs ELSE {}

\* Mistake for the mutation tests: slots that are left are kept.
NsDiffNoDel(old, new) == NsGroup("add", new.regs \ old.regs) \o NsGroup("add", NsComms(old, new))

\* diff(): the operations, grouped by domain, on slots that leave (dels),
\* arrive (news) or stay (comms); the last ones only with a new weight.
NsDiff(old, new) ==
    NsGroup("del", old.regs \ new.regs) \o NsGroup("add", new.regs \ old.regs) \o NsGroup("add", NsComms(old, new))

\* isConnected()
SetConnected(a) ==
    /\ nsCall[a].pc = "set"
    /\ nsCall' = [nsCall EXCEPT ![a].pc = "diff",
                    ![a].new = IF nsLink[nsCall[a].rs] \in NsConnected THEN @ ELSE NsNoInfo]
    /\ UNCHANGED <<nsLink, nsSessions, nsHeap, nsReqs, nsRefused, nsMuddled>>

\* The old registration is read under the lock, the difference taken outside.
\* A register that comes this far on a stream whose onDisconnect() has begun
\* clashes with it.
SetDiff(a) ==
    LET rs == nsCall[a].rs
        new == nsCall[a].new
        old == nsSessions[rs]
    IN  /\ nsCall[a].pc = "diff"
        /\ nsCall' = [nsCall EXCEPT ![a].pc = "dom", ![a].old = old,
                                    ![a].ops = NsDiff(old, new)]
        /\ nsMuddled' = nsMuddled \cup NsClash(a, rs, old, new)
                          \cup (IF nsLink[rs] \in NsKept THEN {} ELSE NsDomainsOf(new))
        /\ UNCHANGED <<nsLink, nsSessions, nsHeap, nsReqs, nsRefused>>

\* m_domains->get(): dels skip a domain that is not there, adds create it.
SetDomain(a) ==
    LET c == nsCall[a]
        op == Head(c.ops)
        d == nsDir[op.dom]
    IN  /\ c.pc = "dom" /\ c.ops # <<>>
        /\ nsCall' = [nsCall EXCEPT ![a] =
             IF d = 0 /\ op.kind = "del" THEN [c EXCEPT !.ops = Tail(@)]
             ELSE [c EXCEPT !.d = d, !.pc = IF d = 0 THEN "mkdom" ELSE "cmd"]]
        /\ UNCHANGED <<nsLink, nsSessions, nsHeap, nsReqs, nsRefused, nsMuddled>>

\* NSDomainSet::add(): whatever the domain maps to is replaced.
SetNewDomain(a) ==
    LET c == nsCall[a]
    IN  /\ c.pc = "mkdom"
        /\ nsDomObj' = Append(nsDomObj, [m \in NsCmds |-> 0])
        /\ nsDir' = [nsDir EXCEPT ![Head(c.ops).dom] = Len(nsDomObj')]
        /\ nsCall' = [nsCall EXCEPT ![a].d = Len(nsDomObj'), ![a].pc = "cmd"]
        /\ UNCHANGED <<nsLink, nsSessions, nsSetObj, nsReqs, nsRefused, nsMuddled>>

NsNextCmd(c) == CHOOSE m \in Head(c.ops).cmds : TRUE

\* The call after its work on the command of the group is done.
NsCmdDone(c) ==
    LET rest == Head(c.ops).cmds \ {NsNextCmd(c)}
    IN  IF rest = {} THEN [c EXCEPT !.ops = Tail(@), !.pc = "dom", !.d = 0, !.ns = 0]
        ELSE [c EXCEPT !.ops[1].cmds = rest, !.pc = "cmd", !.ns = 0]

\* NSDomain::get(cmd), at the start of both del() and add().
SetNodes(a) ==
    LET c == nsCall[a]
        ns == nsDomObj[c.d][NsNextCmd(c)]
    IN  /\ c.pc = "cmd"
        /\ nsCall' = [nsCall EXCEPT ![a] =
             IF ns = 0 /\ Head(c.ops).kind = "del" THEN NsCmdDone(c)
             ELSE [c EXCEPT !.ns = ns, !.pc = IF ns = 0 THEN "mkset" ELSE "node"]]
        /\ UNCHANGED <<nsLink, nsSessions, nsHeap, nsReqs, nsRefused, nsMuddled>>

\* NSDomain::add(NSNodeSet)
SetNewNodes(a) ==
    LET c == nsCall[a]
    IN  /\ c.pc = "mkset"
        /\ nsSetObj' = Append(nsSetObj, [n \in NsNodes |-> 0])
        /\ nsDomObj' = [nsDomObj EXCEPT ![c.d][NsNextCmd(c)] = Len(nsSetObj')]
        /\ nsCall' = [nsCall EXCEPT ![a].ns = Len(nsSetObj'), ![a].pc = "node"]
        /\ UNCHANGED <<nsLink, nsSessions, nsDir, nsReqs, nsRefused, nsMuddled>>

\* NSNodeSet::add() or NSNodeSet::del()
SetNode(a) ==
    LET c == nsCall[a]
        del == Head(c.ops).kind = "del"
        n == IF del THEN c.old.node ELSE c.new.node
    IN  /\ c.pc = "node"
        /\ nsSetObj' = [nsSetObj EXCEPT ![c.ns][n] = IF del THEN 0 ELSE c.new.weight]
        /\ nsCall' = [nsCall EXCEPT ![a] = IF del THEN [c EXCEPT !.pc = "size"] ELSE NsCmdDone(c)]
        /\ UNCHANGED <<nsLink, nsSessions, nsDir, nsDomObj, nsReqs, nsRefused, nsMuddled>>

\* NSNodeSet::size() of the set that the node was taken from.
SetSize(a) ==
    LET c == nsCall[a]
        empty == \A x \in NsNodes : nsSetObj[c.ns][x] = 0
    IN  /\ c.pc = "size"
        /\ nsCall' = [nsCall EXCEPT ![a] = IF empty THEN [c EXCEPT !.pc = "erase"] ELSE NsCmdDone(c)]
        /\ UNCHANGED <<nsLink, nsSessions, nsHeap, nsReqs, nsRefused, nsMuddled>>

\* NSDomain::del(cmd), in a section of its own.
SetErase(a) ==
    LET c == nsCall[a]
    IN  /\ c.pc = "erase"
        /\ nsDomObj' = [nsDomObj EXCEPT ![c.d][NsNextCmd(c)] = 0]
        /\ nsCall' = [nsCall EXCEPT ![a] = NsCmdDone(c)]
        /\ UNCHANGED <<nsLink, nsSessions, nsDir, nsSetObj, nsReqs, nsRefused, nsMuddled>>

\* m_sessions is written last.
SetSession(a) ==
    LET c == nsCall[a]
    IN  /\ c.pc = "dom" /\ c.ops = <<>>
        /\ nsSessions' = [nsSessions EXCEPT ![c.rs] = c.new]
        /\ nsCall' = [nsCall EXCEPT ![a] = NsIdle]
        /\ UNCHANGED <<nsLink, nsHeap, nsReqs, nsRefused, nsMuddled>>

NsStep(a) ==
    \/ SetConnected(a) \/ SetDiff(a) \/ SetDomain(a) \/ SetNewDomain(a) \/ SetNodes(a)
    \/ SetNewNodes(a) \/ SetNode(a) \/ SetSize(a) \/ SetErase(a) \/ SetSession(a)

NsNext ==
    \/ \E h \in NsHandlers, rs \in NsStreams, i \in NsInfos \cup {NsNoInfo} : HandleRegister(h, rs, i)
    \/ \E rs \in NsStreams : CloseRefused(rs) \/ OnDisconnect(rs) \/ CloseSocket(rs)
    \/ \E a \in NsActors : NsStep(a)

NsSpec == NsInit /\ [][NsNext]_nsVars

-----------------------------------------------------------------------------
(* Properties                                                              *)

\* What a query lists for a node in a slot (NSDomain::listAll and
\* NSNodeSet::listAll); 0 when it is not listed.
NsListed(d, m, n) ==
    IF nsDir[d] = 0 \/ nsDomObj[nsDir[d]][m] = 0 THEN 0 ELSE nsSetObj[nsDomObj[nsDir[d]][m]][n]

\* When no call is in progress, a query lists exactly the nodes that were
\* registered on the connections which onDisconnect() has not taken off, with the
\* weight of the last registration: none lost, none with an old weight, and of the
\* closed connections only those that the server itself closed for a refused
\* request (NsKept): their nodes stay.  Domains that clashing calls touched are left
\* out: set() reads the old registration, changes the directory and writes the new
\* one in separate critical sections.
NsExact ==
    (\A a \in NsActors : nsCall[a] = NsIdle) =>
        \A d \in NsDomains \ nsMuddled, m \in NsCmds, n \in NsNodes :
            LET mine == {r \in NsStreams : /\ nsLink[r] \in NsKept
                                           /\ nsSessions[r].node = n
                                           /\ <<d, m>> \in nsSessions[r].regs}
            IN  IF mine = {} THEN NsListed(d, m, n) = 0
                ELSE \A r \in mine : NsListed(d, m, n) = nsSessions[r].weight
=============================================================================
