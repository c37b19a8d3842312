-------------------------- MODULE NameServerProofs --------------------------
(***************************************************************************)
(* Proofs about the name server, for any streams, handlers, registrations  *)
(* and number of requests: outside of the domains that clashing calls have *)
(* touched, a query lists what the connections that onDisconnect() has not *)
(* taken off have registered.                                              *)
(*                                                                         *)
(* A call of set() answers for the slots of its registrations from the     *)
(* difference on: the old registration holds for the slots that it has     *)
(* still to change, the new one for the others, until the session takes    *)
(* over.  NsOwed says so for one slot, NsListing that the directory lists  *)
(* just that.  It is kept because in a domain that is not muddled one call *)
(* is at work alone (NsControl), each slot is in its operations once       *)
(* (NsWork), and the objects it points to are the ones in the directory    *)
(* (NsHeap, NsHeld, NsPlace).                                              *)
(***************************************************************************)
EXTENDS NameServer, SequenceTheorems, FiniteSetTheorems, WellFoundedInduction, TLAPS

NsAllInfos == NsInfos \cup {NsNoInfo}
NsLinkSet == {"up", "cut", "closing", "shut", "down"}
NsBefore == {"set", "diff"}
NsAfter == {"dom", "mkdom", "cmd", "mkset", "node", "size", "erase"}
NsOpSet == [kind : {"del", "add"}, dom : NsDomains, cmds : SUBSET NsCmds]
NsCallSet == [pc : NsBefore \cup NsAfter, rs : NsStreams, old : NsAllInfos, new : NsAllInfos,
              ops : Seq(NsOpSet), d : Nat, ns : Nat]

NsTypeOK ==
    /\ nsLink \in [NsStreams -> NsLinkSet]
    /\ nsSessions \in [NsStreams -> NsAllInfos]
    /\ nsCall \in [NsActors -> {NsIdle} \cup NsCallSet]
    /\ nsDir \in [NsDomains -> Nat]
    /\ nsDomObj \in Seq([NsCmds -> Nat])
    /\ nsSetObj \in Seq([NsNodes -> Nat])

\* A call in progress, and one that has taken the difference.
NsRuns(a) == nsCall[a].pc # "idle"
NsChanges(a) == nsCall[a].pc \in NsAfter

NsAll(c) == NsDomainsOf(c.old) \cup NsDomainsOf(c.new)
NsIds(c) == {c.old.node, c.new.node} \ {"none"}

\* Two calls in progress, one of them past the difference, have only muddled domains in
\* common, and only muddled ones at all when they are for one stream or one node.
NsPairs ==
    \A a, b \in NsActors : a # b /\ NsChanges(a) /\ NsRuns(b) =>
        LET p == nsCall[a]
            q == nsCall[b]
        IN  /\ NsAll(p) \cap NsAll(q) \subseteq nsMuddled
            /\ p.rs = q.rs \/ NsIds(p) \cap NsIds(q) # {} => NsAll(p) \cup NsAll(q) \subseteq nsMuddled

\* A node that is registered on two streams has muddled domains there.
NsTwins ==
    /\ \A r, s \in NsStreams : r # s /\ nsSessions[r].node = nsSessions[s].node =>
            NsDomainsOf(nsSessions[r]) \subseteq nsMuddled
    /\ \A a \in NsActors, r \in NsStreams :
            NsChanges(a) /\ r # nsCall[a].rs /\ nsSessions[r].node \in NsIds(nsCall[a]) =>
                NsDomainsOf(nsSessions[r]) \cup NsAll(nsCall[a]) \subseteq nsMuddled

\* What a call knows about its session and its stream is still so, or its domains are muddled.
NsBasis ==
    \A a \in NsActors :
        LET c == nsCall[a]
            s == nsSessions[c.rs]
        IN  /\ c.pc \in NsBefore =>
                 /\ c.old = NsNoInfo
                 /\ \/ c.new = NsNoInfo \/ s.node \in {"none", c.new.node}
                    \/ NsDomainsOf(c.new) \cup NsDomainsOf(s) \subseteq nsMuddled
            /\ c.pc \in NsAfter =>
                 /\ c.old = s \/ NsDomainsOf(s) \cup NsAll(c) \subseteq nsMuddled
                 /\ c.new = NsNoInfo \/ c.old.node \in {"none", c.new.node} \/ NsAll(c) \subseteq nsMuddled
                 /\ nsLink[c.rs] \notin NsKept => NsDomainsOf(c.new) \subseteq nsMuddled

\* A stream whose onDisconnect() has begun has left the directory, is about to, or has muddled
\* domains.
NsLinks ==
    \A r \in NsStreams :
        /\ nsLink[r] \in NsKept => ~NsRuns(r)
        /\ NsRuns(r) => nsCall[r].rs = r /\ nsCall[r].new = NsNoInfo
        /\ nsLink[r] \notin NsKept /\ ~NsRuns(r) => NsDomainsOf(nsSessions[r]) \subseteq nsMuddled

NsControl == NsPairs /\ NsTwins /\ NsBasis /\ NsLinks

\* A slot that a list of operations is still to change.
NsPending(ops, d, m) == \E i \in 1 .. Len(ops) : ops[i].dom = d /\ m \in ops[i].cmds

\* The operations of a difference, or of what is left of it: each slot once.
NsOpsOK(ops, old, new) ==
    /\ \A i \in 1 .. Len(ops) :
          /\ ops[i].cmds # {}
          /\ \A m \in ops[i].cmds :
                /\ ops[i].kind = "del" => <<ops[i].dom, m>> \in old.regs /\ <<ops[i].dom, m>> \notin new.regs
                /\ ops[i].kind = "add" => <<ops[i].dom, m>> \in new.regs
    /\ \A i, j \in 1 .. Len(ops) : i # j /\ ops[i].dom = ops[j].dom => ops[i].cmds \cap ops[j].cmds = {}

NsWorks(c) ==
    /\ NsOpsOK(c.ops, c.old, c.new)
    /\ c.pc # "dom" => c.ops # <<>>
    /\ c.pc \in {"size", "erase"} => Head(c.ops).kind = "del"
NsWork == \A a \in NsActors : NsChanges(a) => NsWorks(nsCall[a])

\* An NSDomain belongs to one domain for good, an NSNodeSet to one command of one NSDomain;
\* so do the pointers to them that a call holds.
NsHeap ==
    /\ \A d \in NsDomains : nsDir[d] <= Len(nsDomObj)
    /\ \A o \in 1 .. Len(nsDomObj), m \in NsCmds : nsDomObj[o][m] <= Len(nsSetObj)
    /\ \A d, e \in NsDomains : nsDir[d] = nsDir[e] /\ nsDir[d] # 0 => d = e
    /\ \A o, p \in 1 .. Len(nsDomObj), m, k \in NsCmds :
          nsDomObj[o][m] = nsDomObj[p][k] /\ nsDomObj[o][m] # 0 => o = p /\ m = k
NsHolds(c) ==
    /\ c.pc = "mkdom" => c.d = 0
    /\ c.pc = "mkset" => c.ns = 0
    /\ c.pc \in {"cmd", "mkset", "node", "size", "erase"} =>
         /\ c.d \in 1 .. Len(nsDomObj)
         /\ \A d \in NsDomains : nsDir[d] = c.d => d = Head(c.ops).dom
    /\ c.pc \in {"node", "size", "erase"} =>
         /\ c.ns \in 1 .. Len(nsSetObj)
         /\ \A o \in 1 .. Len(nsDomObj), m \in NsCmds :
               nsDomObj[o][m] = c.ns => o = c.d /\ m = NsNextCmd(c)
NsHeld == \A a \in NsActors : NsHolds(nsCall[a])

\* In a domain that is not muddled a pointer that a call holds is still the one in the
\* directory, and a set that was empty still is.
NsPlaced(c) ==
    c.pc \in NsAfter \ {"dom"} /\ Head(c.ops).dom \notin nsMuddled =>
        /\ nsDir[Head(c.ops).dom] = c.d
        /\ c.pc \in {"mkset", "node", "size", "erase"} => nsDomObj[c.d][NsNextCmd(c)] = c.ns
        /\ c.pc = "erase" => \A n \in NsNodes : nsSetObj[c.ns][n] = 0
NsPlace == \A a \in NsActors : NsPlaced(nsCall[a])

\* What the directory should list for a slot.  For a call that has changed it already, or
\* has nothing to change, the new registration counts, before that the old one; for a
\* stream without such a call the session.
NsInfoHas(i, d, m, n, w) == i.node = n /\ i.weight = w /\ <<d, m>> \in i.regs
NsToDo(c, d, m) ==
    NsPending(c.ops, d, m) /\ ~(c.pc \in {"size", "erase"} /\ d = Head(c.ops).dom /\ m = NsNextCmd(c))
NsCallHas(c, d, m, n, w) == NsInfoHas(IF NsToDo(c, d, m) THEN c.old ELSE c.new, d, m, n, w)
NsTouches(a, d) == NsChanges(a) /\ d \in NsAll(nsCall[a])
NsOwed(d, m, n, w) ==
    \/ \E a \in NsActors : NsTouches(a, d) /\ NsCallHas(nsCall[a], d, m, n, w)
    \/ \E r \in NsStreams :
          /\ NsInfoHas(nsSessions[r], d, m, n, w)
          /\ \A a \in NsActors : ~(NsTouches(a, d) /\ nsCall[a].rs = r)
NsListing ==
    \A d \in NsDomains \ nsMuddled, m \in NsCmds, n \in NsNodes, w \in Nat \ {0} :
        NsListed(d, m, n) = w <=> NsOwed(d, m, n, w)

NsInv == NsTypeOK /\ NsControl /\ NsWork /\ NsHeap /\ NsHeld /\ NsPlace /\ NsListing

-----------------------------------------------------------------------------
(* Registrations, calls and clashes                                        *)

\* What the assumption says about a registration, or about none.
LEMMA NsInfoIs ==
  ASSUME NEW i \in NsAllInfos
  PROVE  /\ i.weight \in Nat /\ i.regs \subseteq NsDomains \X NsCmds /\ IsFiniteSet(i.regs)
         /\ NsDomainsOf(i) \subseteq NsDomains
         /\ i = NsNoInfo <=> i.node = "none"
         /\ i = NsNoInfo => NsDomainsOf(i) = {} /\ i.regs = {}
         /\ i # NsNoInfo => i.node \in NsNodes /\ i.weight \in Nat \ {0}
         /\ \A d, m : <<d, m>> \in i.regs => d \in NsDomainsOf(i) /\ d \in NsDomains /\ m \in NsCmds
<1>1. CASE i = NsNoInfo
  <2>1. i.weight = 0 /\ i.regs = {} /\ i.node = "none"
    BY <1>1 DEF NsNoInfo
  <2>2. NsDomainsOf(i) = {}
    BY <2>1 DEF NsDomainsOf
  <2> QED
    BY <1>1, <2>1, <2>2, FS_EmptySet
<1>2. CASE i # NsNoInfo
  <2>1. i \in NsInfos
    BY <1>2 DEF NsAllInfos
  <2>2. /\ i.weight \in Nat \ {0} /\ i.node # "none"
        /\ i.regs # {} /\ i.regs \subseteq NsDomains \X NsCmds /\ IsFiniteSet(i.regs)
    BY <2>1, NameServerAssumption
  <2>3. i.node \in NsNodes
    BY <2>1 DEF NsNodes
  <2>4. NsDomainsOf(i) \subseteq NsDomains
    BY <2>2 DEF NsDomainsOf
  <2>5. \A d, m : <<d, m>> \in i.regs => d \in NsDomainsOf(i) /\ d \in NsDomains /\ m \in NsCmds
    <3>1. ASSUME NEW d, NEW m, <<d, m>> \in i.regs PROVE d \in NsDomainsOf(i)
      <4>1. <<d, m>>[1] = d
        OBVIOUS
      <4> QED
        BY <3>1, <4>1 DEF NsDomainsOf
    <3> QED
      BY <3>1, <2>2
  <2> QED
    BY <1>2, <2>2, <2>3, <2>4, <2>5
<1> QED
  BY <1>1, <1>2

\* A call is in progress or is none.
LEMMA NsCallIs ==
  ASSUME NsTypeOK, NEW a \in NsActors
  PROVE  /\ NsRuns(a) => nsCall[a] \in NsCallSet /\ nsCall[a] # NsIdle
         /\ ~NsRuns(a) => nsCall[a] = NsIdle
         /\ nsCall[a].pc \in NsBefore \cup NsAfter => NsRuns(a)
         /\ NsRuns(a) => nsCall[a].pc \in NsBefore \cup NsAfter
<1>1. nsCall[a] \in {NsIdle} \cup NsCallSet
  BY DEF NsTypeOK
<1>2. \A c \in NsCallSet : c.pc \in NsBefore \cup NsAfter
  BY DEF NsCallSet
<1>3. \A x \in NsBefore \cup NsAfter : x # "idle"
  BY DEF NsBefore, NsAfter
<1>4. NsIdle.pc = "idle"
  BY DEF NsIdle
<1> QED
  BY <1>1, <1>2, <1>3, <1>4 DEF NsRuns

\* The domains that a call joins to the muddled ones.
LEMMA NsClashHas ==
  ASSUME NsTypeOK, NEW a \in NsActors, NEW rs \in NsStreams, NEW old, NEW new
  PROVE  LET mine == NsDomainsOf(old) \cup NsDomainsOf(new)
             ids == {old.node, new.node} \ {"none"}
             clash == NsClash(a, rs, old, new)
         IN  /\ \A b \in NsActors : b # a /\ NsRuns(b) =>
                   /\ mine \cap NsAll(nsCall[b]) \subseteq clash
                   /\ nsCall[b].rs = rs \/ NsIds(nsCall[b]) \cap ids # {} => mine \cup NsAll(nsCall[b]) \subseteq clash
             /\ \A r \in NsStreams : r # rs /\ nsSessions[r].node \in ids =>
                   mine \cup NsDomainsOf(nsSessions[r]) \subseteq clash
<1> DEFINE mine == NsDomainsOf(old) \cup NsDomainsOf(new)
           ids == {old.node, new.node} \ {"none"}
           clash == NsClash(a, rs, old, new)
           calls == {nsCall[b] : b \in {x \in NsActors \ {a} : nsCall[x] # NsIdle}}
           part(c) == IF c.rs = rs \/ NsIds(c) \cap ids # {} THEN mine \cup NsAll(c) ELSE mine \cap NsAll(c)
           side(t) == mine \cup NsDomainsOf(t)
           twins == {nsSessions[r] : r \in {x \in NsStreams \ {rs} : nsSessions[x].node \in ids}}
<1>1. clash = (UNION {part(c) : c \in calls}) \cup (UNION {side(t) : t \in twins})
  BY DEF NsClash, NsAll, NsIds
<1> HIDE DEF clash, mine, ids
<1>2. ASSUME NEW b \in NsActors, b # a, NsRuns(b) PROVE part(nsCall[b]) \subseteq clash
  <2>1. nsCall[b] # NsIdle
    BY <1>2, NsCallIs
  <2>2. nsCall[b] \in calls
    BY <2>1, <1>2
  <2> HIDE DEF calls, part
  <2> QED
    BY <2>2, <1>1
<1>3. ASSUME NEW r \in NsStreams, r # rs, nsSessions[r].node \in ids
      PROVE  mine \cup NsDomainsOf(nsSessions[r]) \subseteq clash
  <2>1. nsSessions[r] \in twins
    BY <1>3
  <2> HIDE DEF twins, part, calls, side
  <2>2. side(nsSessions[r]) \subseteq clash
    <3>1. side(nsSessions[r]) \in {side(t) : t \in twins}
      BY <2>1
    <3> DEFINE sides == {side(t) : t \in twins}
               parts == {part(x) : x \in calls}
    <3>2. clash = (UNION parts) \cup (UNION sides) /\ side(nsSessions[r]) \in sides
      BY <1>1, <3>1
    <3> HIDE DEF sides, parts
    <3> QED
      BY <3>2
  <2> QED
    BY <2>2 DEF side
<1>4. ASSUME NEW b \in NsActors, b # a, NsRuns(b)
      PROVE  /\ mine \cap NsAll(nsCall[b]) \subseteq clash
             /\ nsCall[b].rs = rs \/ NsIds(nsCall[b]) \cap ids # {} => mine \cup NsAll(nsCall[b]) \subseteq clash
  <2>1. part(nsCall[b]) \subseteq clash
    BY <1>2, <1>4
  <2>2. CASE nsCall[b].rs = rs \/ NsIds(nsCall[b]) \cap ids # {}
    BY <2>1, <2>2
  <2>3. CASE ~(nsCall[b].rs = rs \/ NsIds(nsCall[b]) \cap ids # {})
    BY <2>1, <2>3
  <2> QED
    BY <2>2, <2>3
<1> QED
  BY <1>3, <1>4 DEF mine, ids, clash

\* A call goes on with the directory: what it is about stays.
NsMoves(a) ==
    /\ UNCHANGED <<nsLink, nsSessions, nsMuddled>>
    /\ NsChanges(a)
    /\ \E c \in NsCallSet :
          /\ nsCall' = [nsCall EXCEPT ![a] = c]
          /\ c.pc \in NsAfter /\ c.rs = nsCall[a].rs /\ c.old = nsCall[a].old /\ c.new = nsCall[a].new

\* Such a step keeps what the calls know.
LEMMA NsMovesControl ==
  ASSUME NsTypeOK, NsControl, NEW a \in NsActors, NsMoves(a)
  PROVE  NsControl'
<1>1. PICK c \in NsCallSet :
          /\ nsCall' = [nsCall EXCEPT ![a] = c]
          /\ c.pc \in NsAfter /\ c.rs = nsCall[a].rs /\ c.old = nsCall[a].old /\ c.new = nsCall[a].new
  BY DEF NsMoves
<1>2. nsCall'[a] = c /\ \A b \in NsActors : b # a => nsCall'[b] = nsCall[b]
  BY <1>1 DEF NsTypeOK
<1>3. \A b \in NsActors :
         /\ NsChanges(b)' <=> NsChanges(b)
         /\ NsRuns(b)' <=> NsRuns(b)
         /\ nsCall'[b].pc \in NsBefore <=> nsCall[b].pc \in NsBefore
         /\ nsCall'[b].rs = nsCall[b].rs /\ nsCall'[b].old = nsCall[b].old /\ nsCall'[b].new = nsCall[b].new
  BY <1>1, <1>2 DEF NsMoves, NsChanges, NsRuns, NsAfter, NsBefore
<1>4. UNCHANGED <<nsLink, nsSessions, nsMuddled>>
  BY DEF NsMoves
<1>5. \A b \in NsActors : NsAll(nsCall'[b]) = NsAll(nsCall[b]) /\ NsIds(nsCall'[b]) = NsIds(nsCall[b])
  BY <1>3 DEF NsAll, NsIds
<1>6. NsPairs'
  BY <1>3, <1>4, <1>5 DEF NsControl, NsPairs
<1>7. NsTwins'
  BY <1>3, <1>4, <1>5 DEF NsControl, NsTwins
<1>8. NsBasis'
  BY <1>3, <1>4, <1>5 DEF NsControl, NsBasis, NsChanges
<1>9. NsLinks'
  BY <1>3, <1>4, NameServerAssumption DEF NsControl, NsLinks, NsActors
<1> QED
  BY <1>6, <1>7, <1>8, <1>9 DEF NsControl

-----------------------------------------------------------------------------
(* Which calls meet, and what they know                                    *)

\* A call begins.
LEMMA NsBeginControl ==
  ASSUME NsTypeOK, NsControl, NEW a \in NsActors, NEW rs \in NsStreams, NEW new \in NsAllInfos,
         ~NsRuns(a), NsBegin(a, rs, new), UNCHANGED nsSessions,
         new = NsNoInfo \/ nsSessions[rs].node \in {"none", new.node},
         \/ a \notin NsStreams /\ UNCHANGED nsLink
         \/ a = rs /\ new = NsNoInfo /\ nsLink' = [nsLink EXCEPT ![rs] = "closing"]
  PROVE  NsControl'
<1> DEFINE old == nsSessions[rs]
           c == nsCall'[a]
<1>1. /\ c.pc = "set" /\ c.rs = rs /\ c.old = NsNoInfo /\ c.new = new
      /\ \A b \in NsActors : b # a => nsCall'[b] = nsCall[b]
      /\ nsMuddled' = nsMuddled \cup NsClash(a, rs, old, new)
  BY DEF NsBegin, NsTypeOK
<1>2. NsDomainsOf(NsNoInfo) = {} /\ NsNoInfo.node = "none"
  BY DEF NsDomainsOf, NsNoInfo
<1>3. NsAll(c) = NsDomainsOf(new) /\ NsIds(c) = {new.node} \ {"none"}
  BY <1>1, <1>2 DEF NsAll, NsIds
<1>4. ~NsChanges(a)' /\ NsRuns(a)' /\ nsMuddled \subseteq nsMuddled'
      /\ \A b \in NsActors : b # a => (NsChanges(b)' <=> NsChanges(b)) /\ (NsRuns(b)' <=> NsRuns(b))
  BY <1>1 DEF NsChanges, NsRuns, NsAfter
<1>5. \A b \in NsActors : b # a /\ NsRuns(b) =>
         /\ NsAll(c) \cap NsAll(nsCall[b]) \subseteq nsMuddled'
         /\ nsCall[b].rs = rs \/ NsIds(nsCall[b]) \cap NsIds(c) # {} => NsAll(c) \cup NsAll(nsCall[b]) \subseteq nsMuddled'
  <2>1. ASSUME NEW b \in NsActors, b # a, NsRuns(b)
        PROVE  /\ (NsDomainsOf(old) \cup NsDomainsOf(new)) \cap NsAll(nsCall[b]) \subseteq NsClash(a, rs, old, new)
               /\ nsCall[b].rs = rs \/ NsIds(nsCall[b]) \cap ({old.node, new.node} \ {"none"}) # {} =>
                    NsDomainsOf(old) \cup NsDomainsOf(new) \cup NsAll(nsCall[b]) \subseteq NsClash(a, rs, old, new)
    BY <2>1, NsClashHas
  <2> HIDE DEF c, old
  <2> QED
    BY <2>1, <1>1, <1>3
<1> HIDE DEF c, old
<1>6. \A b \in NsActors : NsChanges(b)' => b # a /\ NsChanges(b) /\ NsRuns(b) /\ nsCall'[b] = nsCall[b]
  BY <1>1, <1>4 DEF NsChanges, NsRuns, NsAfter
<1>7. NsPairs'
  <2> SUFFICES ASSUME NEW x \in NsActors, NEW y \in NsActors, x # y, NsChanges(x)', NsRuns(y)'
               PROVE  /\ NsAll(nsCall'[x]) \cap NsAll(nsCall'[y]) \subseteq nsMuddled'
                      /\ nsCall'[x].rs = nsCall'[y].rs \/ NsIds(nsCall'[x]) \cap NsIds(nsCall'[y]) # {} =>
                            NsAll(nsCall'[x]) \cup NsAll(nsCall'[y]) \subseteq nsMuddled'
    BY DEF NsPairs
  <2>1. CASE y = a
    BY <2>1, <1>1, <1>5, <1>6 DEF c
  <2>2. CASE y # a
    <3>1. nsCall'[x] = nsCall[x] /\ nsCall'[y] = nsCall[y] /\ NsChanges(x) /\ NsRuns(y)
      BY <2>2, <1>1, <1>4, <1>6
    <3>2. /\ NsAll(nsCall[x]) \cap NsAll(nsCall[y]) \subseteq nsMuddled
          /\ nsCall[x].rs = nsCall[y].rs \/ NsIds(nsCall[x]) \cap NsIds(nsCall[y]) # {} =>
                NsAll(nsCall[x]) \cup NsAll(nsCall[y]) \subseteq nsMuddled
      BY <3>1 DEF NsControl, NsPairs
    <3> QED
      BY <3>1, <3>2, <1>4
  <2> QED
    BY <2>1, <2>2
<1>8. NsTwins'
  <2>1. \A r, s \in NsStreams : r # s /\ nsSessions[r].node = nsSessions[s].node =>
            NsDomainsOf(nsSessions[r]) \subseteq nsMuddled
    BY DEF NsControl, NsTwins
  <2>2. \A b \in NsActors, r \in NsStreams :
            NsChanges(b) /\ r # nsCall[b].rs /\ nsSessions[r].node \in NsIds(nsCall[b]) =>
                NsDomainsOf(nsSessions[r]) \cup NsAll(nsCall[b]) \subseteq nsMuddled
    BY DEF NsControl, NsTwins
  <2>3. \A r, s \in NsStreams : r # s /\ nsSessions'[r].node = nsSessions'[s].node =>
            NsDomainsOf(nsSessions'[r]) \subseteq nsMuddled'
    BY <2>1, <1>4
  <2>4. \A b \in NsActors, r \in NsStreams :
            NsChanges(b)' /\ r # nsCall'[b].rs /\ nsSessions'[r].node \in NsIds(nsCall'[b]) =>
                NsDomainsOf(nsSessions'[r]) \cup NsAll(nsCall'[b]) \subseteq nsMuddled'
    BY <2>2, <1>4, <1>6
  <2> QED
    BY <2>3, <2>4 DEF NsTwins
<1>9. NsBasis'
  <2> SUFFICES ASSUME NEW b \in NsActors
               PROVE  LET k == nsCall'[b]
                          s == nsSessions'[k.rs]
                      IN  /\ k.pc \in NsBefore =>
                               /\ k.old = NsNoInfo
                               /\ \/ k.new = NsNoInfo \/ s.node \in {"none", k.new.node}
                                  \/ NsDomainsOf(k.new) \cup NsDomainsOf(s) \subseteq nsMuddled'
                          /\ k.pc \in NsAfter =>
                               /\ k.old = s \/ NsDomainsOf(s) \cup NsAll(k) \subseteq nsMuddled'
                               /\ k.new = NsNoInfo \/ k.old.node \in {"none", k.new.node} \/ NsAll(k) \subseteq nsMuddled'
                               /\ nsLink'[k.rs] \notin NsKept => NsDomainsOf(k.new) \subseteq nsMuddled'
    BY DEF NsBasis
  <2>1. CASE b = a
    BY <2>1, <1>1 DEF c, NsAfter
  <2>2. CASE b # a
    <3>1. nsCall'[b] = nsCall[b]
      BY <2>2, <1>1
    <3>2. LET k == nsCall[b]
              s == nsSessions[k.rs]
          IN  /\ k.pc \in NsBefore =>
                   /\ k.old = NsNoInfo
                   /\ \/ k.new = NsNoInfo \/ s.node \in {"none", k.new.node}
                      \/ NsDomainsOf(k.new) \cup NsDomainsOf(s) \subseteq nsMuddled
              /\ k.pc \in NsAfter =>
                   /\ k.old = s \/ NsDomainsOf(s) \cup NsAll(k) \subseteq nsMuddled
                   /\ k.new = NsNoInfo \/ k.old.node \in {"none", k.new.node} \/ NsAll(k) \subseteq nsMuddled
                   /\ nsLink[k.rs] \notin NsKept => NsDomainsOf(k.new) \subseteq nsMuddled
      BY DEF NsControl, NsBasis
    <3>3. ASSUME nsCall[b].pc \in NsAfter, nsLink'[nsCall[b].rs] \notin NsKept
          PROVE  NsDomainsOf(nsCall[b].new) \subseteq nsMuddled'
      <4>1. NsRuns(b) /\ nsCall[b] \in NsCallSet
        BY <3>3, NsCallIs
      <4>2. CASE nsCall[b].rs = rs /\ a = rs
        <5>1. NsAll(nsCall[b]) \subseteq nsMuddled'
          BY <4>1, <4>2, <2>2, <1>5
        <5> QED
          BY <5>1 DEF NsAll
      <4>3. CASE ~(nsCall[b].rs = rs /\ a = rs)
        <5>1. nsCall[b].rs \in NsStreams
          BY <4>1 DEF NsCallSet
        <5>2. nsLink'[nsCall[b].rs] = nsLink[nsCall[b].rs]
          BY <4>3, <5>1 DEF NsTypeOK
        <5> QED
          BY <5>2, <3>2, <3>3, <1>4
      <4> QED
        BY <4>2, <4>3
    <3> QED
      BY <3>1, <3>2, <3>3, <1>4
  <2> QED
    BY <2>1, <2>2
<1>10. NsLinks'
  <2> SUFFICES ASSUME NEW r \in NsStreams
               PROVE  /\ nsLink'[r] \in NsKept => ~NsRuns(r)'
                      /\ NsRuns(r)' => nsCall'[r].rs = r /\ nsCall'[r].new = NsNoInfo
                      /\ nsLink'[r] \notin NsKept /\ ~NsRuns(r)' => NsDomainsOf(nsSessions'[r]) \subseteq nsMuddled'
    BY DEF NsLinks
  <2>0. r \in NsActors
    BY DEF NsActors
  <2>1. CASE r = a
    <3>1. a = rs /\ new = NsNoInfo /\ nsLink'[r] \notin NsKept
      BY <2>1 DEF NsTypeOK, NsKept
    <3> QED
      BY <2>1, <3>1, <1>1, <1>4 DEF c
  <2>2. CASE r # a
    <3>1. nsLink'[r] = nsLink[r]
      BY <2>2 DEF NsTypeOK
    <3>2. nsCall'[r] = nsCall[r] /\ (NsRuns(r)' <=> NsRuns(r))
      BY <2>0, <2>2, <1>1, <1>4
    <3>3. /\ nsLink[r] \in NsKept => ~NsRuns(r)
          /\ NsRuns(r) => nsCall[r].rs = r /\ nsCall[r].new = NsNoInfo
          /\ nsLink[r] \notin NsKept /\ ~NsRuns(r) => NsDomainsOf(nsSessions[r]) \subseteq nsMuddled
      BY DEF NsControl, NsLinks
    <3> QED
      BY <3>1, <3>2, <3>3, <1>4
  <2> QED
    BY <2>1, <2>2
<1> QED
  BY <1>7, <1>8, <1>9, <1>10 DEF NsControl

\* The call is still before the difference.
LEMMA NsConnectedControl ==
  ASSUME NsTypeOK, NsControl, NEW a \in NsActors, SetConnected(a)
  PROVE  NsControl'
<1> DEFINE k == nsCall[a]
           c == nsCall'[a]
<1>0. NsRuns(a) /\ k \in NsCallSet /\ k.pc = "set" /\ k.pc \in NsBefore
  BY NsCallIs DEF SetConnected, NsRuns, NsBefore
<1>1. /\ c = [k EXCEPT !.pc = "diff", !.new = IF nsLink[k.rs] \in NsConnected THEN k.new ELSE NsNoInfo]
      /\ \A b \in NsActors : b # a => nsCall'[b] = nsCall[b]
      /\ UNCHANGED <<nsLink, nsSessions, nsMuddled>>
  BY DEF SetConnected, NsTypeOK
<1>2. c.pc = "diff" /\ c.rs = k.rs /\ c.old = k.old /\ c.new \in {k.new, NsNoInfo}
  BY <1>0, <1>1 DEF NsCallSet
<1>3. NsDomainsOf(NsNoInfo) = {} /\ NsNoInfo.node = "none"
  BY DEF NsDomainsOf, NsNoInfo
<1>4. NsAll(c) \subseteq NsAll(k) /\ NsIds(c) \subseteq NsIds(k)
  BY <1>2, <1>3 DEF NsAll, NsIds
<1>5. \A b \in NsActors : (NsChanges(b)' <=> NsChanges(b)) /\ (NsRuns(b)' <=> NsRuns(b))
  BY <1>0, <1>1, <1>2 DEF NsChanges, NsRuns, NsAfter
<1>6. ~NsChanges(a)
  BY <1>0 DEF NsChanges, NsAfter
<1> HIDE DEF c, k
<1>7. NsPairs'
  <2> SUFFICES ASSUME NEW x \in NsActors, NEW y \in NsActors, x # y, NsChanges(x)', NsRuns(y)'
               PROVE  /\ NsAll(nsCall'[x]) \cap NsAll(nsCall'[y]) \subseteq nsMuddled'
                      /\ nsCall'[x].rs = nsCall'[y].rs \/ NsIds(nsCall'[x]) \cap NsIds(nsCall'[y]) # {} =>
                            NsAll(nsCall'[x]) \cup NsAll(nsCall'[y]) \subseteq nsMuddled'
    BY DEF NsPairs
  <2>1. NsChanges(x) /\ NsRuns(y) /\ x # a /\ nsCall'[x] = nsCall[x]
    BY <1>1, <1>5, <1>6
  <2>2. /\ NsAll(nsCall[x]) \cap NsAll(nsCall[y]) \subseteq nsMuddled
        /\ nsCall[x].rs = nsCall[y].rs \/ NsIds(nsCall[x]) \cap NsIds(nsCall[y]) # {} =>
                NsAll(nsCall[x]) \cup NsAll(nsCall[y]) \subseteq nsMuddled
    BY <2>1 DEF NsControl, NsPairs
  <2>3. NsAll(nsCall'[y]) \subseteq NsAll(nsCall[y]) /\ NsIds(nsCall'[y]) \subseteq NsIds(nsCall[y])
        /\ nsCall'[y].rs = nsCall[y].rs
    BY <1>1, <1>2, <1>4 DEF c, k
  <2> QED
    BY <2>1, <2>2, <2>3, <1>1
<1>8. NsTwins'
  <2>1. \A b \in NsActors : NsChanges(b)' => NsChanges(b) /\ nsCall'[b] = nsCall[b]
    BY <1>1, <1>5, <1>6
  <2> QED
    BY <2>1, <1>1 DEF NsControl, NsTwins
<1>9. NsBasis'
  <2>1. \A b \in NsActors : b # a => nsCall'[b] = nsCall[b]
    BY <1>1
  <2>2. /\ k.old = NsNoInfo
        /\ \/ k.new = NsNoInfo \/ nsSessions[k.rs].node \in {"none", k.new.node}
           \/ NsDomainsOf(k.new) \cup NsDomainsOf(nsSessions[k.rs]) \subseteq nsMuddled
    BY <1>0 DEF NsControl, NsBasis, k
  <2>3. /\ c.pc \notin NsAfter /\ c.old = NsNoInfo
        /\ \/ c.new = NsNoInfo \/ nsSessions[c.rs].node \in {"none", c.new.node}
           \/ NsDomainsOf(c.new) \cup NsDomainsOf(nsSessions[c.rs]) \subseteq nsMuddled
    BY <2>2, <1>2 DEF NsAfter
  <2> QED
    BY <2>1, <2>3, <1>1 DEF NsControl, NsBasis, c
<1>10. NsLinks'
  <2>1. \A r \in NsStreams : r \in NsActors
    BY DEF NsActors
  <2>2. \A r \in NsStreams : NsRuns(r) => nsCall'[r].rs = nsCall[r].rs /\ nsCall'[r].new \in {nsCall[r].new, NsNoInfo}
    BY <2>1, <1>1, <1>2 DEF c, k
  <2> QED
    BY <2>1, <2>2, <1>1, <1>5 DEF NsControl, NsLinks
<1> QED
  BY <1>7, <1>8, <1>9, <1>10 DEF NsControl

\* The difference is taken.
LEMMA NsDiffControl ==
  ASSUME NsTypeOK, NsControl, NEW a \in NsActors, SetDiff(a)
  PROVE  NsControl'
<1> DEFINE k == nsCall[a]
           c == nsCall'[a]
           s == nsSessions[k.rs]
<1>0. NsRuns(a) /\ k \in NsCallSet /\ k.pc = "diff" /\ k.pc \in NsBefore /\ k.rs \in NsStreams
  BY NsCallIs DEF SetDiff, NsRuns, NsBefore, NsCallSet
<1>1. /\ c = [k EXCEPT !.pc = "dom", !.old = s, !.ops = NsDiff(s, k.new)]
      /\ \A b \in NsActors : b # a => nsCall'[b] = nsCall[b]
      /\ UNCHANGED <<nsLink, nsSessions>>
      /\ nsMuddled' = nsMuddled \cup NsClash(a, k.rs, s, k.new)
                          \cup (IF nsLink[k.rs] \in NsKept THEN {} ELSE NsDomainsOf(k.new))
  BY DEF SetDiff, NsTypeOK
<1>2. c.pc = "dom" /\ c.rs = k.rs /\ c.old = s /\ c.new = k.new
  BY <1>0, <1>1 DEF NsCallSet
<1>3. NsAll(c) = NsDomainsOf(s) \cup NsDomainsOf(k.new) /\ NsIds(c) = {s.node, k.new.node} \ {"none"}
  BY <1>2 DEF NsAll, NsIds
<1>4. /\ NsChanges(a)' /\ NsRuns(a)' /\ nsMuddled \subseteq nsMuddled'
      /\ \A b \in NsActors : b # a => (NsChanges(b)' <=> NsChanges(b)) /\ (NsRuns(b)' <=> NsRuns(b))
  BY <1>1, <1>2 DEF NsChanges, NsRuns, NsAfter
<1>5. /\ \A b \in NsActors : b # a /\ NsRuns(b) =>
            /\ NsAll(c) \cap NsAll(nsCall[b]) \subseteq nsMuddled'
            /\ nsCall[b].rs = c.rs \/ NsIds(nsCall[b]) \cap NsIds(c) # {} =>
                  NsAll(c) \cup NsAll(nsCall[b]) \subseteq nsMuddled'
      /\ \A r \in NsStreams : r # c.rs /\ nsSessions[r].node \in NsIds(c) =>
            NsAll(c) \cup NsDomainsOf(nsSessions[r]) \subseteq nsMuddled'
  <2>1. /\ \A b \in NsActors : b # a /\ NsRuns(b) =>
              /\ (NsDomainsOf(s) \cup NsDomainsOf(k.new)) \cap NsAll(nsCall[b]) \subseteq NsClash(a, k.rs, s, k.new)
              /\ nsCall[b].rs = k.rs \/ NsIds(nsCall[b]) \cap ({s.node, k.new.node} \ {"none"}) # {} =>
                    (NsDomainsOf(s) \cup NsDomainsOf(k.new)) \cup NsAll(nsCall[b]) \subseteq NsClash(a, k.rs, s, k.new)
        /\ \A r \in NsStreams : r # k.rs /\ nsSessions[r].node \in {s.node, k.new.node} \ {"none"} =>
              (NsDomainsOf(s) \cup NsDomainsOf(k.new)) \cup NsDomainsOf(nsSessions[r]) \subseteq NsClash(a, k.rs, s, k.new)
    BY <1>0, NsClashHas
  <2>2. NsClash(a, k.rs, s, k.new) \subseteq nsMuddled'
    BY <1>1
  <2> HIDE DEF c, s, k
  <2> QED
    BY <2>1, <2>2, <1>2, <1>3
<1> HIDE DEF c, k, s
<1>7. NsPairs'
  <2> SUFFICES ASSUME NEW x \in NsActors, NEW y \in NsActors, x # y, NsChanges(x)', NsRuns(y)'
               PROVE  /\ NsAll(nsCall'[x]) \cap NsAll(nsCall'[y]) \subseteq nsMuddled'
                      /\ nsCall'[x].rs = nsCall'[y].rs \/ NsIds(nsCall'[x]) \cap NsIds(nsCall'[y]) # {} =>
                            NsAll(nsCall'[x]) \cup NsAll(nsCall'[y]) \subseteq nsMuddled'
    BY DEF NsPairs
  <2>1. CASE y = a
    <3>1. NsRuns(x) /\ nsCall'[x] = nsCall[x] /\ nsCall'[y] = c
      BY <2>1, <1>1, <1>4 DEF NsChanges, NsRuns, NsAfter, c
    <3> QED
      BY <2>1, <3>1, <1>5
  <2>2. CASE x = a
    <3>1. NsRuns(y) /\ nsCall'[y] = nsCall[y] /\ nsCall'[x] = c
      BY <2>2, <1>1, <1>4 DEF c
    <3> QED
      BY <2>2, <3>1, <1>5
  <2>3. CASE x # a /\ y # a
    <3>1. nsCall'[x] = nsCall[x] /\ nsCall'[y] = nsCall[y] /\ NsChanges(x) /\ NsRuns(y)
      BY <2>3, <1>1, <1>4
    <3>2. /\ NsAll(nsCall[x]) \cap NsAll(nsCall[y]) \subseteq nsMuddled
          /\ nsCall[x].rs = nsCall[y].rs \/ NsIds(nsCall[x]) \cap NsIds(nsCall[y]) # {} =>
                NsAll(nsCall[x]) \cup NsAll(nsCall[y]) \subseteq nsMuddled
      BY <3>1 DEF NsControl, NsPairs
    <3> QED
      BY <3>1, <3>2, <1>4
  <2> QED
    BY <2>1, <2>2, <2>3
<1>8. NsTwins'
  <2>1. \A r, t \in NsStreams : r # t /\ nsSessions'[r].node = nsSessions'[t].node =>
            NsDomainsOf(nsSessions'[r]) \subseteq nsMuddled'
    BY <1>1, <1>4 DEF NsControl, NsTwins
  <2>2. ASSUME NEW b \in NsActors, NEW r \in NsStreams,
               NsChanges(b)', r # nsCall'[b].rs, nsSessions'[r].node \in NsIds(nsCall'[b])
        PROVE  NsDomainsOf(nsSessions'[r]) \cup NsAll(nsCall'[b]) \subseteq nsMuddled'
    <3>1. CASE b = a
      BY <3>1, <2>2, <1>1, <1>5 DEF c
    <3>2. CASE b # a
      <4>1. nsCall'[b] = nsCall[b] /\ NsChanges(b)
        BY <3>2, <2>2, <1>1, <1>4
      <4>2. NsDomainsOf(nsSessions[r]) \cup NsAll(nsCall[b]) \subseteq nsMuddled
        BY <4>1, <2>2, <1>1 DEF NsControl, NsTwins
      <4> QED
        BY <4>1, <4>2, <1>1, <1>4
    <3> QED
      BY <3>1, <3>2
  <2> QED
    BY <2>1, <2>2 DEF NsTwins
<1>9. NsBasis'
  <2>1. /\ k.old = NsNoInfo
        /\ \/ k.new = NsNoInfo \/ s.node \in {"none", k.new.node}
           \/ NsDomainsOf(k.new) \cup NsDomainsOf(s) \subseteq nsMuddled
    BY <1>0 DEF NsControl, NsBasis, k, s
  <2>2. /\ c.pc \notin NsBefore
        /\ c.old = nsSessions'[c.rs]
        /\ c.new = NsNoInfo \/ c.old.node \in {"none", c.new.node} \/ NsAll(c) \subseteq nsMuddled'
        /\ nsLink'[c.rs] \notin NsKept => NsDomainsOf(c.new) \subseteq nsMuddled'
    <3>1. nsLink[k.rs] \notin NsKept => NsDomainsOf(k.new) \subseteq nsMuddled'
      BY <1>1
    <3>2. c.pc \notin NsBefore
      BY <1>2 DEF NsBefore
    <3> QED
      BY <2>1, <3>1, <3>2, <1>1, <1>2, <1>3, <1>4 DEF s
  <2>3. ASSUME NEW b \in NsActors, b # a
        PROVE  LET q == nsCall'[b]
                   t == nsSessions'[q.rs]
               IN  /\ q.pc \in NsBefore =>
                        /\ q.old = NsNoInfo
                        /\ \/ q.new = NsNoInfo \/ t.node \in {"none", q.new.node}
                           \/ NsDomainsOf(q.new) \cup NsDomainsOf(t) \subseteq nsMuddled'
                   /\ q.pc \in NsAfter =>
                        /\ q.old = t \/ NsDomainsOf(t) \cup NsAll(q) \subseteq nsMuddled'
                        /\ q.new = NsNoInfo \/ q.old.node \in {"none", q.new.node} \/ NsAll(q) \subseteq nsMuddled'
                        /\ nsLink'[q.rs] \notin NsKept => NsDomainsOf(q.new) \subseteq nsMuddled'
    <3>1. nsCall'[b] = nsCall[b]
      BY <2>3, <1>1
    <3> QED
      BY <3>1, <1>1, <1>4 DEF NsControl, NsBasis
  <2> QED
    BY <2>2, <2>3 DEF NsBasis, c
<1>10. NsLinks'
  <2>1. \A r \in NsStreams : r \in NsActors
    BY DEF NsActors
  <2>2. \A b \in NsActors : (NsRuns(b)' <=> NsRuns(b)) /\ (NsRuns(b) => nsCall'[b].rs = nsCall[b].rs /\ nsCall'[b].new = nsCall[b].new)
    BY <1>0, <1>1, <1>2, <1>4 DEF c, k
  <2>3. \A r \in NsStreams : nsLink[r] \notin NsKept /\ ~NsRuns(r) => NsDomainsOf(nsSessions[r]) \subseteq nsMuddled
    BY DEF NsControl, NsLinks
  <2> QED
    BY <2>1, <2>2, <2>3, <1>1, <1>4 DEF NsControl, NsLinks
<1> QED
  BY <1>7, <1>8, <1>9, <1>10 DEF NsControl

\* The session is written.
LEMMA NsSessionControl ==
  ASSUME NsTypeOK, NsControl, NEW a \in NsActors, SetSession(a)
  PROVE  NsControl'
<1> DEFINE c == nsCall[a]
<1>0. NsRuns(a) /\ c \in NsCallSet /\ NsChanges(a) /\ c.rs \in NsStreams /\ c.new \in NsAllInfos
  BY NsCallIs DEF SetSession, NsRuns, NsChanges, NsAfter, NsCallSet
<1>1. /\ nsCall'[a] = NsIdle
      /\ \A b \in NsActors : b # a => nsCall'[b] = nsCall[b]
      /\ UNCHANGED <<nsLink, nsMuddled>>
      /\ nsSessions'[c.rs] = c.new
      /\ \A r \in NsStreams : r # c.rs => nsSessions'[r] = nsSessions[r]
  BY <1>0 DEF SetSession, NsTypeOK
<1>2. /\ ~NsRuns(a)' /\ ~NsChanges(a)'
      /\ \A b \in NsActors : b # a => (NsChanges(b)' <=> NsChanges(b)) /\ (NsRuns(b)' <=> NsRuns(b))
  BY <1>1 DEF NsRuns, NsChanges, NsIdle, NsAfter
<1>3. \A b \in NsActors : b # a /\ NsRuns(b) =>
         (nsCall[b].rs = c.rs \/ NsIds(nsCall[b]) \cap NsIds(c) # {} =>
            NsAll(c) \cup NsAll(nsCall[b]) \subseteq nsMuddled)
  BY <1>0 DEF NsControl, NsPairs
<1>4. NsDomainsOf(c.new) \subseteq NsAll(c) /\ (c.new.node # "none" => c.new.node \in NsIds(c))
  BY DEF NsAll, NsIds
<1>5. \A r \in NsStreams : r # c.rs /\ nsSessions[r].node = c.new.node =>
         NsDomainsOf(nsSessions[r]) \subseteq nsMuddled /\ NsDomainsOf(c.new) \subseteq nsMuddled
  <2> SUFFICES ASSUME NEW r \in NsStreams, r # c.rs, nsSessions[r].node = c.new.node
               PROVE  NsDomainsOf(nsSessions[r]) \subseteq nsMuddled /\ NsDomainsOf(c.new) \subseteq nsMuddled
    OBVIOUS
  <2>1. CASE c.new.node = "none"
    <3>1. nsSessions[r] \in NsAllInfos
      BY DEF NsTypeOK
    <3>2. NsDomainsOf(c.new) = {} /\ NsDomainsOf(nsSessions[r]) = {}
      BY <2>1, <3>1, <1>0, NsInfoIs
    <3> QED
      BY <3>2
  <2>2. CASE c.new.node # "none"
    <3>1. NsDomainsOf(nsSessions[r]) \cup NsAll(c) \subseteq nsMuddled
      BY <2>2, <1>0, <1>4 DEF NsControl, NsTwins
    <3> QED
      BY <3>1, <1>4
  <2> QED
    BY <2>1, <2>2
<1>6. \A b \in NsActors : NsChanges(b) => NsRuns(b)
  BY DEF NsChanges, NsRuns, NsAfter
<1> HIDE DEF c
<1>7. NsPairs'
  <2>1. \A b \in NsActors : NsRuns(b)' => b # a /\ nsCall'[b] = nsCall[b] /\ NsRuns(b)
    BY <1>1, <1>2
  <2>2. \A b \in NsActors : NsChanges(b)' => b # a /\ nsCall'[b] = nsCall[b] /\ NsChanges(b)
    BY <1>1, <1>2
  <2> QED
    BY <2>1, <2>2, <1>1 DEF NsControl, NsPairs
<1>8. NsTwins'
  <2>1. ASSUME NEW r \in NsStreams, NEW t \in NsStreams, r # t, nsSessions'[r].node = nsSessions'[t].node
        PROVE  NsDomainsOf(nsSessions'[r]) \subseteq nsMuddled'
    <3>1. CASE r = c.rs
      BY <3>1, <2>1, <1>1, <1>5
    <3>2. CASE t = c.rs
      BY <3>2, <2>1, <1>1, <1>5
    <3>3. CASE r # c.rs /\ t # c.rs
      BY <3>3, <2>1, <1>1 DEF NsControl, NsTwins
    <3> QED
      BY <3>1, <3>2, <3>3
  <2>2. ASSUME NEW b \in NsActors, NEW r \in NsStreams,
               NsChanges(b)', r # nsCall'[b].rs, nsSessions'[r].node \in NsIds(nsCall'[b])
        PROVE  NsDomainsOf(nsSessions'[r]) \cup NsAll(nsCall'[b]) \subseteq nsMuddled'
    <3>0. b # a /\ nsCall'[b] = nsCall[b] /\ NsChanges(b) /\ NsRuns(b)
      BY <2>2, <1>1, <1>2, <1>6
    <3>1. CASE r = c.rs
      <4>1. c.new.node \in NsIds(nsCall[b]) /\ c.new.node # "none"
        BY <3>0, <3>1, <2>2, <1>1 DEF NsIds
      <4>2. NsAll(c) \cup NsAll(nsCall[b]) \subseteq nsMuddled
        BY <4>1, <3>0, <1>3, <1>4
      <4> QED
        BY <4>2, <3>0, <3>1, <1>1, <1>4
    <3>2. CASE r # c.rs
      BY <3>0, <3>2, <2>2, <1>1 DEF NsControl, NsTwins
    <3> QED
      BY <3>1, <3>2
  <2> QED
    BY <2>1, <2>2 DEF NsTwins
<1>9. NsBasis'
  <2> SUFFICES ASSUME NEW b \in NsActors
               PROVE  LET q == nsCall'[b]
                          t == nsSessions'[q.rs]
                      IN  /\ q.pc \in NsBefore =>
                               /\ q.old = NsNoInfo
                               /\ \/ q.new = NsNoInfo \/ t.node \in {"none", q.new.node}
                                  \/ NsDomainsOf(q.new) \cup NsDomainsOf(t) \subseteq nsMuddled'
                          /\ q.pc \in NsAfter =>
                               /\ q.old = t \/ NsDomainsOf(t) \cup NsAll(q) \subseteq nsMuddled'
                               /\ q.new = NsNoInfo \/ q.old.node \in {"none", q.new.node} \/ NsAll(q) \subseteq nsMuddled'
                               /\ nsLink'[q.rs] \notin NsKept => NsDomainsOf(q.new) \subseteq nsMuddled'
    BY DEF NsBasis
  <2>1. CASE b = a \/ ~NsRuns(b)
    <3>1. nsCall'[b].pc = "idle"
      BY <2>1, <1>1 DEF NsIdle, NsRuns
    <3> QED
      BY <3>1 DEF NsBefore, NsAfter
  <2>2. CASE b # a /\ NsRuns(b)
    <3>1. nsCall'[b] = nsCall[b] /\ nsCall[b].rs \in NsStreams
      BY <2>2, <1>1, NsCallIs DEF NsCallSet
    <3>2. LET q == nsCall[b]
              t == nsSessions[q.rs]
          IN  /\ q.pc \in NsBefore =>
                   /\ q.old = NsNoInfo
                   /\ \/ q.new = NsNoInfo \/ t.node \in {"none", q.new.node}
                      \/ NsDomainsOf(q.new) \cup NsDomainsOf(t) \subseteq nsMuddled
              /\ q.pc \in NsAfter =>
                   /\ q.old = t \/ NsDomainsOf(t) \cup NsAll(q) \subseteq nsMuddled
                   /\ q.new = NsNoInfo \/ q.old.node \in {"none", q.new.node} \/ NsAll(q) \subseteq nsMuddled
                   /\ nsLink[q.rs] \notin NsKept => NsDomainsOf(q.new) \subseteq nsMuddled
      BY DEF NsControl, NsBasis
    <3>3. CASE nsCall[b].rs = c.rs
      <4>1. NsAll(c) \cup NsAll(nsCall[b]) \subseteq nsMuddled
        BY <2>2, <3>3, <1>3
      <4>2. /\ NsDomainsOf(nsSessions'[nsCall[b].rs]) \subseteq nsMuddled
            /\ NsDomainsOf(nsCall[b].new) \subseteq nsMuddled
        BY <4>1, <3>3, <1>1, <1>4 DEF NsAll
      <4> QED
        BY <4>1, <4>2, <3>1, <3>2, <1>1
    <3>4. CASE nsCall[b].rs # c.rs
      BY <3>1, <3>2, <3>4, <1>1
    <3> QED
      BY <3>3, <3>4
  <2> QED
    BY <2>1, <2>2
<1>10. NsLinks'
  <2> SUFFICES ASSUME NEW r \in NsStreams
               PROVE  /\ nsLink'[r] \in NsKept => ~NsRuns(r)'
                      /\ NsRuns(r)' => nsCall'[r].rs = r /\ nsCall'[r].new = NsNoInfo
                      /\ nsLink'[r] \notin NsKept /\ ~NsRuns(r)' => NsDomainsOf(nsSessions'[r]) \subseteq nsMuddled'
    BY DEF NsLinks
  <2>0. r \in NsActors
    BY DEF NsActors
  <2>1. /\ nsLink[r] \in NsKept => ~NsRuns(r)
        /\ NsRuns(r) => nsCall[r].rs = r /\ nsCall[r].new = NsNoInfo
        /\ nsLink[r] \notin NsKept /\ ~NsRuns(r) => NsDomainsOf(nsSessions[r]) \subseteq nsMuddled
    BY DEF NsControl, NsLinks
  <2>2. CASE r = a
    <3>1. nsSessions'[r] = NsNoInfo
      BY <2>1, <2>2, <1>0, <1>1 DEF c
    <3>2. NsDomainsOf(nsSessions'[r]) = {}
      BY <3>1 DEF NsDomainsOf, NsNoInfo
    <3> QED
      BY <3>2, <2>2, <1>2
  <2>3. CASE r # a /\ r = c.rs
    <3>1. nsLink[r] \notin NsKept => NsDomainsOf(c.new) \subseteq nsMuddled
      BY <2>3, <1>0 DEF NsControl, NsBasis, NsChanges, c
    <3> QED
      BY <3>1, <2>0, <2>1, <2>3, <1>1, <1>2
  <2>4. CASE r # a /\ r # c.rs
    BY <2>0, <2>1, <2>4, <1>1, <1>2
  <2> QED
    BY <2>2, <2>3, <2>4
<1> QED
  BY <1>7, <1>8, <1>9, <1>10 DEF NsControl

-----------------------------------------------------------------------------
(* The difference                                                          *)

\* A list of the members of a finite set.
LEMMA NsListOf ==
  ASSUME NEW S, IsFiniteSet(S), NEW s, s = SetToSeq(S)
  PROVE  /\ s \in Seq(S)
         /\ \A x \in S : \E i \in 1 .. Len(s) : s[i] = x
         /\ \A i, j \in 1 .. Len(s) : i # j => s[i] # s[j]
<1> DEFINE n == Cardinality(S)
<1>1. n \in Nat /\ ExistsBijection(1 .. n, S)
  BY FS_CardinalityType
<1>2. PICK f : f \in Bijection(1 .. n, S)
  BY <1>1 DEF ExistsBijection
<1>3. f \in [1 .. n -> S] /\ IsInjective(f)
  BY <1>2 DEF Bijection, Injection, Surjection, IsInjective
<1>4. s \in [1 .. n -> S] /\ IsInjective(s)
  BY <1>3 DEF SetToSeq
<1>5. s \in Injection(1 .. n, S)
  BY <1>4 DEF Injection
<1>6. IsFiniteSet(1 .. n) /\ Cardinality(1 .. n) = n
  BY <1>1, FS_Interval
<1>7. s \in Surjection(1 .. n, S)
  BY <1>5, <1>6, FS_Injection
<1>8. s \in Seq(S) /\ Len(s) = n
  BY <1>1, <1>4
<1> HIDE DEF n
<1>9. \A x \in S : \E i \in 1 .. n : s[i] = x
  BY <1>7 DEF Surjection
<1>10. \A i, j \in 1 .. n : i # j => s[i] # s[j]
  BY <1>4 DEF IsInjective
<1> QED
  BY <1>8, <1>9, <1>10

\* The operations on slots that leave (dels) or arrive (adds): each slot once.
NsCovers(ops, dels, adds) ==
    /\ \A i \in 1 .. Len(ops) :
          /\ ops[i].cmds # {}
          /\ \A m \in ops[i].cmds :
                /\ ops[i].kind = "del" => <<ops[i].dom, m>> \in dels
                /\ ops[i].kind = "add" => <<ops[i].dom, m>> \in adds
    /\ \A i, j \in 1 .. Len(ops) : i # j /\ ops[i].dom = ops[j].dom => ops[i].cmds \cap ops[j].cmds = {}
    /\ \A d, m : <<d, m>> \in dels \cup adds => NsPending(ops, d, m)

\* A group is a list of operations, one for each domain.
LEMMA NsGroupIs ==
  ASSUME NEW slots \in SUBSET (NsDomains \X NsCmds), IsFiniteSet(slots), NEW kind \in {"del", "add"},
         NEW g, g = NsGroup(kind, slots)
  PROVE  /\ g \in Seq(NsOpSet)
         /\ \A i \in 1 .. Len(g) :
               /\ g[i].kind = kind /\ g[i].cmds # {}
               /\ \A m \in g[i].cmds : <<g[i].dom, m>> \in slots
         /\ \A i, j \in 1 .. Len(g) : i # j => g[i].dom # g[j].dom
         /\ \A d, m : <<d, m>> \in slots => NsPending(g, d, m)
<1> DEFINE cmds(d) == {s[2] : s \in {x \in slots : x[1] = d}}
           op(d) == [kind |-> kind, dom |-> d, cmds |-> cmds(d)]
           doms == {s[1] : s \in slots}
           S == {op(d) : d \in doms}
           f == [s \in slots |-> op(s[1])]
<1>1. f \in Surjection(slots, S)
  BY DEF Surjection
<1>2. IsFiniteSet(S)
  BY <1>1, FS_Surjection
<1>3. g = SetToSeq(S)
  BY DEF NsGroup
<1> HIDE DEF S, f
<1>4. /\ g \in Seq(S)
      /\ \A x \in S : \E i \in 1 .. Len(g) : g[i] = x
      /\ \A i, j \in 1 .. Len(g) : i # j => g[i] # g[j]
  BY <1>2, <1>3, NsListOf
<1>5. \A d, m : <<d, m>> \in slots => d \in doms /\ m \in cmds(d)
  <2> SUFFICES ASSUME NEW d, NEW m, <<d, m>> \in slots PROVE d \in doms /\ m \in cmds(d)
    OBVIOUS
  <2>1. <<d, m>>[1] = d /\ <<d, m>>[2] = m
    OBVIOUS
  <2> QED
    BY <2>1
<1>6. \A d \in doms : d \in NsDomains /\ cmds(d) # {} /\ cmds(d) \subseteq NsCmds /\ \A m \in cmds(d) : <<d, m>> \in slots
  <2> SUFFICES ASSUME NEW d \in doms
               PROVE  d \in NsDomains /\ cmds(d) # {} /\ cmds(d) \subseteq NsCmds /\ \A m \in cmds(d) : <<d, m>> \in slots
    OBVIOUS
  <2>1. \A x \in slots : x[1] \in NsDomains /\ x[2] \in NsCmds /\ x = <<x[1], x[2]>>
    OBVIOUS
  <2> QED
    BY <2>1
<1>7. \A x \in S : /\ x \in NsOpSet /\ x.dom \in doms /\ x = op(x.dom)
                   /\ x.kind = kind /\ x.cmds = cmds(x.dom)
  <2> SUFFICES ASSUME NEW d \in doms, NEW x, x = op(d)
               PROVE  /\ x \in NsOpSet /\ x.dom = d
                      /\ x.kind = kind /\ x.cmds = cmds(d)
    BY DEF S
  <2> HIDE DEF cmds, doms
  <2>1. x.dom = d /\ x.kind = kind /\ x.cmds = cmds(d)
    OBVIOUS
  <2> QED
    BY <2>1, <1>6 DEF NsOpSet
<1>8. \A d \in doms : op(d) \in S
  BY DEF S
<1>9. \A i \in 1 .. Len(g) : g[i] \in S
  BY <1>4, ElementOfSeq
<1> HIDE DEF op, cmds, doms
<1>10. g \in Seq(NsOpSet)
  BY <1>4, <1>7, SeqMonotonic
<1>11. \A i \in 1 .. Len(g) :
               /\ g[i].kind = kind /\ g[i].cmds # {}
               /\ \A m \in g[i].cmds : <<g[i].dom, m>> \in slots
  BY <1>6, <1>7, <1>9
<1>12. \A i, j \in 1 .. Len(g) : i # j => g[i].dom # g[j].dom
  BY <1>4, <1>7, <1>9
<1>13. \A d, m : <<d, m>> \in slots => NsPending(g, d, m)
  <2> SUFFICES ASSUME NEW d, NEW m, <<d, m>> \in slots PROVE \E i \in 1 .. Len(g) : g[i].dom = d /\ m \in g[i].cmds
    BY DEF NsPending
  <2>1. d \in doms /\ m \in cmds(d)
    BY <1>5
  <2>2. PICK i \in 1 .. Len(g) : g[i] = op(d)
    BY <2>1, <1>4, <1>8
  <2>3. g[i].dom = d /\ g[i].cmds = cmds(d)
    BY <2>2 DEF op
  <2> QED
    BY <2>1, <2>3
<1> QED
  BY <1>10, <1>11, <1>12, <1>13

\* A group covers its slots, as operations of its kind.
LEMMA NsGroupCovers ==
  ASSUME NEW slots \in SUBSET (NsDomains \X NsCmds), IsFiniteSet(slots)
  PROVE  /\ NsGroup("del", slots) \in Seq(NsOpSet) /\ NsCovers(NsGroup("del", slots), slots, {})
         /\ NsGroup("add", slots) \in Seq(NsOpSet) /\ NsCovers(NsGroup("add", slots), {}, slots)
<1>1. ASSUME NEW kind \in {"del", "add"}
      PROVE  LET g == NsGroup(kind, slots)
             IN  /\ g \in Seq(NsOpSet)
                 /\ \A i \in 1 .. Len(g) :
                       /\ g[i].kind = kind /\ g[i].cmds # {}
                       /\ \A m \in g[i].cmds : <<g[i].dom, m>> \in slots
                 /\ \A i, j \in 1 .. Len(g) : i # j => g[i].dom # g[j].dom
                 /\ \A d, m : <<d, m>> \in slots => NsPending(g, d, m)
  BY NsGroupIs
<1>2. ASSUME NEW g, \A i \in 1 .. Len(g) :
                       /\ g[i].kind = "del" /\ g[i].cmds # {}
                       /\ \A m \in g[i].cmds : <<g[i].dom, m>> \in slots,
             \A i, j \in 1 .. Len(g) : i # j => g[i].dom # g[j].dom,
             \A d, m : <<d, m>> \in slots => NsPending(g, d, m)
      PROVE  NsCovers(g, slots, {})
  BY <1>2 DEF NsCovers
<1>3. ASSUME NEW g, \A i \in 1 .. Len(g) :
                       /\ g[i].kind = "add" /\ g[i].cmds # {}
                       /\ \A m \in g[i].cmds : <<g[i].dom, m>> \in slots,
             \A i, j \in 1 .. Len(g) : i # j => g[i].dom # g[j].dom,
             \A d, m : <<d, m>> \in slots => NsPending(g, d, m)
      PROVE  NsCovers(g, {}, slots)
  BY <1>3 DEF NsCovers
<1> QED
  BY <1>1, <1>2, <1>3

\* Two lists for slots that they do not share.
LEMMA NsCoversBoth ==
  ASSUME NEW p \in Seq(NsOpSet), NEW q \in Seq(NsOpSet), NEW D, NEW A, NEW E, NEW B,
         NsCovers(p, D, A), NsCovers(q, E, B), (D \cup A) \cap (E \cup B) = {}
  PROVE  p \o q \in Seq(NsOpSet) /\ NsCovers(p \o q, D \cup E, A \cup B)
<1> DEFINE s == p \o q
<1>1. /\ s \in Seq(NsOpSet) /\ Len(s) = Len(p) + Len(q)
      /\ \A i \in 1 .. Len(p) + Len(q) : s[i] = IF i <= Len(p) THEN p[i] ELSE q[i - Len(p)]
  BY ConcatProperties
<1>2. Len(p) \in Nat /\ Len(q) \in Nat
  OBVIOUS
<1> HIDE DEF s
<1>3. ASSUME NEW i \in 1 .. Len(s)
      PROVE  \/ i \in 1 .. Len(p) /\ s[i] = p[i]
             \/ i - Len(p) \in 1 .. Len(q) /\ s[i] = q[i - Len(p)]
  BY <1>1, <1>2
<1>4. /\ \A i \in 1 .. Len(p) : i \in 1 .. Len(s) /\ s[i] = p[i]
      /\ \A i \in 1 .. Len(q) : i + Len(p) \in 1 .. Len(s) /\ s[i + Len(p)] = q[i]
  <2>1. ASSUME NEW i \in 1 .. Len(p) PROVE i \in 1 .. Len(s) /\ s[i] = p[i]
    BY <1>1, <1>2
  <2>2. ASSUME NEW i \in 1 .. Len(q) PROVE i + Len(p) \in 1 .. Len(s) /\ s[i + Len(p)] = q[i]
    <3>1. PICK j : j = i + Len(p)
      OBVIOUS
    <3>2. j \in 1 .. Len(p) + Len(q) /\ ~(j <= Len(p)) /\ j - Len(p) = i
      BY <3>1, <1>2
    <3>3. s[j] = q[j - Len(p)]
      BY <3>2, <1>1
    <3> QED
      BY <3>1, <3>2, <3>3, <1>1
  <2> QED
    BY <2>1, <2>2
<1>5. ASSUME NEW x \in NsOpSet, NEW m \in x.cmds, x.kind = "del" => <<x.dom, m>> \in D, x.kind = "add" => <<x.dom, m>> \in A
      PROVE  <<x.dom, m>> \in D \cup A
  BY <1>5 DEF NsOpSet
<1>6. ASSUME NEW x \in NsOpSet, NEW m \in x.cmds, x.kind = "del" => <<x.dom, m>> \in E, x.kind = "add" => <<x.dom, m>> \in B
      PROVE  <<x.dom, m>> \in E \cup B
  BY <1>6 DEF NsOpSet
<1>7. \A i \in 1 .. Len(p), j \in 1 .. Len(q) : p[i].dom = q[j].dom => p[i].cmds \cap q[j].cmds = {}
  <2> SUFFICES ASSUME NEW i \in 1 .. Len(p), NEW j \in 1 .. Len(q), p[i].dom = q[j].dom,
                      NEW m, m \in p[i].cmds, m \in q[j].cmds
               PROVE  FALSE
    OBVIOUS
  <2>1. p[i] \in NsOpSet /\ q[j] \in NsOpSet
    OBVIOUS
  <2>2. <<p[i].dom, m>> \in D \cup A
    BY <2>1, <1>5 DEF NsCovers
  <2>3. <<q[j].dom, m>> \in E \cup B
    BY <2>1, <1>6 DEF NsCovers
  <2> QED
    BY <2>2, <2>3
<1>8. \A i \in 1 .. Len(s) :
          /\ s[i].cmds # {}
          /\ \A m \in s[i].cmds :
                /\ s[i].kind = "del" => <<s[i].dom, m>> \in D \cup E
                /\ s[i].kind = "add" => <<s[i].dom, m>> \in A \cup B
  BY <1>3 DEF NsCovers
<1>9. ASSUME NEW i \in 1 .. Len(s), NEW j \in 1 .. Len(s), i # j, s[i].dom = s[j].dom
      PROVE  s[i].cmds \cap s[j].cmds = {}
  <2>1. CASE i \in 1 .. Len(p) /\ s[i] = p[i] /\ j \in 1 .. Len(p) /\ s[j] = p[j]
    BY <2>1, <1>9 DEF NsCovers
  <2>2. CASE i \in 1 .. Len(p) /\ s[i] = p[i] /\ j - Len(p) \in 1 .. Len(q) /\ s[j] = q[j - Len(p)]
    BY <2>2, <1>7, <1>9
  <2>3. CASE j \in 1 .. Len(p) /\ s[j] = p[j] /\ i - Len(p) \in 1 .. Len(q) /\ s[i] = q[i - Len(p)]
    BY <2>3, <1>7, <1>9
  <2>4. CASE i - Len(p) \in 1 .. Len(q) /\ s[i] = q[i - Len(p)] /\ j - Len(p) \in 1 .. Len(q) /\ s[j] = q[j - Len(p)]
    <3>1. i - Len(p) # j - Len(p)
      BY <1>2, <1>9
    <3> QED
      BY <3>1, <2>4, <1>9 DEF NsCovers
  <2> QED
    BY <2>1, <2>2, <2>3, <2>4, <1>3
<1>10. ASSUME NEW d, NEW m, <<d, m>> \in (D \cup E) \cup (A \cup B) PROVE NsPending(s, d, m)
  <2>1. CASE NsPending(p, d, m)
    BY <2>1, <1>4 DEF NsPending
  <2>2. CASE NsPending(q, d, m)
    BY <2>2, <1>4 DEF NsPending
  <2> QED
    BY <2>1, <2>2, <1>10 DEF NsCovers
<1>11. NsCovers(s, D \cup E, A \cup B)
  BY <1>8, <1>9, <1>10 DEF NsCovers
<1> QED
  BY <1>1, <1>11 DEF s

\* The difference: what it does not touch is the same in both registrations.
LEMMA NsDiffIs ==
  ASSUME NEW old \in NsAllInfos, NEW new \in NsAllInfos, NEW ops, ops = NsDiff(old, new)
  PROVE  /\ ops \in Seq(NsOpSet) /\ NsOpsOK(ops, old, new)
         /\ \A d, m : ~NsPending(ops, d, m) =>
               /\ <<d, m>> \in old.regs <=> <<d, m>> \in new.regs
               /\ <<d, m>> \in old.regs => old.weight = new.weight
<1> DEFINE dels == old.regs \ new.regs
           news == new.regs \ old.regs
           comms == NsComms(old, new)
<1>1. /\ old.regs \subseteq NsDomains \X NsCmds /\ IsFiniteSet(old.regs)
      /\ new.regs \subseteq NsDomains \X NsCmds /\ IsFiniteSet(new.regs)
  BY NsInfoIs
<1>2. comms \subseteq old.regs \cap new.regs /\ (old.weight # new.weight => comms = old.regs \cap new.regs)
  BY DEF NsComms
<1>3. IsFiniteSet(dels) /\ IsFiniteSet(news) /\ IsFiniteSet(comms)
  BY <1>1, <1>2, FS_Subset
<1>4. /\ dels \in SUBSET (NsDomains \X NsCmds) /\ news \in SUBSET (NsDomains \X NsCmds)
      /\ comms \in SUBSET (NsDomains \X NsCmds)
  BY <1>1, <1>2
<1>5. dels \cap news = {} /\ (dels \cup news) \cap comms = {}
  BY <1>2
<1>6. dels \subseteq old.regs /\ dels \cap new.regs = {} /\ news \cup comms \subseteq new.regs
      /\ \A x : x \notin dels \cup (news \cup comms) =>
           (x \in old.regs <=> x \in new.regs) /\ (x \in old.regs => old.weight = new.weight)
  BY <1>2
<1>7. ops = (NsGroup("del", dels) \o NsGroup("add", news)) \o NsGroup("add", comms)
  BY DEF NsDiff
<1> HIDE DEF dels, news, comms
<1>8. /\ NsGroup("del", dels) \in Seq(NsOpSet) /\ NsCovers(NsGroup("del", dels), dels, {})
      /\ NsGroup("add", news) \in Seq(NsOpSet) /\ NsCovers(NsGroup("add", news), {}, news)
      /\ NsGroup("add", comms) \in Seq(NsOpSet) /\ NsCovers(NsGroup("add", comms), {}, comms)
  BY <1>3, <1>4, NsGroupCovers
<1>9. PICK p, q, r : /\ p \in Seq(NsOpSet) /\ NsCovers(p, dels, {})
                     /\ q \in Seq(NsOpSet) /\ NsCovers(q, {}, news)
                     /\ r \in Seq(NsOpSet) /\ NsCovers(r, {}, comms)
                     /\ ops = (p \o q) \o r
  BY <1>7, <1>8, Zenon
<1>10. p \o q \in Seq(NsOpSet) /\ NsCovers(p \o q, dels \cup {}, {} \cup news)
  <2>1. (dels \cup {}) \cap ({} \cup news) = {}
    BY <1>5
  <2> QED
    BY <2>1, <1>9, NsCoversBoth
<1>11. dels \cup {} = dels /\ {} \cup news = news
  OBVIOUS
<1>12. p \o q \in Seq(NsOpSet) /\ NsCovers(p \o q, dels, news)
  BY <1>10, <1>11
<1>13. ops \in Seq(NsOpSet) /\ NsCovers(ops, dels \cup {}, news \cup comms)
  <2>1. (dels \cup news) \cap ({} \cup comms) = {}
    BY <1>5
  <2> DEFINE pq == p \o q
  <2>2. pq \in Seq(NsOpSet) /\ NsCovers(pq, dels, news) /\ ops = pq \o r
    BY <1>9, <1>12
  <2> HIDE DEF pq
  <2>3. pq \o r \in Seq(NsOpSet) /\ NsCovers(pq \o r, dels \cup {}, news \cup comms)
    BY <2>1, <2>2, <1>9, NsCoversBoth
  <2> QED
    BY <2>2, <2>3, Zenon
<1>14. NsCovers(ops, dels, news \cup comms)
  BY <1>11, <1>13
<1>15. NsOpsOK(ops, old, new)
  BY <1>6, <1>14 DEF NsCovers, NsOpsOK
<1>16. \A d, m : ~NsPending(ops, d, m) => <<d, m>> \notin dels \cup (news \cup comms)
  BY <1>14 DEF NsCovers
<1> QED
  BY <1>6, <1>13, <1>15, <1>16

-----------------------------------------------------------------------------
(* The operations of a call                                                *)

\* The first operation is dropped.
LEMMA NsTailOps ==
  ASSUME NEW ops \in Seq(NsOpSet), ops # <<>>, NEW old, NEW new, NsOpsOK(ops, old, new)
  PROVE  /\ Tail(ops) \in Seq(NsOpSet) /\ NsOpsOK(Tail(ops), old, new)
         /\ Head(ops) = ops[1] /\ 1 \in 1 .. Len(ops) /\ Head(ops) \in NsOpSet
         /\ \A d, m : NsPending(Tail(ops), d, m) <=>
                         NsPending(ops, d, m) /\ ~(d = Head(ops).dom /\ m \in Head(ops).cmds)
<1> DEFINE t == Tail(ops)
<1>1. /\ t \in Seq(NsOpSet) /\ Len(t) = Len(ops) - 1 /\ \A i \in 1 .. Len(t) : t[i] = ops[i + 1]
      /\ Head(ops) = ops[1] /\ Len(ops) \in Nat \ {0} /\ Head(ops) \in NsOpSet
  BY HeadTailProperties, EmptySeq
<1> HIDE DEF t
<1>2. \A i \in 1 .. Len(t) : i + 1 \in 1 .. Len(ops) /\ t[i] = ops[i + 1] /\ i + 1 # 1
  BY <1>1
<1>3. \A i \in 1 .. Len(ops) : i = 1 \/ (i - 1 \in 1 .. Len(t) /\ t[i - 1] = ops[i])
  <2> SUFFICES ASSUME NEW i \in 1 .. Len(ops), i # 1 PROVE i - 1 \in 1 .. Len(t) /\ t[i - 1] = ops[i]
    OBVIOUS
  <2>1. i - 1 \in 1 .. Len(t) /\ (i - 1) + 1 = i
    BY <1>1
  <2> QED
    BY <2>1, <1>1
<1>4. 1 \in 1 .. Len(ops)
  BY <1>1
<1>5. NsOpsOK(t, old, new)
  <2>1. \A i \in 1 .. Len(t) :
          /\ t[i].cmds # {}
          /\ \A m \in t[i].cmds :
                /\ t[i].kind = "del" => <<t[i].dom, m>> \in old.regs /\ <<t[i].dom, m>> \notin new.regs
                /\ t[i].kind = "add" => <<t[i].dom, m>> \in new.regs
    BY <1>2 DEF NsOpsOK
  <2>2. ASSUME NEW i \in 1 .. Len(t), NEW j \in 1 .. Len(t), i # j, t[i].dom = t[j].dom
        PROVE  t[i].cmds \cap t[j].cmds = {}
    <3>1. i + 1 # j + 1 /\ i + 1 \in 1 .. Len(ops) /\ j + 1 \in 1 .. Len(ops)
      BY <2>2, <1>1
    <3>2. t[i] = ops[i + 1] /\ t[j] = ops[j + 1]
      BY <1>2
    <3> QED
      BY <3>1, <3>2, <2>2 DEF NsOpsOK
  <2> QED
    BY <2>1, <2>2 DEF NsOpsOK
<1>6. ASSUME NEW d, NEW m
      PROVE  NsPending(t, d, m) <=> NsPending(ops, d, m) /\ ~(d = ops[1].dom /\ m \in ops[1].cmds)
  <2>1. ASSUME NsPending(t, d, m) PROVE NsPending(ops, d, m) /\ ~(d = ops[1].dom /\ m \in ops[1].cmds)
    <3>1. PICK i \in 1 .. Len(t) : t[i].dom = d /\ m \in t[i].cmds
      BY <2>1 DEF NsPending
    <3>2. i + 1 \in 1 .. Len(ops) /\ t[i] = ops[i + 1] /\ i + 1 # 1
      BY <1>2
    <3>3. d = ops[1].dom => ops[1].cmds \cap ops[i + 1].cmds = {}
      BY <3>1, <3>2, <1>4 DEF NsOpsOK
    <3> QED
      BY <3>1, <3>2, <3>3 DEF NsPending
  <2>2. ASSUME NsPending(ops, d, m), ~(d = ops[1].dom /\ m \in ops[1].cmds) PROVE NsPending(t, d, m)
    <3>1. PICK i \in 1 .. Len(ops) : ops[i].dom = d /\ m \in ops[i].cmds
      BY <2>2 DEF NsPending
    <3> QED
      BY <3>1, <2>2, <1>3 DEF NsPending
  <2> QED
    BY <2>1, <2>2
<1> QED
  BY <1>1, <1>4, <1>5, <1>6 DEF t

\* One command is taken out of the first operation.
NsTaken(ops, k, s) ==
    /\ Len(s) = Len(ops) /\ k \in Head(ops).cmds /\ Head(ops).cmds \ {k} # {}
    /\ \A j \in 1 .. Len(ops) : /\ s[j].kind = ops[j].kind /\ s[j].dom = ops[j].dom
                             /\ s[j].cmds = IF j = 1 THEN Head(ops).cmds \ {k} ELSE ops[j].cmds

\* What is left of the operations then.
LEMMA NsShrinkOps ==
  ASSUME NEW ops \in Seq(NsOpSet), ops # <<>>, NEW old, NEW new, NsOpsOK(ops, old, new),
         NEW k, NEW s \in Seq(NsOpSet), NsTaken(ops, k, s)
  PROVE  /\ NsOpsOK(s, old, new) /\ s # <<>>
         /\ Head(s).dom = Head(ops).dom
         /\ \A d, m : NsPending(s, d, m) <=>
                         NsPending(ops, d, m) /\ ~(d = Head(ops).dom /\ m = k)
<1> DEFINE rest == Head(ops).cmds \ {k}
<1>1. Head(ops) = ops[1] /\ 1 \in 1 .. Len(ops) /\ ops[1] \in NsOpSet
  BY NsTailOps
<1>4. Len(s) = Len(ops) /\ k \in ops[1].cmds /\ ops[1].cmds \ {k} # {}
  BY <1>1 DEF NsTaken
<1>5. \A j \in 1 .. Len(s) : s[j].kind = ops[j].kind /\ s[j].dom = ops[j].dom /\ s[j].cmds \subseteq ops[j].cmds
                              /\ s[j].cmds = (IF j = 1 THEN rest ELSE ops[j].cmds)
  <2> SUFFICES ASSUME NEW j \in 1 .. Len(ops)
               PROVE  /\ s[j].kind = ops[j].kind /\ s[j].dom = ops[j].dom /\ s[j].cmds \subseteq ops[j].cmds
                      /\ s[j].cmds = (IF j = 1 THEN rest ELSE ops[j].cmds)
    BY <1>4
  <2>1. /\ s[j].kind = ops[j].kind /\ s[j].dom = ops[j].dom
        /\ s[j].cmds = (IF j = 1 THEN rest ELSE ops[j].cmds)
    BY DEF NsTaken
  <2>2. rest \subseteq ops[1].cmds
    BY <1>1
  <2> HIDE DEF rest
  <2> QED
    BY <2>1, <2>2
<1>6. s # <<>> /\ Head(s).dom = ops[1].dom
  <2>1. Len(s) # 0 /\ s[1].dom = ops[1].dom
    BY <1>1, <1>4, <1>5
  <2> QED
    BY <2>1, <1>4
<1> HIDE DEF rest
<1>7. NsOpsOK(s, old, new)
  <2>1. \A i \in 1 .. Len(s) :
          /\ s[i].cmds # {}
          /\ \A m \in s[i].cmds :
                /\ s[i].kind = "del" => <<s[i].dom, m>> \in old.regs /\ <<s[i].dom, m>> \notin new.regs
                /\ s[i].kind = "add" => <<s[i].dom, m>> \in new.regs
    <3> SUFFICES ASSUME NEW i \in 1 .. Len(s)
                 PROVE  /\ s[i].cmds # {}
                        /\ \A m \in s[i].cmds :
                              /\ s[i].kind = "del" => <<s[i].dom, m>> \in old.regs /\ <<s[i].dom, m>> \notin new.regs
                              /\ s[i].kind = "add" => <<s[i].dom, m>> \in new.regs
      OBVIOUS
    <3>1. s[i].cmds # {}
      BY <1>1, <1>4, <1>5 DEF NsOpsOK, rest
    <3>2. i \in 1 .. Len(ops) /\ s[i].kind = ops[i].kind /\ s[i].dom = ops[i].dom /\ s[i].cmds \subseteq ops[i].cmds
      BY <1>4, <1>5
    <3> QED
      BY <3>1, <3>2 DEF NsOpsOK
  <2>2. \A i, j \in 1 .. Len(s) : i # j /\ s[i].dom = s[j].dom => s[i].cmds \cap s[j].cmds = {}
    <3> SUFFICES ASSUME NEW i \in 1 .. Len(s), NEW j \in 1 .. Len(s), i # j, s[i].dom = s[j].dom
                 PROVE  s[i].cmds \cap s[j].cmds = {}
      OBVIOUS
    <3>1. ops[i].cmds \cap ops[j].cmds = {}
      BY <1>4, <1>5 DEF NsOpsOK
    <3> QED
      BY <3>1, <1>5
  <2> QED
    BY <2>1, <2>2 DEF NsOpsOK
<1>8. ASSUME NEW d, NEW m
      PROVE  NsPending(s, d, m) <=> NsPending(ops, d, m) /\ ~(d = ops[1].dom /\ m = k)
  <2>1. ASSUME NsPending(s, d, m) PROVE NsPending(ops, d, m) /\ ~(d = ops[1].dom /\ m = k)
    <3>1. PICK i \in 1 .. Len(s) : s[i].dom = d /\ m \in s[i].cmds
      BY <2>1 DEF NsPending
    <3>2. i \in 1 .. Len(ops) /\ ops[i].dom = d /\ m \in ops[i].cmds /\ (i = 1 => m # k)
      BY <3>1, <1>4, <1>5 DEF rest
    <3>3. i # 1 /\ d = ops[1].dom => ops[1].cmds \cap ops[i].cmds = {}
      BY <3>2, <1>1 DEF NsOpsOK
    <3> QED
      BY <3>2, <3>3, <1>1, <1>4 DEF NsPending
  <2>2. ASSUME NsPending(ops, d, m), ~(d = ops[1].dom /\ m = k) PROVE NsPending(s, d, m)
    <3>1. PICK i \in 1 .. Len(ops) : ops[i].dom = d /\ m \in ops[i].cmds
      BY <2>2 DEF NsPending
    <3>2. i \in 1 .. Len(s) /\ s[i].dom = d /\ m \in s[i].cmds
      BY <3>1, <2>2, <1>1, <1>4, <1>5 DEF rest
    <3> QED
      BY <3>2 DEF NsPending
  <2> QED
    BY <2>1, <2>2
<1> QED
  BY <1>1, <1>6, <1>7, <1>8

\* The operation that a call is at.
LEMMA NsHeadIs ==
  ASSUME NEW c \in NsCallSet, NsOpsOK(c.ops, c.old, c.new), c.ops # <<>>
  PROVE  /\ Head(c.ops) \in NsOpSet /\ NsNextCmd(c) \in Head(c.ops).cmds
         /\ NsNextCmd(c) \in NsCmds /\ Head(c.ops).dom \in NsDomains /\ Head(c.ops).kind \in {"del", "add"}
         /\ Head(c.ops).dom \in NsAll(c)
         /\ \A m \in Head(c.ops).cmds :
               /\ NsPending(c.ops, Head(c.ops).dom, m)
               /\ Head(c.ops).kind = "del" => <<Head(c.ops).dom, m>> \in c.old.regs /\ <<Head(c.ops).dom, m>> \notin c.new.regs
               /\ Head(c.ops).kind = "add" => <<Head(c.ops).dom, m>> \in c.new.regs
<1> DEFINE h == Head(c.ops)
<1>0. c.ops \in Seq(NsOpSet) /\ c.old \in NsAllInfos /\ c.new \in NsAllInfos
  BY DEF NsCallSet
<1>1. h = c.ops[1] /\ 1 \in 1 .. Len(c.ops) /\ h \in NsOpSet
  BY <1>0, NsTailOps
<1>2. /\ h.cmds # {}
      /\ \A m \in h.cmds :
            /\ h.kind = "del" => <<h.dom, m>> \in c.old.regs /\ <<h.dom, m>> \notin c.new.regs
            /\ h.kind = "add" => <<h.dom, m>> \in c.new.regs
  BY <1>1 DEF NsOpsOK
<1>3. NsNextCmd(c) \in h.cmds
  BY <1>2 DEF NsNextCmd
<1>4. h.cmds \subseteq NsCmds /\ h.dom \in NsDomains /\ h.kind \in {"del", "add"}
  BY <1>1 DEF NsOpSet
<1>5. \A m \in h.cmds : NsPending(c.ops, h.dom, m)
  BY <1>1 DEF NsPending
<1> HIDE DEF h
<1>6. h.dom \in NsAll(c)
  <2>1. <<h.dom, NsNextCmd(c)>> \in c.old.regs \/ <<h.dom, NsNextCmd(c)>> \in c.new.regs
    BY <1>2, <1>3, <1>4
  <2>2. h.dom \in NsDomainsOf(c.old) \/ h.dom \in NsDomainsOf(c.new)
    BY <2>1, <1>0, NsInfoIs
  <2> QED
    BY <2>2 DEF NsAll
<1> QED
  BY <1>1, <1>2, <1>3, <1>4, <1>5, <1>6 DEF h

\* The command was the last one of its operation.
LEMMA NsCmdDoneLast ==
  ASSUME NEW c \in NsCallSet, Head(c.ops).cmds \ {NsNextCmd(c)} = {}, NEW e, e = NsCmdDone(c)
  PROVE  /\ Tail(c.ops) \in Seq(NsOpSet) => e \in NsCallSet
         /\ e.rs = c.rs /\ e.old = c.old /\ e.new = c.new /\ e.pc = "dom" /\ e.ops = Tail(c.ops)
<1>1. "dom" \in NsBefore \cup NsAfter
  BY DEF NsAfter
<1>2. e.rs = c.rs /\ e.old = c.old /\ e.new = c.new /\ e.pc = "dom" /\ e.ops = Tail(c.ops)
  BY <1>1 DEF NsCmdDone, NsCallSet
<1>3. Tail(c.ops) \in Seq(NsOpSet) => e \in NsCallSet
  BY <1>1 DEF NsCmdDone, NsCallSet, NsOpSet
<1> QED
  BY <1>2, <1>3

\* The operation has more commands.
LEMMA NsCmdDoneMore ==
  ASSUME NEW c \in NsCallSet, Head(c.ops).cmds \ {NsNextCmd(c)} # {}, NEW e, e = NsCmdDone(c)
  PROVE  /\ e.ops \in Seq(NsOpSet) => e \in NsCallSet
         /\ e.rs = c.rs /\ e.old = c.old /\ e.new = c.new /\ e.pc = "cmd" /\ e.d = c.d
         /\ e.ops = [c.ops EXCEPT ![1] = [@ EXCEPT !.cmds = Head(c.ops).cmds \ {NsNextCmd(c)}]]
<1>1. "cmd" \in NsBefore \cup NsAfter
  BY DEF NsAfter
<1>2. /\ e.rs = c.rs /\ e.old = c.old /\ e.new = c.new /\ e.pc = "cmd" /\ e.d = c.d
      /\ e.ops = [c.ops EXCEPT ![1] = [@ EXCEPT !.cmds = Head(c.ops).cmds \ {NsNextCmd(c)}]]
  BY <1>1 DEF NsCmdDone, NsCallSet
<1>3. e.ops \in Seq(NsOpSet) => e \in NsCallSet
  BY <1>1, <1>2 DEF NsCmdDone, NsCallSet, NsOpSet
<1> QED
  BY <1>2, <1>3

\* The call after its work on a command.
LEMMA NsCmdDoneIs ==
  ASSUME NEW c \in NsCallSet, NsOpsOK(c.ops, c.old, c.new), c.ops # <<>>, NEW e, e = NsCmdDone(c)
  PROVE  /\ e \in NsCallSet /\ e.rs = c.rs /\ e.old = c.old /\ e.new = c.new
         /\ e.pc \in {"dom", "cmd"} /\ NsOpsOK(e.ops, e.old, e.new)
         /\ e.pc = "cmd" => e.ops # <<>> /\ Head(e.ops).dom = Head(c.ops).dom /\ e.d = c.d
         /\ \A d, m : NsPending(e.ops, d, m) <=>
                         NsPending(c.ops, d, m) /\ ~(d = Head(c.ops).dom /\ m = NsNextCmd(c))
<1> DEFINE rest == Head(c.ops).cmds \ {NsNextCmd(c)}
           k == NsNextCmd(c)
<1>0. c.ops \in Seq(NsOpSet)
  BY DEF NsCallSet
<1>1. k \in Head(c.ops).cmds
  BY NsHeadIs
<1>3. PICK ops : ops = c.ops
  OBVIOUS
<1>4. /\ ops \in Seq(NsOpSet) /\ ops # <<>> /\ NsOpsOK(ops, c.old, c.new)
      /\ k \in Head(ops).cmds /\ rest = Head(ops).cmds \ {k}
  BY <1>0, <1>1, <1>3
<1> HIDE DEF k, rest
<1>5. CASE rest = {}
  <2>2. /\ Tail(ops) \in Seq(NsOpSet) /\ NsOpsOK(Tail(ops), c.old, c.new)
        /\ \A d, m : NsPending(Tail(ops), d, m) <=>
                         NsPending(ops, d, m) /\ ~(d = Head(ops).dom /\ m \in Head(ops).cmds)
    BY <1>4, NsTailOps
  <2>3. \A m : m \in Head(ops).cmds <=> m = k
    BY <1>4, <1>5
  <2>4. \A d, m : NsPending(Tail(ops), d, m) <=>
                         NsPending(ops, d, m) /\ ~(d = Head(ops).dom /\ m = k)
    BY <2>2, <2>3, Zenon
  <2> QED
    <3>1. /\ Tail(c.ops) \in Seq(NsOpSet) => e \in NsCallSet
          /\ e.rs = c.rs /\ e.old = c.old /\ e.new = c.new /\ e.pc = "dom" /\ e.ops = Tail(c.ops)
      BY <1>5, NsCmdDoneLast DEF rest
    <3> QED
      BY <2>2, <2>4, <3>1, <1>3 DEF k
<1>6. CASE rest # {}
  <2>0. /\ e.ops \in Seq(NsOpSet) => e \in NsCallSet
        /\ e.rs = c.rs /\ e.old = c.old /\ e.new = c.new /\ e.pc = "cmd" /\ e.d = c.d
        /\ e.ops = [c.ops EXCEPT ![1] = [@ EXCEPT !.cmds = rest]]
    BY <1>6, NsCmdDoneMore DEF rest
  <2>1. Head(ops) = ops[1] /\ 1 \in 1 .. Len(ops) /\ ops[1] \in NsOpSet
    BY <1>4, NsTailOps
  <2>2. PICK f : f = [kind |-> ops[1].kind, dom |-> ops[1].dom, cmds |-> rest]
    OBVIOUS
  <2>3. f \in NsOpSet /\ f.kind = ops[1].kind /\ f.dom = ops[1].dom /\ f.cmds = rest
    BY <1>4, <2>1, <2>2 DEF NsOpSet
  <2>4. e.ops = [ops EXCEPT ![1] = f]
    <3>1. \A o \in NsOpSet : [o EXCEPT !.cmds = rest] = [kind |-> o.kind, dom |-> o.dom, cmds |-> rest]
      BY DEF NsOpSet
    <3>2. [ops[1] EXCEPT !.cmds = rest] = f
      BY <3>1, <2>1, <2>2, Zenon
    <3>3. e.ops = [ops EXCEPT ![1] = [ops[1] EXCEPT !.cmds = rest]]
      BY <1>3, <2>0, Zenon
    <3> QED
      BY <3>2, <3>3, Zenon
  <2>5. PICK s : s = e.ops
    OBVIOUS
  <2>6. /\ s \in Seq(NsOpSet) /\ Len(s) = Len(ops)
        /\ \A j \in 1 .. Len(ops) : s[j] = IF j = 1 THEN f ELSE ops[j]
    <3>1. /\ [ops EXCEPT ![1] = f] \in Seq(NsOpSet) /\ Len([ops EXCEPT ![1] = f]) = Len(ops)
          /\ \A j \in 1 .. Len(ops) : [ops EXCEPT ![1] = f][j] = IF j = 1 THEN f ELSE ops[j]
      BY <1>4, <2>1, <2>3, ExceptSeq
    <3> QED
      BY <3>1, <2>4, <2>5
  <2>7. \A j \in 1 .. Len(ops) : /\ s[j].kind = ops[j].kind /\ s[j].dom = ops[j].dom
                                 /\ s[j].cmds = IF j = 1 THEN Head(ops).cmds \ {k} ELSE ops[j].cmds
    BY <1>4, <2>3, <2>6
  <2>8. /\ NsOpsOK(s, c.old, c.new) /\ s # <<>>
        /\ Head(s).dom = Head(ops).dom
        /\ \A d, m : NsPending(s, d, m) <=>
                         NsPending(ops, d, m) /\ ~(d = Head(ops).dom /\ m = k)
    <3>1. NsTaken(ops, k, s)
      BY <1>4, <1>6, <2>6, <2>7 DEF NsTaken
    <3> QED
      BY <3>1, <1>4, <2>6, NsShrinkOps
  <2> QED
    BY <2>0, <2>5, <2>6, <2>8, <1>3 DEF k
<1> QED
  BY <1>5, <1>6

-----------------------------------------------------------------------------
(* The steps of set()                                                      *)

\* One place of one object is written.
NsWritten(t, s, o, m, v) == t = [s EXCEPT ![o] = [s[o] EXCEPT ![m] = v]]
NsResult(S, T, t, s, o, m, v) ==
    /\ t \in Seq([S -> T]) /\ Len(t) = Len(s)
    /\ \A p \in 1 .. Len(s), k \in S : t[p][k] = IF p = o /\ k = m THEN v ELSE s[p][k]

\* What the objects are after that.
LEMMA NsSlotWrite ==
  ASSUME NEW S, NEW T, NEW s \in Seq([S -> T]), NEW o \in 1 .. Len(s), NEW m \in S, NEW v \in T,
         NEW t, NsWritten(t, s, o, m, v)
  PROVE  NsResult(S, T, t, s, o, m, v)
<1> DEFINE f == [s[o] EXCEPT ![m] = v]
<1>1. s[o] \in [S -> T]
  OBVIOUS
<1>2. f \in [S -> T] /\ \A k \in S : f[k] = IF k = m THEN v ELSE s[o][k]
  BY <1>1
<1>3. t = [s EXCEPT ![o] = f]
  BY DEF NsWritten
<1> HIDE DEF f
<1>4. /\ t \in Seq([S -> T]) /\ Len(t) = Len(s)
      /\ \A j \in 1 .. Len(s) : t[j] = IF j = o THEN f ELSE s[j]
  <2>1. /\ [s EXCEPT ![o] = f] \in Seq([S -> T]) /\ Len([s EXCEPT ![o] = f]) = Len(s)
        /\ \A j \in 1 .. Len(s) : [s EXCEPT ![o] = f][j] = IF j = o THEN f ELSE s[j]
    BY <1>2, ExceptSeq
  <2> QED
    BY <2>1, <1>3
<1> QED
  BY <1>2, <1>4 DEF NsResult

\* A call goes on with its operations: NsMoves with the call that results.
NsGoes(a, e) ==
    /\ UNCHANGED <<nsLink, nsSessions, nsMuddled>>
    /\ NsChanges(a)
    /\ nsCall' = [nsCall EXCEPT ![a] = e]
    /\ e \in NsCallSet /\ e.pc \in NsAfter
    /\ e.rs = nsCall[a].rs /\ e.old = nsCall[a].old /\ e.new = nsCall[a].new
    /\ NsWorks(e)

\* The types of the state and what the calls know are kept.
LEMMA NsGoesOn ==
  ASSUME NsTypeOK, NsControl, NsWork, NEW a \in NsActors, NEW e, NsGoes(a, e)
  PROVE  /\ NsControl' /\ NsWork'
         /\ nsLink' \in [NsStreams -> NsLinkSet]
         /\ nsSessions' \in [NsStreams -> NsAllInfos]
         /\ nsCall' \in [NsActors -> {NsIdle} \cup NsCallSet]
         /\ nsCall'[a] = e /\ \A b \in NsActors : b # a => nsCall'[b] = nsCall[b]
<1>1. nsCall'[a] = e /\ \A b \in NsActors : b # a => nsCall'[b] = nsCall[b]
  BY DEF NsGoes, NsTypeOK
<1>2. NsMoves(a)
  <2>1. \E x \in NsCallSet :
          /\ nsCall' = [nsCall EXCEPT ![a] = x]
          /\ x.pc \in NsAfter /\ x.rs = nsCall[a].rs /\ x.old = nsCall[a].old /\ x.new = nsCall[a].new
    BY DEF NsGoes
  <2> QED
    BY <2>1 DEF NsGoes, NsMoves
<1>3. NsControl'
  BY <1>2, NsMovesControl
<1>4. NsWork'
  <2> SUFFICES ASSUME NEW b \in NsActors, NsChanges(b)' PROVE NsWorks(nsCall'[b])
    BY DEF NsWork
  <2>1. CASE b = a
    BY <2>1, <1>1 DEF NsGoes
  <2>2. CASE b # a
    BY <2>2, <1>1 DEF NsWork, NsChanges
  <2> QED
    BY <2>1, <2>2
<1>5. nsLink' = nsLink /\ nsSessions' = nsSessions /\ nsCall' \in [NsActors -> {NsIdle} \cup NsCallSet]
  BY DEF NsGoes, NsTypeOK
<1> QED
  BY <1>1, <1>3, <1>4, <1>5 DEF NsTypeOK

\* A call past the difference.
LEMMA NsAt ==
  ASSUME NsTypeOK, NsWork, NEW a \in NsActors, nsCall[a].pc \in NsAfter
  PROVE  nsCall[a] \in NsCallSet /\ NsChanges(a) /\ NsRuns(a) /\ NsWorks(nsCall[a])
<1>1. NsChanges(a) /\ NsRuns(a)
  BY DEF NsChanges, NsRuns, NsAfter
<1> QED
  BY <1>1, NsCallIs DEF NsWork

\* The steps of set(), as they change the call.
LEMMA NsDomainStep ==
  ASSUME NsTypeOK, NsWork, NEW a \in NsActors, SetDomain(a), NEW c, c = nsCall[a], NEW e, e = nsCall'[a]
  PROVE  /\ c \in NsCallSet /\ NsWorks(c) /\ c.ops # <<>> /\ c.pc = "dom" /\ NsGoes(a, e)
         /\ nsDir[Head(c.ops).dom] = 0 /\ Head(c.ops).kind = "del" =>
              /\ e.pc = "dom"
              /\ \A d, m : NsPending(e.ops, d, m) <=>
                              NsPending(c.ops, d, m) /\ ~(d = Head(c.ops).dom /\ m \in Head(c.ops).cmds)
         /\ ~(nsDir[Head(c.ops).dom] = 0 /\ Head(c.ops).kind = "del") =>
              /\ e.ops = c.ops /\ e.d = nsDir[Head(c.ops).dom] /\ e.pc = IF e.d = 0 THEN "mkdom" ELSE "cmd"
<1>0. c.pc = "dom" /\ c.ops # <<>>
  BY DEF SetDomain
<1>1. c.pc \in NsAfter
  BY <1>0 DEF NsAfter
<1>2. c \in NsCallSet /\ NsChanges(a) /\ NsWorks(c)
  BY <1>1, NsAt
<1>3. /\ Head(c.ops) \in NsOpSet /\ Head(c.ops).dom \in NsDomains
  BY <1>0, <1>2, NsHeadIs DEF NsWorks
<1>4. nsDir[Head(c.ops).dom] \in Nat
  BY <1>3 DEF NsTypeOK
<1>5. c.ops \in Seq(NsOpSet) /\ NsOpsOK(c.ops, c.old, c.new)
  BY <1>2 DEF NsWorks, NsCallSet
<1>6. /\ nsCall' = [nsCall EXCEPT ![a] = e]
      /\ e = (IF nsDir[Head(c.ops).dom] = 0 /\ Head(c.ops).kind = "del" THEN [c EXCEPT !.ops = Tail(c.ops)]
              ELSE [c EXCEPT !.d = nsDir[Head(c.ops).dom], !.pc = IF nsDir[Head(c.ops).dom] = 0 THEN "mkdom" ELSE "cmd"])
      /\ UNCHANGED <<nsLink, nsSessions, nsMuddled>>
  BY DEF SetDomain, NsTypeOK
<1>7. CASE nsDir[Head(c.ops).dom] = 0 /\ Head(c.ops).kind = "del"
  <2>1. PICK t : t = Tail(c.ops)
    OBVIOUS
  <2>2. e = [c EXCEPT !.ops = t]
    BY <1>6, <1>7, <2>1
  <2>3. /\ t \in Seq(NsOpSet) /\ NsOpsOK(t, c.old, c.new)
        /\ \A d, m : NsPending(t, d, m) <=>
                        NsPending(c.ops, d, m) /\ ~(d = Head(c.ops).dom /\ m \in Head(c.ops).cmds)
    BY <1>0, <1>5, <2>1, NsTailOps
  <2>4. e \in NsCallSet /\ e.pc = "dom" /\ e.ops = t /\ e.rs = c.rs /\ e.old = c.old /\ e.new = c.new
    BY <1>0, <1>2, <2>2, <2>3 DEF NsCallSet
  <2>5. NsWorks(e)
    BY <2>3, <2>4 DEF NsWorks
  <2>6. NsGoes(a, e)
    BY <1>1, <1>0, <1>2, <1>6, <2>4, <2>5 DEF NsGoes
  <2> QED
    BY <1>0, <1>2, <1>7, <2>3, <2>4, <2>6
<1>8. CASE ~(nsDir[Head(c.ops).dom] = 0 /\ Head(c.ops).kind = "del")
  <2>1. PICK n, x : n = nsDir[Head(c.ops).dom] /\ x = IF n = 0 THEN "mkdom" ELSE "cmd"
    OBVIOUS
  <2>2. e = [c EXCEPT !.d = n, !.pc = x] /\ n \in Nat
    BY <1>4, <1>6, <1>8, <2>1
  <2>3. x \in NsAfter /\ x \in NsBefore \cup NsAfter /\ x # "dom" /\ x \notin {"size", "erase"}
    BY <2>1 DEF NsAfter
  <2>4. e \in NsCallSet /\ e.pc = x /\ e.d = n /\ e.ops = c.ops /\ e.rs = c.rs /\ e.old = c.old /\ e.new = c.new
    BY <1>2, <2>2, <2>3 DEF NsCallSet
  <2>5. NsWorks(e)
    BY <1>0, <1>5, <2>3, <2>4 DEF NsWorks
  <2>6. NsGoes(a, e)
    BY <1>0, <1>2, <1>6, <2>3, <2>4, <2>5 DEF NsGoes
  <2> QED
    BY <1>0, <1>2, <1>8, <2>1, <2>4, <2>6
<1> QED
  BY <1>7, <1>8

\* NSDomainSet::add()
LEMMA NsNewDomainStep ==
  ASSUME NsTypeOK, NsWork, NEW a \in NsActors, SetNewDomain(a), NEW c, c = nsCall[a], NEW e, e = nsCall'[a]
  PROVE  /\ c \in NsCallSet /\ NsWorks(c) /\ c.ops # <<>> /\ c.pc = "mkdom" /\ NsGoes(a, e)
         /\ e.ops = c.ops /\ e.pc = "cmd" /\ e.d = Len(nsDomObj) + 1
         /\ nsDomObj' \in Seq([NsCmds -> Nat]) /\ Len(nsDomObj') = Len(nsDomObj) + 1
         /\ \A o \in 1 .. Len(nsDomObj) : nsDomObj'[o] = nsDomObj[o]
         /\ \A m \in NsCmds : nsDomObj'[Len(nsDomObj) + 1][m] = 0
         /\ nsDir' \in [NsDomains -> Nat] /\ nsSetObj' = nsSetObj
         /\ \A d \in NsDomains : nsDir'[d] = IF d = Head(c.ops).dom THEN Len(nsDomObj) + 1 ELSE nsDir[d]
<1>0. c.pc = "mkdom"
  BY DEF SetNewDomain
<1>1. c.pc \in NsAfter
  BY <1>0 DEF NsAfter
<1>2. c \in NsCallSet /\ NsChanges(a) /\ NsWorks(c)
  BY <1>1, NsAt
<1>3. c.ops # <<>>
  BY <1>0, <1>2 DEF NsWorks
<1>4. /\ Head(c.ops) \in NsOpSet /\ Head(c.ops).dom \in NsDomains
  BY <1>2, <1>3, NsHeadIs DEF NsWorks
<1> DEFINE z == [m \in NsCmds |-> 0]
<1>5. z \in [NsCmds -> Nat] /\ nsDomObj \in Seq([NsCmds -> Nat])
  BY DEF NsTypeOK
<1>6. nsDomObj' = Append(nsDomObj, z)
  BY DEF SetNewDomain
<1>7. \A m \in NsCmds : z[m] = 0
  OBVIOUS
<1> HIDE DEF z
<1>8. /\ nsDomObj' \in Seq([NsCmds -> Nat]) /\ Len(nsDomObj') = Len(nsDomObj) + 1
      /\ \A o \in 1 .. Len(nsDomObj) : nsDomObj'[o] = nsDomObj[o]
      /\ nsDomObj'[Len(nsDomObj) + 1] = z
  BY <1>5, <1>6, AppendProperties
<1>9. Len(nsDomObj) \in Nat
  BY <1>5
<1>10. PICK n : n = Len(nsDomObj) + 1
  OBVIOUS
<1>11. n \in Nat /\ n = Len(nsDomObj')
  BY <1>8, <1>9, <1>10
<1>12. /\ nsDir' = [nsDir EXCEPT ![Head(c.ops).dom] = n]
       /\ nsCall' = [nsCall EXCEPT ![a].d = n, ![a].pc = "cmd"]
       /\ UNCHANGED <<nsLink, nsSessions, nsMuddled, nsSetObj>>
  BY <1>11 DEF SetNewDomain
<1>13. e = [c EXCEPT !.d = n, !.pc = "cmd"] /\ nsCall' = [nsCall EXCEPT ![a] = e]
  BY <1>12 DEF NsTypeOK
<1>14. "cmd" \in NsAfter /\ "cmd" \in NsBefore \cup NsAfter
  BY DEF NsAfter
<1>15. e \in NsCallSet /\ e.pc = "cmd" /\ e.d = n /\ e.ops = c.ops /\ e.rs = c.rs /\ e.old = c.old /\ e.new = c.new
  BY <1>2, <1>11, <1>13, <1>14 DEF NsCallSet
<1>16. NsWorks(e)
  BY <1>2, <1>3, <1>15 DEF NsWorks
<1>17. NsGoes(a, e)
  BY <1>2, <1>12, <1>13, <1>14, <1>15, <1>16 DEF NsGoes
<1>18. nsDir' \in [NsDomains -> Nat] /\ \A d \in NsDomains : nsDir'[d] = IF d = Head(c.ops).dom THEN n ELSE nsDir[d]
  BY <1>4, <1>11, <1>12 DEF NsTypeOK
<1> QED
  BY <1>0, <1>2, <1>3, <1>7, <1>8, <1>10, <1>12, <1>15, <1>17, <1>18

\* NSDomain::get()
LEMMA NsNodesStep ==
  ASSUME NsTypeOK, NsWork, NsHeld, NEW a \in NsActors, SetNodes(a), NEW c, c = nsCall[a], NEW e, e = nsCall'[a]
  PROVE  /\ c \in NsCallSet /\ NsWorks(c) /\ c.ops # <<>> /\ c.pc = "cmd" /\ NsGoes(a, e)
         /\ nsDomObj[c.d][NsNextCmd(c)] = 0 /\ Head(c.ops).kind = "del" => e = NsCmdDone(c)
         /\ ~(nsDomObj[c.d][NsNextCmd(c)] = 0 /\ Head(c.ops).kind = "del") =>
              /\ e.ops = c.ops /\ e.d = c.d /\ e.ns = nsDomObj[c.d][NsNextCmd(c)]
              /\ e.pc = IF e.ns = 0 THEN "mkset" ELSE "node"
<1>0. c.pc = "cmd"
  BY DEF SetNodes
<1>1. c.pc \in NsAfter
  BY <1>0 DEF NsAfter
<1>2. c \in NsCallSet /\ NsChanges(a) /\ NsWorks(c)
  BY <1>1, NsAt
<1>3. c.ops # <<>> /\ NsOpsOK(c.ops, c.old, c.new)
  BY <1>0, <1>2 DEF NsWorks
<1>4. NsNextCmd(c) \in NsCmds
  BY <1>2, <1>3, NsHeadIs
<1>5. c.d \in 1 .. Len(nsDomObj)
  BY <1>0 DEF NsHeld, NsHolds
<1>6. nsDomObj[c.d][NsNextCmd(c)] \in Nat
  BY <1>4, <1>5 DEF NsTypeOK
<1>7. /\ nsCall' = [nsCall EXCEPT ![a] = e]
      /\ e = (IF nsDomObj[c.d][NsNextCmd(c)] = 0 /\ Head(c.ops).kind = "del" THEN NsCmdDone(c)
              ELSE [c EXCEPT !.ns = nsDomObj[c.d][NsNextCmd(c)],
                             !.pc = IF nsDomObj[c.d][NsNextCmd(c)] = 0 THEN "mkset" ELSE "node"])
      /\ UNCHANGED <<nsLink, nsSessions, nsMuddled>>
  BY DEF SetNodes, NsTypeOK
<1>8. CASE nsDomObj[c.d][NsNextCmd(c)] = 0 /\ Head(c.ops).kind = "del"
  <2>1. e = NsCmdDone(c)
    BY <1>7, <1>8
  <2>2. /\ e \in NsCallSet /\ e.rs = c.rs /\ e.old = c.old /\ e.new = c.new
        /\ e.pc \in {"dom", "cmd"} /\ NsOpsOK(e.ops, e.old, e.new)
        /\ e.pc = "cmd" => e.ops # <<>>
    BY <1>2, <1>3, <2>1, NsCmdDoneIs
  <2>3. NsWorks(e) /\ e.pc \in NsAfter
    BY <2>2 DEF NsWorks, NsAfter
  <2>4. NsGoes(a, e)
    BY <1>2, <1>7, <2>2, <2>3 DEF NsGoes
  <2> QED
    BY <1>0, <1>2, <1>3, <1>8, <2>1, <2>4
<1>9. CASE ~(nsDomObj[c.d][NsNextCmd(c)] = 0 /\ Head(c.ops).kind = "del")
  <2>1. PICK n, x : n = nsDomObj[c.d][NsNextCmd(c)] /\ x = IF n = 0 THEN "mkset" ELSE "node"
    OBVIOUS
  <2>2. e = [c EXCEPT !.ns = n, !.pc = x] /\ n \in Nat
    BY <1>6, <1>7, <1>9, <2>1
  <2>3. x \in NsAfter /\ x \in NsBefore \cup NsAfter /\ x # "dom" /\ x \notin {"size", "erase"}
    BY <2>1 DEF NsAfter
  <2>4. /\ e \in NsCallSet /\ e.pc = x /\ e.d = c.d /\ e.ns = n /\ e.ops = c.ops
        /\ e.rs = c.rs /\ e.old = c.old /\ e.new = c.new
    BY <1>2, <2>2, <2>3 DEF NsCallSet
  <2>5. NsWorks(e)
    BY <1>3, <2>3, <2>4 DEF NsWorks
  <2>6. NsGoes(a, e)
    BY <1>2, <1>7, <2>3, <2>4, <2>5 DEF NsGoes
  <2> QED
    BY <1>0, <1>2, <1>3, <1>9, <2>1, <2>4, <2>6
<1> QED
  BY <1>8, <1>9

\* NSDomain::add()
LEMMA NsNewNodesStep ==
  ASSUME NsTypeOK, NsWork, NsHeld, NEW a \in NsActors, SetNewNodes(a), NEW c, c = nsCall[a], NEW e, e = nsCall'[a]
  PROVE  /\ c \in NsCallSet /\ NsWorks(c) /\ c.ops # <<>> /\ c.pc = "mkset" /\ NsGoes(a, e)
         /\ e.ops = c.ops /\ e.pc = "node" /\ e.d = c.d /\ e.ns = Len(nsSetObj) + 1
         /\ nsSetObj' \in Seq([NsNodes -> Nat]) /\ Len(nsSetObj') = Len(nsSetObj) + 1
         /\ \A o \in 1 .. Len(nsSetObj) : nsSetObj'[o] = nsSetObj[o]
         /\ \A n \in NsNodes : nsSetObj'[Len(nsSetObj) + 1][n] = 0
         /\ nsDir' = nsDir /\ nsDomObj' \in Seq([NsCmds -> Nat]) /\ Len(nsDomObj') = Len(nsDomObj)
         /\ \A o \in 1 .. Len(nsDomObj), m \in NsCmds :
               nsDomObj'[o][m] = IF o = c.d /\ m = NsNextCmd(c) THEN Len(nsSetObj) + 1 ELSE nsDomObj[o][m]
<1>0. c.pc = "mkset"
  BY DEF SetNewNodes
<1>1. c.pc \in NsAfter
  BY <1>0 DEF NsAfter
<1>2. c \in NsCallSet /\ NsChanges(a) /\ NsWorks(c)
  BY <1>1, NsAt
<1>3. c.ops # <<>>
  BY <1>0, <1>2 DEF NsWorks
<1>4. NsNextCmd(c) \in NsCmds
  BY <1>2, <1>3, NsHeadIs DEF NsWorks
<1>5. c.d \in 1 .. Len(nsDomObj)
  BY <1>0 DEF NsHeld, NsHolds
<1> DEFINE z == [n \in NsNodes |-> 0]
<1>6. z \in [NsNodes -> Nat] /\ nsSetObj \in Seq([NsNodes -> Nat]) /\ nsDomObj \in Seq([NsCmds -> Nat])
  BY DEF NsTypeOK
<1>7. nsSetObj' = Append(nsSetObj, z)
  BY DEF SetNewNodes
<1>8. \A n \in NsNodes : z[n] = 0
  OBVIOUS
<1> HIDE DEF z
<1>9. /\ nsSetObj' \in Seq([NsNodes -> Nat]) /\ Len(nsSetObj') = Len(nsSetObj) + 1
      /\ \A o \in 1 .. Len(nsSetObj) : nsSetObj'[o] = nsSetObj[o]
      /\ nsSetObj'[Len(nsSetObj) + 1] = z
  BY <1>6, <1>7, AppendProperties
<1>10. Len(nsSetObj) \in Nat
  BY <1>6
<1>11. PICK n, k : n = Len(nsSetObj) + 1 /\ k = NsNextCmd(c)
  OBVIOUS
<1>12. n \in Nat /\ n = Len(nsSetObj') /\ k \in NsCmds
  BY <1>4, <1>9, <1>10, <1>11
<1>13. /\ nsDomObj' = [nsDomObj EXCEPT ![c.d] = [nsDomObj[c.d] EXCEPT ![k] = n]]
       /\ nsCall' = [nsCall EXCEPT ![a].ns = n, ![a].pc = "node"]
       /\ UNCHANGED <<nsLink, nsSessions, nsMuddled, nsDir>>
  BY <1>11, <1>12 DEF SetNewNodes
<1>14. e = [c EXCEPT !.ns = n, !.pc = "node"] /\ nsCall' = [nsCall EXCEPT ![a] = e]
  BY <1>13 DEF NsTypeOK
<1>15. "node" \in NsAfter /\ "node" \in NsBefore \cup NsAfter
  BY DEF NsAfter
<1>16. /\ e \in NsCallSet /\ e.pc = "node" /\ e.d = c.d /\ e.ns = n /\ e.ops = c.ops
       /\ e.rs = c.rs /\ e.old = c.old /\ e.new = c.new
  BY <1>2, <1>12, <1>14, <1>15 DEF NsCallSet
<1>17. NsWorks(e)
  BY <1>2, <1>3, <1>16 DEF NsWorks
<1>18. NsGoes(a, e)
  BY <1>2, <1>13, <1>14, <1>15, <1>16, <1>17 DEF NsGoes
<1>19. /\ nsDomObj' \in Seq([NsCmds -> Nat]) /\ Len(nsDomObj') = Len(nsDomObj)
       /\ \A o \in 1 .. Len(nsDomObj), m \in NsCmds :
               nsDomObj'[o][m] = IF o = c.d /\ m = k THEN n ELSE nsDomObj[o][m]
  <2>1. NsWritten(nsDomObj', nsDomObj, c.d, k, n)
    BY <1>13 DEF NsWritten
  <2>2. NsResult(NsCmds, Nat, nsDomObj', nsDomObj, c.d, k, n)
    BY <2>1, <1>5, <1>6, <1>12, NsSlotWrite, Zenon
  <2> QED
    BY <2>2 DEF NsResult
<1> QED
  BY <1>0, <1>2, <1>3, <1>8, <1>9, <1>11, <1>13, <1>16, <1>18, <1>19

\* NSNodeSet::add() and del()
LEMMA NsNodeStep ==
  ASSUME NsTypeOK, NsWork, NsHeld, NEW a \in NsActors, SetNode(a), NEW c, c = nsCall[a], NEW e, e = nsCall'[a],
         NEW n, n = (IF Head(c.ops).kind = "del" THEN c.old.node ELSE c.new.node),
         NEW w, w = (IF Head(c.ops).kind = "del" THEN 0 ELSE c.new.weight)
  PROVE  /\ c \in NsCallSet /\ NsWorks(c) /\ c.ops # <<>> /\ c.pc = "node" /\ NsGoes(a, e)
         /\ \/ e = NsCmdDone(c)
            \/ e.pc = "size" /\ e.ops = c.ops /\ e.d = c.d /\ e.ns = c.ns /\ Head(c.ops).kind = "del"
         /\ nsDir' = nsDir /\ nsDomObj' = nsDomObj
         /\ nsSetObj' \in Seq([NsNodes -> Nat]) /\ Len(nsSetObj') = Len(nsSetObj)
         /\ \A o \in 1 .. Len(nsSetObj), x \in NsNodes :
               nsSetObj'[o][x] = IF o = c.ns /\ x = n THEN w ELSE nsSetObj[o][x]
<1>0. c.pc = "node"
  BY DEF SetNode
<1>1. c.pc \in NsAfter
  BY <1>0 DEF NsAfter
<1>2. c \in NsCallSet /\ NsChanges(a) /\ NsWorks(c)
  BY <1>1, NsAt
<1>3. c.ops # <<>> /\ NsOpsOK(c.ops, c.old, c.new)
  BY <1>0, <1>2 DEF NsWorks
<1>4. /\ Head(c.ops).kind \in {"del", "add"}
      /\ Head(c.ops).kind = "del" => c.old.regs # {}
      /\ Head(c.ops).kind = "add" => c.new.regs # {}
  BY <1>2, <1>3, NsHeadIs
<1>5. n \in NsNodes /\ w \in Nat
  <2>1. c.old \in NsAllInfos /\ c.new \in NsAllInfos
    BY <1>2 DEF NsCallSet
  <2> QED
    BY <2>1, <1>4, NsInfoIs
<1>6. c.ns \in 1 .. Len(nsSetObj) /\ nsSetObj \in Seq([NsNodes -> Nat])
  BY <1>0 DEF NsHeld, NsHolds, NsTypeOK
<1>7. /\ nsSetObj' = [nsSetObj EXCEPT ![c.ns] = [nsSetObj[c.ns] EXCEPT ![n] = w]]
      /\ nsCall' = [nsCall EXCEPT ![a] =
             IF Head(c.ops).kind = "del" THEN [c EXCEPT !.pc = "size"] ELSE NsCmdDone(c)]
      /\ UNCHANGED <<nsLink, nsSessions, nsMuddled, nsDir, nsDomObj>>
  BY DEF SetNode
<1>8. /\ nsSetObj' \in Seq([NsNodes -> Nat]) /\ Len(nsSetObj') = Len(nsSetObj)
      /\ \A o \in 1 .. Len(nsSetObj), x \in NsNodes :
               nsSetObj'[o][x] = IF o = c.ns /\ x = n THEN w ELSE nsSetObj[o][x]
  <2>1. NsWritten(nsSetObj', nsSetObj, c.ns, n, w)
    BY <1>7 DEF NsWritten
  <2>2. NsResult(NsNodes, Nat, nsSetObj', nsSetObj, c.ns, n, w)
    BY <2>1, <1>5, <1>6, NsSlotWrite, Zenon
  <2> QED
    BY <2>2 DEF NsResult
<1>9. /\ nsCall' = [nsCall EXCEPT ![a] = e]
      /\ e = (IF Head(c.ops).kind = "del" THEN [c EXCEPT !.pc = "size"] ELSE NsCmdDone(c))
  BY <1>7 DEF NsTypeOK
<1>10. CASE Head(c.ops).kind = "del"
  <2>1. e = [c EXCEPT !.pc = "size"]
    BY <1>9, <1>10
  <2>2. "size" \in NsAfter /\ "size" \in NsBefore \cup NsAfter
    BY DEF NsAfter
  <2>3. /\ e \in NsCallSet /\ e.pc = "size" /\ e.d = c.d /\ e.ns = c.ns /\ e.ops = c.ops
        /\ e.rs = c.rs /\ e.old = c.old /\ e.new = c.new
    BY <1>2, <2>1, <2>2 DEF NsCallSet
  <2>4. NsWorks(e)
    BY <1>3, <1>10, <2>3 DEF NsWorks
  <2>5. NsGoes(a, e)
    BY <1>2, <1>7, <1>9, <2>2, <2>3, <2>4 DEF NsGoes
  <2> QED
    BY <1>0, <1>2, <1>3, <1>7, <1>8, <1>10, <2>3, <2>5
<1>11. CASE Head(c.ops).kind # "del"
  <2>1. e = NsCmdDone(c)
    BY <1>9, <1>11
  <2>2. /\ e \in NsCallSet /\ e.rs = c.rs /\ e.old = c.old /\ e.new = c.new
        /\ e.pc \in {"dom", "cmd"} /\ NsOpsOK(e.ops, e.old, e.new)
        /\ e.pc = "cmd" => e.ops # <<>>
    BY <1>2, <1>3, <2>1, NsCmdDoneIs
  <2>3. NsWorks(e) /\ e.pc \in NsAfter
    BY <2>2 DEF NsWorks, NsAfter
  <2>4. NsGoes(a, e)
    BY <1>2, <1>7, <1>9, <2>2, <2>3 DEF NsGoes
  <2> QED
    BY <1>0, <1>2, <1>3, <1>7, <1>8, <2>1, <2>4
<1> QED
  BY <1>10, <1>11

\* NSNodeSet::size()
LEMMA NsSizeStep ==
  ASSUME NsTypeOK, NsWork, NEW a \in NsActors, SetSize(a), NEW c, c = nsCall[a], NEW e, e = nsCall'[a]
  PROVE  /\ c \in NsCallSet /\ NsWorks(c) /\ c.ops # <<>> /\ c.pc = "size" /\ NsGoes(a, e)
         /\ \/ e = NsCmdDone(c)
            \/ /\ e.pc = "erase" /\ e.ops = c.ops /\ e.d = c.d /\ e.ns = c.ns
               /\ \A x \in NsNodes : nsSetObj[c.ns][x] = 0
         /\ nsDir' = nsDir /\ nsDomObj' = nsDomObj /\ nsSetObj' = nsSetObj
<1>0. c.pc = "size"
  BY DEF SetSize
<1>1. c.pc \in NsAfter
  BY <1>0 DEF NsAfter
<1>2. c \in NsCallSet /\ NsChanges(a) /\ NsWorks(c)
  BY <1>1, NsAt
<1>3. c.ops # <<>> /\ NsOpsOK(c.ops, c.old, c.new) /\ Head(c.ops).kind = "del"
  BY <1>0, <1>2 DEF NsWorks
<1>4. /\ nsCall' = [nsCall EXCEPT ![a] =
             IF \A x \in NsNodes : nsSetObj[c.ns][x] = 0 THEN [c EXCEPT !.pc = "erase"] ELSE NsCmdDone(c)]
      /\ UNCHANGED <<nsLink, nsSessions, nsMuddled, nsDir, nsDomObj, nsSetObj>>
  BY DEF SetSize, nsHeap
<1>5. /\ nsCall' = [nsCall EXCEPT ![a] = e]
      /\ e = (IF \A x \in NsNodes : nsSetObj[c.ns][x] = 0 THEN [c EXCEPT !.pc = "erase"] ELSE NsCmdDone(c))
  BY <1>4 DEF NsTypeOK
<1>6. CASE \A x \in NsNodes : nsSetObj[c.ns][x] = 0
  <2>1. e = [c EXCEPT !.pc = "erase"]
    BY <1>5, <1>6
  <2>2. "erase" \in NsAfter /\ "erase" \in NsBefore \cup NsAfter
    BY DEF NsAfter
  <2>3. /\ e \in NsCallSet /\ e.pc = "erase" /\ e.d = c.d /\ e.ns = c.ns /\ e.ops = c.ops
        /\ e.rs = c.rs /\ e.old = c.old /\ e.new = c.new
    BY <1>2, <2>1, <2>2 DEF NsCallSet
  <2>4. NsWorks(e)
    BY <1>3, <2>3 DEF NsWorks
  <2>5. NsGoes(a, e)
    BY <1>2, <1>4, <1>5, <2>2, <2>3, <2>4 DEF NsGoes
  <2> QED
    BY <1>0, <1>2, <1>3, <1>4, <1>6, <2>3, <2>5
<1>7. CASE ~\A x \in NsNodes : nsSetObj[c.ns][x] = 0
  <2>1. e = NsCmdDone(c)
    BY <1>5, <1>7
  <2>2. /\ e \in NsCallSet /\ e.rs = c.rs /\ e.old = c.old /\ e.new = c.new
        /\ e.pc \in {"dom", "cmd"} /\ NsOpsOK(e.ops, e.old, e.new)
        /\ e.pc = "cmd" => e.ops # <<>>
    BY <1>2, <1>3, <2>1, NsCmdDoneIs
  <2>3. NsWorks(e) /\ e.pc \in NsAfter
    BY <2>2 DEF NsWorks, NsAfter
  <2>4. NsGoes(a, e)
    BY <1>2, <1>4, <1>5, <2>2, <2>3 DEF NsGoes
  <2> QED
    BY <1>0, <1>2, <1>3, <1>4, <2>1, <2>4
<1> QED
  BY <1>6, <1>7

\* NSDomain::del()
LEMMA NsEraseStep ==
  ASSUME NsTypeOK, NsWork, NsHeld, NEW a \in NsActors, SetErase(a), NEW c, c = nsCall[a], NEW e, e = nsCall'[a]
  PROVE  /\ c \in NsCallSet /\ NsWorks(c) /\ c.ops # <<>> /\ c.pc = "erase" /\ NsGoes(a, e) /\ e = NsCmdDone(c)
         /\ nsDir' = nsDir /\ nsSetObj' = nsSetObj
         /\ nsDomObj' \in Seq([NsCmds -> Nat]) /\ Len(nsDomObj') = Len(nsDomObj)
         /\ \A o \in 1 .. Len(nsDomObj), m \in NsCmds :
               nsDomObj'[o][m] = IF o = c.d /\ m = NsNextCmd(c) THEN 0 ELSE nsDomObj[o][m]
<1>0. c.pc = "erase"
  BY DEF SetErase
<1>1. c.pc \in NsAfter
  BY <1>0 DEF NsAfter
<1>2. c \in NsCallSet /\ NsChanges(a) /\ NsWorks(c)
  BY <1>1, NsAt
<1>3. c.ops # <<>> /\ NsOpsOK(c.ops, c.old, c.new)
  BY <1>0, <1>2 DEF NsWorks
<1>4. PICK k : k = NsNextCmd(c)
  OBVIOUS
<1>5. k \in NsCmds /\ c.d \in 1 .. Len(nsDomObj) /\ nsDomObj \in Seq([NsCmds -> Nat]) /\ 0 \in Nat
  BY <1>0, <1>2, <1>3, <1>4, NsHeadIs DEF NsHeld, NsHolds, NsTypeOK
<1>6. /\ nsDomObj' = [nsDomObj EXCEPT ![c.d] = [nsDomObj[c.d] EXCEPT ![k] = 0]]
      /\ nsCall' = [nsCall EXCEPT ![a] = NsCmdDone(c)]
      /\ UNCHANGED <<nsLink, nsSessions, nsMuddled, nsDir, nsSetObj>>
  BY <1>4 DEF SetErase
<1>7. /\ nsDomObj' \in Seq([NsCmds -> Nat]) /\ Len(nsDomObj') = Len(nsDomObj)
      /\ \A o \in 1 .. Len(nsDomObj), m \in NsCmds :
               nsDomObj'[o][m] = IF o = c.d /\ m = k THEN 0 ELSE nsDomObj[o][m]
  <2>1. NsWritten(nsDomObj', nsDomObj, c.d, k, 0)
    BY <1>6 DEF NsWritten
  <2>2. NsResult(NsCmds, Nat, nsDomObj', nsDomObj, c.d, k, 0)
    BY <2>1, <1>5, NsSlotWrite, Zenon
  <2> QED
    BY <2>2 DEF NsResult
<1>8. e = NsCmdDone(c) /\ nsCall' = [nsCall EXCEPT ![a] = e]
  BY <1>6 DEF NsTypeOK
<1>9. /\ e \in NsCallSet /\ e.rs = c.rs /\ e.old = c.old /\ e.new = c.new
      /\ e.pc \in {"dom", "cmd"} /\ NsOpsOK(e.ops, e.old, e.new)
      /\ e.pc = "cmd" => e.ops # <<>>
  BY <1>2, <1>3, <1>8, NsCmdDoneIs
<1>10. NsWorks(e) /\ e.pc \in NsAfter
  BY <1>9 DEF NsWorks, NsAfter
<1>11. NsGoes(a, e)
  BY <1>2, <1>6, <1>8, <1>9, <1>10 DEF NsGoes
<1> QED
  BY <1>0, <1>2, <1>3, <1>4, <1>6, <1>7, <1>8, <1>11

-----------------------------------------------------------------------------
(* The objects that calls point to                                         *)

\* A step that leaves the heap alone.
LEMMA NsQuietHeap ==
  ASSUME NsHeap, NsHeld, NsPlace, UNCHANGED <<nsDir, nsDomObj, nsSetObj>>, nsMuddled \subseteq nsMuddled',
         NEW a \in NsActors, \A b \in NsActors : b # a => nsCall'[b] = nsCall[b],
         NsHolds(nsCall[a])', NsPlaced(nsCall[a])'
  PROVE  NsHeap' /\ NsHeld' /\ NsPlace'
<1>1. NsHeap'
  BY DEF NsHeap
<1>2. NsHeld'
  <2> SUFFICES ASSUME NEW b \in NsActors PROVE NsHolds(nsCall[b])'
    BY DEF NsHeld
  <2>1. CASE b = a
    BY <2>1
  <2>2. CASE b # a
    <3>1. NsHolds(nsCall[b]) /\ nsCall'[b] = nsCall[b]
      BY <2>2 DEF NsHeld
    <3> QED
      BY <3>1 DEF NsHolds
  <2> QED
    BY <2>1, <2>2
<1>3. NsPlace'
  <2> SUFFICES ASSUME NEW b \in NsActors PROVE NsPlaced(nsCall[b])'
    BY DEF NsPlace
  <2>1. CASE b = a
    BY <2>1
  <2>2. CASE b # a
    <3>1. NsPlaced(nsCall[b]) /\ nsCall'[b] = nsCall[b]
      BY <2>2 DEF NsPlace
    <3> QED
      BY <3>1 DEF NsPlaced
  <2> QED
    BY <2>1, <2>2
<1> QED
  BY <1>1, <1>2, <1>3

\* A call that holds no pointer.
LEMMA NsHoldsNone ==
  ASSUME NEW a \in NsActors, nsCall'[a].pc \in {"idle", "set", "diff", "dom"}
  PROVE  NsHolds(nsCall[a])' /\ NsPlaced(nsCall[a])'
BY DEF NsHolds, NsPlaced, NsAfter

\* Where two calls are at work in domains that are not muddled.
LEMMA NsApart ==
  ASSUME NsTypeOK, NsControl, NsWork, NsHeld, NsPlace,
         NEW a \in NsActors, nsCall[a].pc \in NsAfter \ {"dom"},
         NEW b \in NsActors, b # a, nsCall[b].pc \in NsAfter \ {"dom"}, Head(nsCall[b].ops).dom \notin nsMuddled
  PROVE  /\ Head(nsCall[b].ops).dom # Head(nsCall[a].ops).dom /\ Head(nsCall[b].ops).dom \in NsDomains
         /\ nsCall[a].pc # "mkdom" => nsCall[b].d # nsCall[a].d
<1>1. /\ nsCall[a] \in NsCallSet /\ NsChanges(a) /\ NsWorks(nsCall[a])
      /\ nsCall[b] \in NsCallSet /\ NsRuns(b) /\ NsWorks(nsCall[b])
  BY NsAt
<1>2. nsCall[a].ops # <<>> /\ nsCall[b].ops # <<>>
  BY <1>1 DEF NsWorks
<1>3. /\ Head(nsCall[a].ops).dom \in NsAll(nsCall[a]) /\ Head(nsCall[b].ops).dom \in NsAll(nsCall[b])
      /\ Head(nsCall[b].ops).dom \in NsDomains
  BY <1>1, <1>2, NsHeadIs DEF NsWorks
<1>4. NsAll(nsCall[a]) \cap NsAll(nsCall[b]) \subseteq nsMuddled
  BY <1>1 DEF NsControl, NsPairs
<1>5. Head(nsCall[b].ops).dom # Head(nsCall[a].ops).dom
  BY <1>3, <1>4
<1>6. ASSUME nsCall[a].pc # "mkdom" PROVE nsCall[b].d # nsCall[a].d
  <2>1. nsDir[Head(nsCall[b].ops).dom] = nsCall[b].d
    BY DEF NsPlace, NsPlaced
  <2>2. nsCall[a].pc \in {"cmd", "mkset", "node", "size", "erase"}
    BY <1>6 DEF NsAfter
  <2>3. \A d \in NsDomains : nsDir[d] = nsCall[a].d => d = Head(nsCall[a].ops).dom
    BY <2>2 DEF NsHeld, NsHolds
  <2> QED
    BY <2>1, <2>3, <1>3, <1>5
<1> QED
  BY <1>3, <1>5, <1>6

\* The pointers after the domain was looked up.
LEMMA NsDomainHeap ==
  ASSUME NsTypeOK, NsControl, NsWork, NsHeap, NsHeld, NsPlace, NEW a \in NsActors, SetDomain(a)
  PROVE  NsHeap' /\ NsHeld' /\ NsPlace'
<1>1. PICK c, e : c = nsCall[a] /\ e = nsCall'[a]
  OBVIOUS
<1>2. /\ c \in NsCallSet /\ NsWorks(c) /\ c.ops # <<>> /\ c.pc = "dom" /\ NsGoes(a, e)
      /\ nsDir[Head(c.ops).dom] = 0 /\ Head(c.ops).kind = "del" => e.pc = "dom"
      /\ ~(nsDir[Head(c.ops).dom] = 0 /\ Head(c.ops).kind = "del") =>
              /\ e.ops = c.ops /\ e.d = nsDir[Head(c.ops).dom] /\ e.pc = IF e.d = 0 THEN "mkdom" ELSE "cmd"
  BY <1>1, NsDomainStep
<1>3. UNCHANGED <<nsDir, nsDomObj, nsSetObj>> /\ nsMuddled' = nsMuddled
  BY DEF SetDomain, nsHeap
<1>4. \A b \in NsActors : b # a => nsCall'[b] = nsCall[b]
  BY <1>2, NsGoesOn
<1>5. NsHolds(nsCall[a])' /\ NsPlaced(nsCall[a])'
  <2>1. CASE nsDir[Head(c.ops).dom] = 0 /\ Head(c.ops).kind = "del"
    BY <2>1, <1>1, <1>2, NsHoldsNone
  <2>2. CASE ~(nsDir[Head(c.ops).dom] = 0 /\ Head(c.ops).kind = "del")
    <3>1. Head(c.ops).dom \in NsDomains
      BY <1>2, NsHeadIs DEF NsWorks
    <3>2. /\ e.ops = c.ops /\ e.d = nsDir[Head(c.ops).dom] /\ e.pc = IF e.d = 0 THEN "mkdom" ELSE "cmd"
          /\ e.d \in Nat /\ e.d <= Len(nsDomObj)
          /\ \A d \in NsDomains : nsDir[d] = e.d /\ e.d # 0 => d = Head(e.ops).dom
      BY <1>2, <2>2, <3>1 DEF NsHeap, NsTypeOK
    <3>3. Len(nsDomObj) \in Nat
      BY DEF NsTypeOK
    <3>4. e.d # 0 => e.d \in 1 .. Len(nsDomObj)
      BY <3>2, <3>3
    <3>5. NsHolds(nsCall[a])'
      BY <1>1, <1>3, <3>2, <3>4 DEF NsHolds
    <3>6. NsPlaced(nsCall[a])'
      BY <1>1, <1>3, <3>2 DEF NsPlaced
    <3> QED
      BY <3>5, <3>6
  <2> QED
    BY <2>1, <2>2
<1> QED
  BY <1>3, <1>4, <1>5, NsQuietHeap

\* The pointers after the node set was looked up.
LEMMA NsNodesHeap ==
  ASSUME NsTypeOK, NsControl, NsWork, NsHeap, NsHeld, NsPlace, NEW a \in NsActors, SetNodes(a)
  PROVE  NsHeap' /\ NsHeld' /\ NsPlace'
<1>1. PICK c, e : c = nsCall[a] /\ e = nsCall'[a]
  OBVIOUS
<1>2. /\ c \in NsCallSet /\ NsWorks(c) /\ c.ops # <<>> /\ c.pc = "cmd" /\ NsGoes(a, e)
      /\ nsDomObj[c.d][NsNextCmd(c)] = 0 /\ Head(c.ops).kind = "del" => e = NsCmdDone(c)
      /\ ~(nsDomObj[c.d][NsNextCmd(c)] = 0 /\ Head(c.ops).kind = "del") =>
              /\ e.ops = c.ops /\ e.d = c.d /\ e.ns = nsDomObj[c.d][NsNextCmd(c)]
              /\ e.pc = IF e.ns = 0 THEN "mkset" ELSE "node"
  BY <1>1, NsNodesStep
<1>3. UNCHANGED <<nsDir, nsDomObj, nsSetObj>> /\ nsMuddled' = nsMuddled
  BY DEF SetNodes, nsHeap
<1>4. \A b \in NsActors : b # a => nsCall'[b] = nsCall[b]
  BY <1>2, NsGoesOn
<1>5. /\ c.d \in 1 .. Len(nsDomObj)
      /\ \A d \in NsDomains : nsDir[d] = c.d => d = Head(c.ops).dom
      /\ Head(c.ops).dom \notin nsMuddled => nsDir[Head(c.ops).dom] = c.d
  BY <1>1, <1>2 DEF NsHeld, NsHolds, NsPlace, NsPlaced, NsAfter
<1>6. NsHolds(nsCall[a])' /\ NsPlaced(nsCall[a])'
  <2>1. CASE nsDomObj[c.d][NsNextCmd(c)] = 0 /\ Head(c.ops).kind = "del"
    <3>1. /\ e.pc \in {"dom", "cmd"}
          /\ e.pc = "cmd" => Head(e.ops).dom = Head(c.ops).dom /\ e.d = c.d
      BY <1>2, <2>1, NsCmdDoneIs DEF NsWorks
    <3> QED
      BY <1>1, <1>3, <1>5, <3>1 DEF NsHolds, NsPlaced
  <2>2. CASE ~(nsDomObj[c.d][NsNextCmd(c)] = 0 /\ Head(c.ops).kind = "del")
    <3>0. /\ e.ops = c.ops /\ e.d = c.d /\ e.ns = nsDomObj[c.d][NsNextCmd(c)]
          /\ e.pc = IF e.ns = 0 THEN "mkset" ELSE "node"
      BY <1>2, <2>2
    <3>1. NsNextCmd(c) \in NsCmds
      BY <1>2, NsHeadIs DEF NsWorks
    <3>2. NsNextCmd(e) = NsNextCmd(c)
      BY <3>0 DEF NsNextCmd
    <3>3. e.ns \in Nat /\ e.ns <= Len(nsSetObj)
          /\ \A o \in 1 .. Len(nsDomObj), m \in NsCmds :
                nsDomObj[o][m] = e.ns /\ e.ns # 0 => o = e.d /\ m = NsNextCmd(c)
      BY <1>5, <3>0, <3>1 DEF NsHeap, NsTypeOK
    <3>4. Len(nsSetObj) \in Nat
      BY DEF NsTypeOK
    <3>5. e.ns # 0 => e.ns \in 1 .. Len(nsSetObj)
      BY <3>3, <3>4
    <3>6. NsHolds(nsCall[a])'
      BY <1>1, <1>3, <1>5, <3>0, <3>2, <3>3, <3>5 DEF NsHolds
    <3>7. NsPlaced(nsCall[a])'
      BY <1>1, <1>3, <1>5, <3>0, <3>2 DEF NsPlaced
    <3> QED
      BY <3>6, <3>7
  <2> QED
    BY <2>1, <2>2
<1> QED
  BY <1>3, <1>4, <1>6, NsQuietHeap

\* The pointers after a domain was created.
LEMMA NsNewDomainHeap ==
  ASSUME NsTypeOK, NsControl, NsWork, NsHeap, NsHeld, NsPlace, NEW a \in NsActors, SetNewDomain(a)
  PROVE  NsHeap' /\ NsHeld' /\ NsPlace'
<1>1. PICK c, e, L, h : c = nsCall[a] /\ e = nsCall'[a] /\ L = Len(nsDomObj) /\ h = Head(c.ops).dom
  OBVIOUS
<1>2. /\ c \in NsCallSet /\ NsWorks(c) /\ c.ops # <<>> /\ c.pc = "mkdom" /\ NsGoes(a, e)
      /\ e.ops = c.ops /\ e.pc = "cmd" /\ e.d = L + 1
      /\ Len(nsDomObj') = L + 1
      /\ \A o \in 1 .. L : nsDomObj'[o] = nsDomObj[o]
      /\ \A m \in NsCmds : nsDomObj'[L + 1][m] = 0
      /\ nsSetObj' = nsSetObj
      /\ \A d \in NsDomains : nsDir'[d] = IF d = h THEN L + 1 ELSE nsDir[d]
  BY <1>1, NsNewDomainStep
<1>3. (\A b \in NsActors : b # a => nsCall'[b] = nsCall[b]) /\ nsMuddled' = nsMuddled
  BY <1>2, NsGoesOn DEF NsGoes
<1>4. L \in Nat /\ Len(nsSetObj) \in Nat /\ \A o \in 1 .. L, m \in NsCmds : nsDomObj[o][m] \in Nat
  BY <1>1 DEF NsTypeOK
<1>5. \A d \in NsDomains : nsDir[d] \in Nat /\ nsDir[d] <= L
  BY <1>1 DEF NsTypeOK, NsHeap
<1>6. h \in NsDomains
  BY <1>1, <1>2, NsHeadIs DEF NsWorks
<1>7. NsHeap'
  <2>1. \A d \in NsDomains : nsDir'[d] <= Len(nsDomObj')
    BY <1>2, <1>4, <1>5
  <2>2. \A o \in 1 .. L + 1, m \in NsCmds : nsDomObj'[o][m] <= Len(nsSetObj)
    <3> SUFFICES ASSUME NEW o \in 1 .. L + 1, NEW m \in NsCmds PROVE nsDomObj'[o][m] <= Len(nsSetObj)
      OBVIOUS
    <3>1. CASE o = L + 1
      BY <3>1, <1>2, <1>4
    <3>2. CASE o # L + 1
      <4>1. o \in 1 .. L
        BY <3>2, <1>4
      <4> QED
        BY <4>1, <1>1, <1>2 DEF NsHeap
    <3> QED
      BY <3>1, <3>2
  <2>3. \A d, f \in NsDomains : nsDir'[d] = nsDir'[f] /\ nsDir'[d] # 0 => d = f
    <3> SUFFICES ASSUME NEW d \in NsDomains, NEW f \in NsDomains, nsDir'[d] = nsDir'[f], nsDir'[d] # 0 PROVE d = f
      OBVIOUS
    <3>1. CASE d = h \/ f = h
      BY <3>1, <1>2, <1>4, <1>5
    <3>2. CASE d # h /\ f # h
      BY <3>2, <1>2 DEF NsHeap
    <3> QED
      BY <3>1, <3>2
  <2>4. \A o, p \in 1 .. L + 1, m, k \in NsCmds :
          nsDomObj'[o][m] = nsDomObj'[p][k] /\ nsDomObj'[o][m] # 0 => o = p /\ m = k
    <3> SUFFICES ASSUME NEW o \in 1 .. L + 1, NEW p \in 1 .. L + 1, NEW m \in NsCmds, NEW k \in NsCmds,
                        nsDomObj'[o][m] = nsDomObj'[p][k], nsDomObj'[o][m] # 0
                 PROVE  o = p /\ m = k
      OBVIOUS
    <3>1. o # L + 1 /\ p # L + 1
      BY <1>2
    <3>2. o \in 1 .. L /\ p \in 1 .. L
      BY <3>1, <1>4
    <3> QED
      BY <3>2, <1>1, <1>2 DEF NsHeap
  <2> QED
    BY <2>1, <2>2, <2>3, <2>4, <1>2 DEF NsHeap
<1>8. ASSUME NEW b \in NsActors, b # a PROVE NsHolds(nsCall[b])' /\ NsPlaced(nsCall[b])'
  <2> DEFINE q == nsCall[b]
  <2>1. nsCall'[b] = q /\ NsHolds(q) /\ NsPlaced(q)
    BY <1>3, <1>8 DEF NsHeld, NsPlace
  <2>2. \A o \in 1 .. L : o \in 1 .. L + 1
    BY <1>4
  <2>3. ASSUME q.pc \in {"cmd", "mkset", "node", "size", "erase"}
        PROVE  q.d \in 1 .. L + 1 /\ \A d \in NsDomains : nsDir'[d] = q.d => d = Head(q.ops).dom
    <3>1. q.d \in 1 .. L /\ \A d \in NsDomains : nsDir[d] = q.d => d = Head(q.ops).dom
      BY <2>1, <2>3, <1>1 DEF NsHolds
    <3>2. q.d # L + 1
      BY <3>1, <1>4
    <3> QED
      BY <3>1, <3>2, <2>2, <1>2
  <2>4. ASSUME q.pc \in {"node", "size", "erase"}
        PROVE  /\ q.ns \in 1 .. Len(nsSetObj)
               /\ \A o \in 1 .. L + 1, m \in NsCmds : nsDomObj'[o][m] = q.ns => o = q.d /\ m = NsNextCmd(q)
    <3>1. /\ q.ns \in 1 .. Len(nsSetObj)
          /\ \A o \in 1 .. L, m \in NsCmds : nsDomObj[o][m] = q.ns => o = q.d /\ m = NsNextCmd(q)
      BY <2>1, <2>4, <1>1 DEF NsHolds
    <3>2. q.ns # 0 /\ \A o \in 1 .. L + 1 : o # L + 1 => o \in 1 .. L
      BY <3>1, <1>4
    <3> QED
      BY <3>1, <3>2, <1>2
  <2>5. NsHolds(nsCall[b])'
    BY <2>1, <2>3, <2>4, <1>2 DEF NsHolds
  <2>6. ASSUME q.pc \in NsAfter \ {"dom"}, Head(q.ops).dom \notin nsMuddled
        PROVE  /\ nsDir'[Head(q.ops).dom] = q.d
               /\ q.pc \in {"mkset", "node", "size", "erase"} => nsDomObj'[q.d] = nsDomObj[q.d]
    <3>1. Head(q.ops).dom # h /\ Head(q.ops).dom \in NsDomains
      BY <2>6, <1>1, <1>2, <1>8, NsApart DEF NsAfter
    <3>2. nsDir[Head(q.ops).dom] = q.d
      BY <2>1, <2>6 DEF NsPlaced
    <3>3. q.pc \in {"mkset", "node", "size", "erase"} => q.d \in 1 .. L
      BY <2>1, <1>1 DEF NsHolds
    <3> QED
      BY <3>1, <3>2, <3>3, <1>2
  <2>7. NsPlaced(nsCall[b])'
    BY <2>1, <2>6, <1>2, <1>3 DEF NsPlaced
  <2> QED
    BY <2>5, <2>7
<1>9. NsHolds(nsCall[a])' /\ NsPlaced(nsCall[a])'
  <2>1. L + 1 \in 1 .. L + 1 /\ \A d \in NsDomains : nsDir'[d] = L + 1 => d = h
    BY <1>2, <1>4, <1>5
  <2>2. nsDir'[h] = L + 1
    BY <1>2, <1>6
  <2> QED
    BY <2>1, <2>2, <1>1, <1>2 DEF NsHolds, NsPlaced
<1>10. \A b \in NsActors : NsHolds(nsCall[b])' /\ NsPlaced(nsCall[b])'
  BY <1>8, <1>9
<1> QED
  BY <1>7, <1>10 DEF NsHeld, NsPlace

\* What a call at a command holds.
LEMMA NsCmdHeld ==
  ASSUME NsHeld, NsPlace, NEW a \in NsActors, NEW c, c = nsCall[a], c.pc \in {"cmd", "mkset", "node", "size", "erase"}
  PROVE  /\ c.d \in 1 .. Len(nsDomObj)
         /\ \A d \in NsDomains : nsDir[d] = c.d => d = Head(c.ops).dom
         /\ c.pc = "mkset" => c.ns = 0
         /\ c.pc \in {"node", "size", "erase"} =>
              /\ c.ns \in 1 .. Len(nsSetObj)
              /\ \A o \in 1 .. Len(nsDomObj), m \in NsCmds : nsDomObj[o][m] = c.ns => o = c.d /\ m = NsNextCmd(c)
         /\ Head(c.ops).dom \notin nsMuddled =>
              /\ nsDir[Head(c.ops).dom] = c.d
              /\ c.pc \in {"mkset", "node", "size", "erase"} => nsDomObj[c.d][NsNextCmd(c)] = c.ns
              /\ c.pc = "erase" => \A n \in NsNodes : nsSetObj[c.ns][n] = 0
<1>1. NsHolds(c) /\ NsPlaced(c)
  BY DEF NsHeld, NsPlace
<1>2. c.pc \in NsAfter \ {"dom"}
  BY DEF NsAfter
<1>3. /\ c.d \in 1 .. Len(nsDomObj)
      /\ \A d \in NsDomains : nsDir[d] = c.d => d = Head(c.ops).dom
      /\ c.pc = "mkset" => c.ns = 0
      /\ c.pc \in {"node", "size", "erase"} =>
              /\ c.ns \in 1 .. Len(nsSetObj)
              /\ \A o \in 1 .. Len(nsDomObj), m \in NsCmds : nsDomObj[o][m] = c.ns => o = c.d /\ m = NsNextCmd(c)
  BY <1>1 DEF NsHolds
<1>4. Head(c.ops).dom \notin nsMuddled =>
              /\ nsDir[Head(c.ops).dom] = c.d
              /\ c.pc \in {"mkset", "node", "size", "erase"} => nsDomObj[c.d][NsNextCmd(c)] = c.ns
              /\ c.pc = "erase" => \A n \in NsNodes : nsSetObj[c.ns][n] = 0
  BY <1>1, <1>2 DEF NsPlaced
<1> QED
  BY <1>3, <1>4

\* A call after its work on a command still holds its domain.
LEMMA NsDoneHeld ==
  ASSUME NEW a \in NsActors, NEW c \in NsCallSet, NsWorks(c), c.ops # <<>>, NEW e, e = nsCall'[a], e = NsCmdDone(c),
         nsDir' = nsDir, nsMuddled' = nsMuddled, c.d \in 1 .. Len(nsDomObj'),
         \A d \in NsDomains : nsDir[d] = c.d => d = Head(c.ops).dom,
         Head(c.ops).dom \notin nsMuddled => nsDir[Head(c.ops).dom] = c.d
  PROVE  NsHolds(nsCall[a])' /\ NsPlaced(nsCall[a])'
<1>1. /\ e.pc \in {"dom", "cmd"}
      /\ e.pc = "cmd" => Head(e.ops).dom = Head(c.ops).dom /\ e.d = c.d
  BY NsCmdDoneIs DEF NsWorks
<1> QED
  BY <1>1 DEF NsHolds, NsPlaced

\* The pointers after a node set was created.
LEMMA NsNewNodesHeap ==
  ASSUME NsTypeOK, NsControl, NsWork, NsHeap, NsHeld, NsPlace, NEW a \in NsActors, SetNewNodes(a)
  PROVE  NsHeap' /\ NsHeld' /\ NsPlace'
<1>1. PICK c, e, L, S, k : /\ c = nsCall[a] /\ e = nsCall'[a] /\ L = Len(nsDomObj) /\ S = Len(nsSetObj)
                           /\ k = NsNextCmd(c)
  OBVIOUS
<1>2. /\ c \in NsCallSet /\ NsWorks(c) /\ c.ops # <<>> /\ c.pc = "mkset" /\ NsGoes(a, e)
      /\ e.ops = c.ops /\ e.pc = "node" /\ e.d = c.d /\ e.ns = S + 1
      /\ Len(nsSetObj') = S + 1
      /\ \A o \in 1 .. S : nsSetObj'[o] = nsSetObj[o]
      /\ nsDir' = nsDir /\ Len(nsDomObj') = L
      /\ \A o \in 1 .. L, m \in NsCmds :
            nsDomObj'[o][m] = IF o = c.d /\ m = k THEN S + 1 ELSE nsDomObj[o][m]
  BY <1>1, NsNewNodesStep
<1>3. (\A b \in NsActors : b # a => nsCall'[b] = nsCall[b]) /\ nsMuddled' = nsMuddled
  BY <1>2, NsGoesOn DEF NsGoes
<1>4. L \in Nat /\ S \in Nat /\ \A o \in 1 .. L, m \in NsCmds : nsDomObj[o][m] \in Nat /\ nsDomObj[o][m] <= S
  BY <1>1 DEF NsTypeOK, NsHeap
<1>5. k \in NsCmds /\ c.d \in 1 .. L /\ (\A d \in NsDomains : nsDir[d] = c.d => d = Head(c.ops).dom)
      /\ (Head(c.ops).dom \notin nsMuddled => nsDir[Head(c.ops).dom] = c.d)
  BY <1>1, <1>2, NsHeadIs, NsCmdHeld DEF NsWorks
<1>6. NsNextCmd(e) = k
  BY <1>1, <1>2 DEF NsNextCmd
<1>7. NsHeap'
  <2>1. \A d \in NsDomains : nsDir'[d] <= Len(nsDomObj')
    BY <1>1, <1>2 DEF NsHeap
  <2>2. \A o \in 1 .. L, m \in NsCmds : nsDomObj'[o][m] <= S + 1
    BY <1>2, <1>4
  <2>3. \A d, f \in NsDomains : nsDir'[d] = nsDir'[f] /\ nsDir'[d] # 0 => d = f
    BY <1>2 DEF NsHeap
  <2>4. \A o, p \in 1 .. L, m, j \in NsCmds :
          nsDomObj'[o][m] = nsDomObj'[p][j] /\ nsDomObj'[o][m] # 0 => o = p /\ m = j
    <3> SUFFICES ASSUME NEW o \in 1 .. L, NEW p \in 1 .. L, NEW m \in NsCmds, NEW j \in NsCmds,
                        nsDomObj'[o][m] = nsDomObj'[p][j], nsDomObj'[o][m] # 0
                 PROVE  o = p /\ m = j
      OBVIOUS
    <3>1. nsDomObj[o][m] # S + 1 /\ nsDomObj[p][j] # S + 1
      BY <1>4
    <3>2. CASE (o = c.d /\ m = k) \/ (p = c.d /\ j = k)
      BY <3>1, <3>2, <1>2
    <3>3. CASE ~(o = c.d /\ m = k) /\ ~(p = c.d /\ j = k)
      BY <3>3, <1>1, <1>2 DEF NsHeap
    <3> QED
      BY <3>2, <3>3
  <2> QED
    BY <2>1, <2>2, <2>3, <2>4, <1>2 DEF NsHeap
<1>8. ASSUME NEW b \in NsActors, b # a PROVE NsHolds(nsCall[b])' /\ NsPlaced(nsCall[b])'
  <2> DEFINE q == nsCall[b]
  <2>1. nsCall'[b] = q /\ NsHolds(q) /\ NsPlaced(q)
    BY <1>3, <1>8 DEF NsHeld, NsPlace
  <2>2. ASSUME q.pc \in {"cmd", "mkset", "node", "size", "erase"}
        PROVE  q.d \in 1 .. L /\ \A d \in NsDomains : nsDir'[d] = q.d => d = Head(q.ops).dom
    BY <2>1, <2>2, <1>1, <1>2 DEF NsHolds
  <2>3. ASSUME q.pc \in {"node", "size", "erase"}
        PROVE  /\ q.ns \in 1 .. S + 1 /\ q.ns \in 1 .. S
               /\ \A o \in 1 .. L, m \in NsCmds : nsDomObj'[o][m] = q.ns => o = q.d /\ m = NsNextCmd(q)
    <3>1. /\ q.ns \in 1 .. S
          /\ \A o \in 1 .. L, m \in NsCmds : nsDomObj[o][m] = q.ns => o = q.d /\ m = NsNextCmd(q)
      BY <2>1, <2>3, <1>1 DEF NsHolds
    <3>2. q.ns # S + 1 /\ q.ns \in 1 .. S + 1
      BY <3>1, <1>4
    <3> QED
      BY <3>1, <3>2, <1>2
  <2>4. NsHolds(nsCall[b])'
    BY <2>1, <2>2, <2>3, <1>2 DEF NsHolds
  <2>5. ASSUME q.pc \in {"mkset", "node", "size", "erase"}, Head(q.ops).dom \notin nsMuddled
        PROVE  nsDomObj'[q.d][NsNextCmd(q)] = nsDomObj[q.d][NsNextCmd(q)]
    <3>1. q.pc \in NsAfter \ {"dom"} /\ c.pc \in NsAfter \ {"dom"} /\ c.pc # "mkdom"
      BY <2>5, <1>2 DEF NsAfter
    <3>2. q.d # c.d /\ q.d \in 1 .. L
      BY <3>1, <2>5, <2>2, <1>1, <1>8, NsApart
    <3>3. NsNextCmd(q) \in NsCmds
      <4>1. q \in NsCallSet /\ NsWorks(q) /\ q.ops # <<>>
        BY <3>1, NsAt DEF NsWorks
      <4> QED
        BY <4>1, NsHeadIs DEF NsWorks
    <3> QED
      BY <3>2, <3>3, <1>2
  <2>6. NsPlaced(nsCall[b])'
    BY <2>1, <2>3, <2>5, <1>2, <1>3 DEF NsPlaced
  <2> QED
    BY <2>4, <2>6
<1>9. NsHolds(nsCall[a])' /\ NsPlaced(nsCall[a])'
  <2>1. S + 1 \in 1 .. S + 1 /\ \A o \in 1 .. L, m \in NsCmds : nsDomObj'[o][m] = S + 1 => o = c.d /\ m = k
    BY <1>2, <1>4
  <2>2. nsDomObj'[c.d][k] = S + 1
    BY <1>2, <1>5
  <2>3. NsHolds(nsCall[a])'
    BY <2>1, <1>1, <1>2, <1>5, <1>6 DEF NsHolds
  <2>4. NsPlaced(nsCall[a])'
    BY <2>2, <1>1, <1>2, <1>3, <1>5, <1>6 DEF NsPlaced
  <2> QED
    BY <2>3, <2>4
<1>10. \A b \in NsActors : NsHolds(nsCall[b])' /\ NsPlaced(nsCall[b])'
  BY <1>8, <1>9
<1> QED
  BY <1>7, <1>10 DEF NsHeld, NsPlace

\* The pointers after an empty node set was taken out.
LEMMA NsEraseHeap ==
  ASSUME NsTypeOK, NsControl, NsWork, NsHeap, NsHeld, NsPlace, NEW a \in NsActors, SetErase(a)
  PROVE  NsHeap' /\ NsHeld' /\ NsPlace'
<1>1. PICK c, e, L, k : c = nsCall[a] /\ e = nsCall'[a] /\ L = Len(nsDomObj) /\ k = NsNextCmd(c)
  OBVIOUS
<1>2. /\ c \in NsCallSet /\ NsWorks(c) /\ c.ops # <<>> /\ c.pc = "erase" /\ NsGoes(a, e) /\ e = NsCmdDone(c)
      /\ nsDir' = nsDir /\ nsSetObj' = nsSetObj /\ Len(nsDomObj') = L
      /\ \A o \in 1 .. L, m \in NsCmds :
            nsDomObj'[o][m] = IF o = c.d /\ m = k THEN 0 ELSE nsDomObj[o][m]
  BY <1>1, NsEraseStep
<1>3. (\A b \in NsActors : b # a => nsCall'[b] = nsCall[b]) /\ nsMuddled' = nsMuddled
  BY <1>2, NsGoesOn DEF NsGoes
<1>4. L \in Nat /\ Len(nsSetObj) \in Nat /\ \A o \in 1 .. L, m \in NsCmds : nsDomObj[o][m] \in Nat /\ nsDomObj[o][m] <= Len(nsSetObj)
  BY <1>1 DEF NsTypeOK, NsHeap
<1>5. c.d \in 1 .. L /\ (\A d \in NsDomains : nsDir[d] = c.d => d = Head(c.ops).dom)
      /\ (Head(c.ops).dom \notin nsMuddled => nsDir[Head(c.ops).dom] = c.d)
  BY <1>1, <1>2, NsCmdHeld
<1>7. NsHeap'
  <2>1. \A d \in NsDomains : nsDir'[d] <= Len(nsDomObj')
    BY <1>1, <1>2 DEF NsHeap
  <2>2. \A o \in 1 .. L, m \in NsCmds : nsDomObj'[o][m] <= Len(nsSetObj)
    BY <1>2, <1>4
  <2>3. \A d, f \in NsDomains : nsDir'[d] = nsDir'[f] /\ nsDir'[d] # 0 => d = f
    BY <1>2 DEF NsHeap
  <2>4. \A o, p \in 1 .. L, m, j \in NsCmds :
          nsDomObj'[o][m] = nsDomObj'[p][j] /\ nsDomObj'[o][m] # 0 => o = p /\ m = j
    <3> SUFFICES ASSUME NEW o \in 1 .. L, NEW p \in 1 .. L, NEW m \in NsCmds, NEW j \in NsCmds,
                        nsDomObj'[o][m] = nsDomObj'[p][j], nsDomObj'[o][m] # 0
                 PROVE  o = p /\ m = j
      OBVIOUS
    <3>1. ~(o = c.d /\ m = k) /\ ~(p = c.d /\ j = k)
      BY <1>2
    <3> QED
      BY <3>1, <1>1, <1>2 DEF NsHeap
  <2> QED
    BY <2>1, <2>2, <2>3, <2>4, <1>2 DEF NsHeap
<1>8. ASSUME NEW b \in NsActors, b # a PROVE NsHolds(nsCall[b])' /\ NsPlaced(nsCall[b])'
  <2> DEFINE q == nsCall[b]
  <2>1. nsCall'[b] = q /\ NsHolds(q) /\ NsPlaced(q)
    BY <1>3, <1>8 DEF NsHeld, NsPlace
  <2>2. ASSUME q.pc \in {"cmd", "mkset", "node", "size", "erase"}
        PROVE  q.d \in 1 .. L /\ \A d \in NsDomains : nsDir'[d] = q.d => d = Head(q.ops).dom
    BY <2>1, <2>2, <1>1, <1>2 DEF NsHolds
  <2>3. ASSUME q.pc \in {"node", "size", "erase"}
        PROVE  /\ q.ns \in 1 .. Len(nsSetObj)
               /\ \A o \in 1 .. L, m \in NsCmds : nsDomObj'[o][m] = q.ns => o = q.d /\ m = NsNextCmd(q)
    <3>1. /\ q.ns \in 1 .. Len(nsSetObj)
          /\ \A o \in 1 .. L, m \in NsCmds : nsDomObj[o][m] = q.ns => o = q.d /\ m = NsNextCmd(q)
      BY <2>1, <2>3, <1>1 DEF NsHolds
    <3>2. q.ns # 0
      BY <3>1, <1>4
    <3> QED
      BY <3>1, <3>2, <1>2
  <2>4. NsHolds(nsCall[b])'
    BY <2>1, <2>2, <2>3, <1>2 DEF NsHolds
  <2>5. ASSUME q.pc \in {"mkset", "node", "size", "erase"}, Head(q.ops).dom \notin nsMuddled
        PROVE  nsDomObj'[q.d][NsNextCmd(q)] = nsDomObj[q.d][NsNextCmd(q)]
    <3>1. q.pc \in NsAfter \ {"dom"} /\ c.pc \in NsAfter \ {"dom"} /\ c.pc # "mkdom"
      BY <2>5, <1>2 DEF NsAfter
    <3>2. q.d # c.d /\ q.d \in 1 .. L
      BY <3>1, <2>5, <2>2, <1>1, <1>8, NsApart
    <3>3. NsNextCmd(q) \in NsCmds
      <4>1. q \in NsCallSet /\ NsWorks(q) /\ q.ops # <<>>
        BY <3>1, NsAt DEF NsWorks
      <4> QED
        BY <4>1, NsHeadIs DEF NsWorks
    <3> QED
      BY <3>2, <3>3, <1>2
  <2>6. NsPlaced(nsCall[b])'
    BY <2>1, <2>5, <1>2, <1>3 DEF NsPlaced
  <2> QED
    BY <2>4, <2>6
<1>9. NsHolds(nsCall[a])' /\ NsPlaced(nsCall[a])'
  <2>1. /\ c \in NsCallSet /\ NsWorks(c) /\ c.ops # <<>> /\ e = nsCall'[a] /\ e = NsCmdDone(c)
        /\ nsDir' = nsDir /\ nsMuddled' = nsMuddled /\ c.d \in 1 .. Len(nsDomObj')
    BY <1>1, <1>2, <1>3, <1>5
  <2> QED
    BY <2>1, <1>5, NsDoneHeld
<1>10. \A b \in NsActors : NsHolds(nsCall[b])' /\ NsPlaced(nsCall[b])'
  BY <1>8, <1>9
<1> QED
  BY <1>7, <1>10 DEF NsHeld, NsPlace

\* The pointers after a node was written.
LEMMA NsNodeHeap ==
  ASSUME NsTypeOK, NsControl, NsWork, NsHeap, NsHeld, NsPlace, NEW a \in NsActors, SetNode(a)
  PROVE  NsHeap' /\ NsHeld' /\ NsPlace'
<1>1. PICK c, e, S, k, n, w :
         /\ c = nsCall[a] /\ e = nsCall'[a] /\ S = Len(nsSetObj) /\ k = NsNextCmd(c)
         /\ n = (IF Head(c.ops).kind = "del" THEN c.old.node ELSE c.new.node)
         /\ w = (IF Head(c.ops).kind = "del" THEN 0 ELSE c.new.weight)
  OBVIOUS
<1>2. /\ c \in NsCallSet /\ NsWorks(c) /\ c.ops # <<>> /\ c.pc = "node" /\ NsGoes(a, e)
      /\ \/ e = NsCmdDone(c)
         \/ e.pc = "size" /\ e.ops = c.ops /\ e.d = c.d /\ e.ns = c.ns
      /\ nsDir' = nsDir /\ nsDomObj' = nsDomObj
      /\ Len(nsSetObj') = S
      /\ \A o \in 1 .. S, x \in NsNodes :
               nsSetObj'[o][x] = IF o = c.ns /\ x = n THEN w ELSE nsSetObj[o][x]
  BY <1>1, NsNodeStep
<1>3. (\A b \in NsActors : b # a => nsCall'[b] = nsCall[b]) /\ nsMuddled' = nsMuddled
  BY <1>2, NsGoesOn DEF NsGoes
<1>4. /\ c.d \in 1 .. Len(nsDomObj) /\ (\A d \in NsDomains : nsDir[d] = c.d => d = Head(c.ops).dom)
      /\ c.ns \in 1 .. S
      /\ \A o \in 1 .. Len(nsDomObj), m \in NsCmds : nsDomObj[o][m] = c.ns => o = c.d /\ m = k
      /\ Head(c.ops).dom \notin nsMuddled => nsDir[Head(c.ops).dom] = c.d /\ nsDomObj[c.d][k] = c.ns
  BY <1>1, <1>2, NsCmdHeld
<1>5. NsHeap'
  BY <1>1, <1>2 DEF NsHeap
<1>6. ASSUME NEW b \in NsActors, b # a PROVE NsHolds(nsCall[b])' /\ NsPlaced(nsCall[b])'
  <2> DEFINE q == nsCall[b]
  <2>1. nsCall'[b] = q /\ NsHolds(q) /\ NsPlaced(q)
    BY <1>3, <1>6 DEF NsHeld, NsPlace
  <2>2. NsHolds(nsCall[b])'
    BY <2>1, <1>1, <1>2 DEF NsHolds
  <2>3. ASSUME q.pc = "erase", Head(q.ops).dom \notin nsMuddled
        PROVE  \A x \in NsNodes : nsSetObj'[q.ns][x] = nsSetObj[q.ns][x]
    <3>1. q.pc \in NsAfter \ {"dom"} /\ c.pc \in NsAfter \ {"dom"} /\ c.pc # "mkdom"
      BY <2>3, <1>2 DEF NsAfter
    <3>2. q.d # c.d
      BY <3>1, <2>3, <1>1, <1>6, NsApart
    <3>3. q.d \in 1 .. Len(nsDomObj) /\ q.ns \in 1 .. S /\ nsDomObj[q.d][NsNextCmd(q)] = q.ns
      BY <2>3, <1>1, NsCmdHeld
    <3>4. NsNextCmd(q) \in NsCmds
      <4>1. q \in NsCallSet /\ NsWorks(q) /\ q.ops # <<>>
        BY <3>1, NsAt DEF NsWorks
      <4> QED
        BY <4>1, NsHeadIs DEF NsWorks
    <3>5. q.ns # c.ns
      BY <3>2, <3>3, <3>4, <1>4
    <3> QED
      BY <3>3, <3>5, <1>2
  <2>4. NsPlaced(nsCall[b])'
    BY <2>1, <2>3, <1>2, <1>3 DEF NsPlaced
  <2> QED
    BY <2>2, <2>4
<1>7. NsHolds(nsCall[a])' /\ NsPlaced(nsCall[a])'
  <2>1. CASE e = NsCmdDone(c)
    BY <2>1, <1>1, <1>2, <1>3, <1>4, NsDoneHeld
  <2>2. CASE e.pc = "size" /\ e.ops = c.ops /\ e.d = c.d /\ e.ns = c.ns
    <3>1. NsNextCmd(e) = k
      BY <2>2, <1>1 DEF NsNextCmd
    <3>2. NsHolds(nsCall[a])'
      BY <2>2, <3>1, <1>1, <1>2, <1>4 DEF NsHolds
    <3>3. NsPlaced(nsCall[a])'
      BY <2>2, <3>1, <1>1, <1>2, <1>3, <1>4 DEF NsPlaced
    <3> QED
      BY <3>2, <3>3
  <2> QED
    BY <2>1, <2>2, <1>2
<1>8. \A b \in NsActors : NsHolds(nsCall[b])' /\ NsPlaced(nsCall[b])'
  BY <1>6, <1>7
<1> QED
  BY <1>5, <1>8 DEF NsHeld, NsPlace

\* The pointers after the size of a set was read: a set that is found empty still is.
LEMMA NsSizeHeap ==
  ASSUME NsTypeOK, NsControl, NsWork, NsHeap, NsHeld, NsPlace, NEW a \in NsActors, SetSize(a)
  PROVE  NsHeap' /\ NsHeld' /\ NsPlace'
<1>1. PICK c, e, k : c = nsCall[a] /\ e = nsCall'[a] /\ k = NsNextCmd(c)
  OBVIOUS
<1>2. /\ c \in NsCallSet /\ NsWorks(c) /\ c.ops # <<>> /\ c.pc = "size" /\ NsGoes(a, e)
      /\ \/ e = NsCmdDone(c)
         \/ /\ e.pc = "erase" /\ e.ops = c.ops /\ e.d = c.d /\ e.ns = c.ns
            /\ \A x \in NsNodes : nsSetObj[c.ns][x] = 0
      /\ UNCHANGED <<nsDir, nsDomObj, nsSetObj>>
  BY <1>1, NsSizeStep
<1>3. (\A b \in NsActors : b # a => nsCall'[b] = nsCall[b]) /\ nsMuddled' = nsMuddled
  BY <1>2, NsGoesOn DEF NsGoes
<1>4. /\ c.d \in 1 .. Len(nsDomObj) /\ (\A d \in NsDomains : nsDir[d] = c.d => d = Head(c.ops).dom)
      /\ c.ns \in 1 .. Len(nsSetObj)
      /\ \A o \in 1 .. Len(nsDomObj), m \in NsCmds : nsDomObj[o][m] = c.ns => o = c.d /\ m = k
      /\ Head(c.ops).dom \notin nsMuddled => nsDir[Head(c.ops).dom] = c.d /\ nsDomObj[c.d][k] = c.ns
  BY <1>1, <1>2, NsCmdHeld
<1>5. NsHolds(nsCall[a])' /\ NsPlaced(nsCall[a])'
  <2>1. CASE e = NsCmdDone(c)
    BY <2>1, <1>1, <1>2, <1>3, <1>4, NsDoneHeld
  <2>2. CASE /\ e.pc = "erase" /\ e.ops = c.ops /\ e.d = c.d /\ e.ns = c.ns
             /\ \A x \in NsNodes : nsSetObj[c.ns][x] = 0
    <3>1. NsNextCmd(e) = k
      BY <2>2, <1>1 DEF NsNextCmd
    <3>2. NsHolds(nsCall[a])'
      BY <2>2, <3>1, <1>1, <1>2, <1>4 DEF NsHolds
    <3>3. NsPlaced(nsCall[a])'
      BY <2>2, <3>1, <1>1, <1>2, <1>3, <1>4 DEF NsPlaced
    <3> QED
      BY <3>2, <3>3
  <2> QED
    BY <2>1, <2>2, <1>2
<1> QED
  BY <1>2, <1>3, <1>5, NsQuietHeap

-----------------------------------------------------------------------------
(* What the directory lists                                                *)

\* What is owed when a call is replaced by another one.
NsOwedIf(a, e, d, m, n, w) ==
    \/ \E b \in NsActors : NsTouches(b, d) /\ NsCallHas(IF b = a THEN e ELSE nsCall[b], d, m, n, w)
    \/ \E r \in NsStreams :
          /\ NsInfoHas(nsSessions[r], d, m, n, w)
          /\ \A b \in NsActors : ~(NsTouches(b, d) /\ nsCall[b].rs = r)

\* That is what a step of the call leads to.
LEMMA NsOwedMoves ==
  ASSUME NsTypeOK, NEW a \in NsActors, NEW e, NsGoes(a, e), NEW d, NEW m, NEW n, NEW w
  PROVE  /\ NsOwed(d, m, n, w)' <=> NsOwedIf(a, e, d, m, n, w)
         /\ NsOwed(d, m, n, w) <=> NsOwedIf(a, nsCall[a], d, m, n, w)
<1>1. nsCall'[a] = e /\ \A b \in NsActors : b # a => nsCall'[b] = nsCall[b]
  BY DEF NsGoes, NsTypeOK
<1>2. \A b \in NsActors : nsCall'[b] = IF b = a THEN e ELSE nsCall[b]
  BY <1>1
<1>3. \A b \in NsActors : nsCall[b] = IF b = a THEN nsCall[a] ELSE nsCall[b]
  OBVIOUS
<1>4. \A b \in NsActors : (NsTouches(b, d)' <=> NsTouches(b, d)) /\ nsCall'[b].rs = nsCall[b].rs
  <2> SUFFICES ASSUME NEW b \in NsActors PROVE (NsTouches(b, d)' <=> NsTouches(b, d)) /\ nsCall'[b].rs = nsCall[b].rs
    OBVIOUS
  <2>1. CASE b = a
    <3>1. NsChanges(a)' /\ NsChanges(a) /\ NsAll(nsCall'[a]) = NsAll(nsCall[a]) /\ e.rs = nsCall[a].rs
      BY <1>1 DEF NsGoes, NsChanges, NsAll
    <3> QED
      BY <2>1, <3>1, <1>1 DEF NsTouches
  <2>2. CASE b # a
    BY <2>2, <1>1 DEF NsTouches, NsChanges
  <2> QED
    BY <2>1, <2>2
<1>5. nsSessions' = nsSessions
  BY DEF NsGoes
<1>6. NsOwed(d, m, n, w)' <=> NsOwedIf(a, e, d, m, n, w)
  <2>1. \A b \in NsActors : NsCallHas(nsCall'[b], d, m, n, w) <=> NsCallHas(IF b = a THEN e ELSE nsCall[b], d, m, n, w)
    BY <1>2
  <2> QED
    BY <2>1, <1>4, <1>5 DEF NsOwed, NsOwedIf
<1>7. NsOwed(d, m, n, w) <=> NsOwedIf(a, nsCall[a], d, m, n, w)
  <2>1. \A b \in NsActors : NsCallHas(nsCall[b], d, m, n, w) <=> NsCallHas(IF b = a THEN nsCall[a] ELSE nsCall[b], d, m, n, w)
    BY <1>3
  <2> QED
    BY <2>1 DEF NsOwed, NsOwedIf
<1> QED
  BY <1>6, <1>7

\* A slot of which the call still has the same to say.
LEMMA NsSameOwed ==
  ASSUME NsTypeOK, NEW a \in NsActors, NEW e, NsGoes(a, e), NEW d, NEW m, NEW n, NEW w,
         NsToDo(e, d, m) <=> NsToDo(nsCall[a], d, m)
  PROVE  NsOwed(d, m, n, w)' <=> NsOwed(d, m, n, w)
<1>1. NsCallHas(e, d, m, n, w) <=> NsCallHas(nsCall[a], d, m, n, w)
  BY DEF NsCallHas, NsGoes
<1>2. \A b \in NsActors : NsCallHas(IF b = a THEN e ELSE nsCall[b], d, m, n, w)
                            <=> NsCallHas(IF b = a THEN nsCall[a] ELSE nsCall[b], d, m, n, w)
  BY <1>1
<1>3. NsOwedIf(a, e, d, m, n, w) <=> NsOwedIf(a, nsCall[a], d, m, n, w)
  BY <1>2 DEF NsOwedIf
<1> QED
  BY <1>3, NsOwedMoves

\* In a domain that is not muddled the nodes of a call are in its hands alone.
LEMMA NsOneOwner ==
  ASSUME NsTypeOK, NsControl, NEW a \in NsActors, NsChanges(a), NEW d \in NsAll(nsCall[a]), d \notin nsMuddled,
         NEW e, e.old = nsCall[a].old, e.new = nsCall[a].new, NEW n \in NsNodes, NEW m, NEW w
  PROVE  /\ n \in NsIds(nsCall[a]) => (NsOwedIf(a, e, d, m, n, w) <=> NsCallHas(e, d, m, n, w))
         /\ n \notin NsIds(nsCall[a]) => (NsOwedIf(a, e, d, m, n, w) <=> NsOwedIf(a, nsCall[a], d, m, n, w))
<1>0. n # "none"
  BY NameServerAssumption DEF NsNodes
<1>1. \A b \in NsActors : b # a => ~NsTouches(b, d)
  <2> SUFFICES ASSUME NEW b \in NsActors, b # a, NsTouches(b, d) PROVE FALSE
    OBVIOUS
  <2>1. NsRuns(b) /\ d \in NsAll(nsCall[b])
    BY DEF NsTouches, NsChanges, NsRuns, NsAfter
  <2>2. NsAll(nsCall[a]) \cap NsAll(nsCall[b]) \subseteq nsMuddled
    BY <2>1 DEF NsControl, NsPairs
  <2> QED
    BY <2>1, <2>2
<1>2. NsTouches(a, d)
  BY DEF NsTouches
<1>3. ASSUME n \in NsIds(nsCall[a]), NEW r \in NsStreams, NsInfoHas(nsSessions[r], d, m, n, w)
      PROVE  nsCall[a].rs = r
  <2> SUFFICES ASSUME nsCall[a].rs # r PROVE FALSE
    OBVIOUS
  <2>1. nsSessions[r].node = n /\ <<d, m>> \in nsSessions[r].regs
    BY <1>3 DEF NsInfoHas
  <2>2. NsDomainsOf(nsSessions[r]) \cup NsAll(nsCall[a]) \subseteq nsMuddled
    BY <1>3, <2>1 DEF NsControl, NsTwins
  <2> QED
    BY <2>2
<1>4. ASSUME n \in NsIds(nsCall[a]) PROVE NsOwedIf(a, e, d, m, n, w) <=> NsCallHas(e, d, m, n, w)
  <2>1. ~\E r \in NsStreams :
          /\ NsInfoHas(nsSessions[r], d, m, n, w)
          /\ \A b \in NsActors : ~(NsTouches(b, d) /\ nsCall[b].rs = r)
    BY <1>2, <1>3, <1>4
  <2>2. (\E b \in NsActors : NsTouches(b, d) /\ NsCallHas(IF b = a THEN e ELSE nsCall[b], d, m, n, w))
          <=> NsCallHas(e, d, m, n, w)
    BY <1>1, <1>2
  <2> QED
    BY <2>1, <2>2 DEF NsOwedIf
<1>5. ASSUME n \notin NsIds(nsCall[a])
      PROVE  NsOwedIf(a, e, d, m, n, w) <=> NsOwedIf(a, nsCall[a], d, m, n, w)
  <2>1. nsCall[a].old.node # n /\ nsCall[a].new.node # n
    BY <1>0, <1>5 DEF NsIds
  <2>2. ~NsCallHas(e, d, m, n, w) /\ ~NsCallHas(nsCall[a], d, m, n, w)
    BY <2>1 DEF NsCallHas, NsInfoHas
  <2>3. \A b \in NsActors : NsCallHas(IF b = a THEN e ELSE nsCall[b], d, m, n, w)
                              <=> NsCallHas(IF b = a THEN nsCall[a] ELSE nsCall[b], d, m, n, w)
    BY <2>2
  <2> QED
    BY <2>3 DEF NsOwedIf
<1> QED
  BY <1>4, <1>5

\* A slot after a step of a call: nothing is changed there and there is the same to do, or
\* the call has done its part and the nodes that it is for are listed as its new registration says.
NsSlotSame(a, e, d, m) ==
    /\ NsToDo(e, d, m) <=> NsToDo(nsCall[a], d, m)
    /\ \A n \in NsNodes : NsListed(d, m, n)' = NsListed(d, m, n)
NsDone(a, e, d, m) ==
    /\ ~NsToDo(e, d, m) /\ d \in NsAll(nsCall[a])
    /\ \A n \in NsNodes : n \notin NsIds(nsCall[a]) => NsListed(d, m, n)' = NsListed(d, m, n)
    /\ \A n \in NsNodes, w \in Nat \ {0} : n \in NsIds(nsCall[a]) =>
          (NsListed(d, m, n)' = w <=> NsInfoHas(nsCall[a].new, d, m, n, w))

\* A step that does so in every slot keeps the directory right.
LEMMA NsListStep ==
  ASSUME NsTypeOK, NsControl, NsListing, NEW a \in NsActors, NEW e, NsGoes(a, e),
         \A d \in NsDomains \ nsMuddled, m \in NsCmds : NsSlotSame(a, e, d, m) \/ NsDone(a, e, d, m)
  PROVE  NsListing'
<1>1. nsMuddled' = nsMuddled /\ NsChanges(a) /\ e.old = nsCall[a].old /\ e.new = nsCall[a].new
  BY DEF NsGoes
<1> SUFFICES ASSUME NEW d \in NsDomains \ nsMuddled, NEW m \in NsCmds, NEW n \in NsNodes, NEW w \in Nat \ {0}
             PROVE  NsListed(d, m, n)' = w <=> NsOwed(d, m, n, w)'
  BY <1>1 DEF NsListing
<1>2. NsListed(d, m, n) = w <=> NsOwed(d, m, n, w)
  BY DEF NsListing
<1>3. CASE NsSlotSame(a, e, d, m)
  <2>1. NsToDo(e, d, m) <=> NsToDo(nsCall[a], d, m)
    BY <1>3 DEF NsSlotSame
  <2>2. NsOwed(d, m, n, w)' <=> NsOwed(d, m, n, w)
    BY <2>1, NsSameOwed
  <2>3. NsListed(d, m, n)' = NsListed(d, m, n)
    BY <1>3 DEF NsSlotSame
  <2> QED
    BY <2>2, <2>3, <1>2
<1>4. CASE NsDone(a, e, d, m)
  <2>1. ~NsToDo(e, d, m) /\ d \in NsAll(nsCall[a]) /\ d \notin nsMuddled
    BY <1>4 DEF NsDone
  <2>2. /\ n \in NsIds(nsCall[a]) => (NsOwedIf(a, e, d, m, n, w) <=> NsCallHas(e, d, m, n, w))
        /\ n \notin NsIds(nsCall[a]) => (NsOwedIf(a, e, d, m, n, w) <=> NsOwedIf(a, nsCall[a], d, m, n, w))
    BY <2>1, <1>1, NsOneOwner
  <2>3. /\ NsOwed(d, m, n, w)' <=> NsOwedIf(a, e, d, m, n, w)
        /\ NsOwed(d, m, n, w) <=> NsOwedIf(a, nsCall[a], d, m, n, w)
    BY NsOwedMoves
  <2>4. NsCallHas(e, d, m, n, w) <=> NsInfoHas(nsCall[a].new, d, m, n, w)
    BY <2>1, <1>1 DEF NsCallHas
  <2>5. CASE n \in NsIds(nsCall[a])
    <3>1. NsListed(d, m, n)' = w <=> NsInfoHas(nsCall[a].new, d, m, n, w)
      BY <2>5, <1>4 DEF NsDone
    <3> QED
      BY <2>5, <3>1, <2>2, <2>3, <2>4
  <2>6. CASE n \notin NsIds(nsCall[a])
    <3>1. NsListed(d, m, n)' = NsListed(d, m, n)
      BY <2>6, <1>4 DEF NsDone
    <3> QED
      BY <2>6, <3>1, <2>2, <2>3, <1>2
  <2> QED
    BY <2>5, <2>6
<1> QED
  BY <1>3, <1>4

\* What a query lists, one pointer at a time.
LEMMA NsListedIs ==
  ASSUME NsTypeOK, NsHeap, NEW d \in NsDomains, NEW m \in NsCmds, NEW n \in NsNodes, NEW o, o = nsDir[d]
  PROVE  /\ o \in Nat /\ NsListed(d, m, n) \in Nat
         /\ o = 0 => NsListed(d, m, n) = 0
         /\ o # 0 => o \in 1 .. Len(nsDomObj) /\ nsDomObj[o][m] \in Nat
         /\ o # 0 /\ nsDomObj[o][m] = 0 => NsListed(d, m, n) = 0
         /\ o # 0 /\ nsDomObj[o][m] # 0 =>
              /\ nsDomObj[o][m] \in 1 .. Len(nsSetObj)
              /\ NsListed(d, m, n) = nsSetObj[nsDomObj[o][m]][n]
<1>1. o \in Nat /\ o <= Len(nsDomObj) /\ Len(nsDomObj) \in Nat /\ Len(nsSetObj) \in Nat
  BY DEF NsTypeOK, NsHeap
<1>2. CASE o = 0
  BY <1>1, <1>2 DEF NsListed
<1>3. CASE o # 0
  <2>1. o \in 1 .. Len(nsDomObj)
    BY <1>1, <1>3
  <2>2. nsDomObj[o][m] \in Nat /\ nsDomObj[o][m] <= Len(nsSetObj)
    BY <2>1 DEF NsTypeOK, NsHeap
  <2>3. CASE nsDomObj[o][m] = 0
    BY <2>1, <2>2, <2>3, <1>1, <1>3 DEF NsListed
  <2>4. CASE nsDomObj[o][m] # 0
    <3>1. nsDomObj[o][m] \in 1 .. Len(nsSetObj)
      BY <2>2, <2>4, <1>1
    <3>2. NsListed(d, m, n) = nsSetObj[nsDomObj[o][m]][n]
      BY <1>3, <2>4 DEF NsListed
    <3>3. nsSetObj[nsDomObj[o][m]][n] \in Nat
      BY <3>1 DEF NsTypeOK
    <3> QED
      BY <3>1, <3>2, <3>3, <2>1, <2>2, <2>4, <1>1, <1>3
  <2> QED
    BY <2>3, <2>4
<1> QED
  BY <1>2, <1>3

\* A slot that was empty and is to stay so.
LEMMA NsSkipped ==
  ASSUME NEW a \in NsActors, NEW e, NEW d, NEW m, ~NsToDo(e, d, m), d \in NsAll(nsCall[a]),
         <<d, m>> \notin nsCall[a].new.regs,
         \A n \in NsNodes : NsListed(d, m, n) = 0 /\ NsListed(d, m, n)' = 0
  PROVE  NsDone(a, e, d, m)
BY DEF NsDone, NsInfoHas

\* The lists after the domain was looked up: a domain that is not there lists nothing to delete.
LEMMA NsDomainLists ==
  ASSUME NsTypeOK, NsControl, NsWork, NsHeap, NsHeld, NsPlace, NsListing, NEW a \in NsActors, SetDomain(a)
  PROVE  NsListing'
<1>1. PICK c, e : c = nsCall[a] /\ e = nsCall'[a]
  OBVIOUS
<1>2. /\ c \in NsCallSet /\ NsWorks(c) /\ c.ops # <<>> /\ c.pc = "dom" /\ NsGoes(a, e)
      /\ nsDir[Head(c.ops).dom] = 0 /\ Head(c.ops).kind = "del" =>
              /\ e.pc = "dom"
              /\ \A d, m : NsPending(e.ops, d, m) <=>
                              NsPending(c.ops, d, m) /\ ~(d = Head(c.ops).dom /\ m \in Head(c.ops).cmds)
      /\ ~(nsDir[Head(c.ops).dom] = 0 /\ Head(c.ops).kind = "del") =>
              /\ e.ops = c.ops /\ e.d = nsDir[Head(c.ops).dom] /\ e.pc = IF e.d = 0 THEN "mkdom" ELSE "cmd"
  BY <1>1, NsDomainStep
<1>3. \A d, m, n : NsListed(d, m, n)' = NsListed(d, m, n)
  BY DEF NsListed, SetDomain, nsHeap
<1>4. \A d, m : NsToDo(c, d, m) <=> NsPending(c.ops, d, m)
  BY <1>2 DEF NsToDo
<1>5. \A d, m : NsToDo(e, d, m) <=> NsPending(e.ops, d, m)
  <2>1. e.pc \notin {"size", "erase"}
    BY <1>2
  <2> QED
    BY <2>1 DEF NsToDo
<1>6. ASSUME NEW d \in NsDomains \ nsMuddled, NEW m \in NsCmds
      PROVE  NsSlotSame(a, e, d, m) \/ NsDone(a, e, d, m)
  <2>1. CASE /\ nsDir[Head(c.ops).dom] = 0 /\ Head(c.ops).kind = "del"
             /\ d = Head(c.ops).dom /\ m \in Head(c.ops).cmds
    <3>1. ~NsToDo(e, d, m)
      BY <2>1, <1>2, <1>5
    <3>2. d \in NsAll(c) /\ <<d, m>> \notin c.new.regs
      BY <2>1, <1>2, NsHeadIs DEF NsWorks
    <3>3. \A n \in NsNodes : NsListed(d, m, n) = 0
      BY <2>1, NsListedIs
    <3> QED
      BY <3>1, <3>2, <3>3, <1>1, <1>3, NsSkipped
  <2>2. CASE /\ nsDir[Head(c.ops).dom] = 0 /\ Head(c.ops).kind = "del"
             /\ ~(d = Head(c.ops).dom /\ m \in Head(c.ops).cmds)
    BY <2>2, <1>1, <1>2, <1>3, <1>4, <1>5 DEF NsSlotSame
  <2>3. CASE ~(nsDir[Head(c.ops).dom] = 0 /\ Head(c.ops).kind = "del")
    BY <2>3, <1>1, <1>2, <1>3, <1>4, <1>5 DEF NsSlotSame
  <2> QED
    BY <2>1, <2>2, <2>3
<1> QED
  BY <1>2, <1>6, NsListStep

\* The lists after the node set was looked up: one that is not there lists nothing to delete.
LEMMA NsNodesLists ==
  ASSUME NsTypeOK, NsControl, NsWork, NsHeap, NsHeld, NsPlace, NsListing, NEW a \in NsActors, SetNodes(a)
  PROVE  NsListing'
<1>1. PICK c, e, k, h : c = nsCall[a] /\ e = nsCall'[a] /\ k = NsNextCmd(c) /\ h = Head(c.ops)
  OBVIOUS
<1>2. /\ c \in NsCallSet /\ NsWorks(c) /\ c.ops # <<>> /\ c.pc = "cmd" /\ NsGoes(a, e)
      /\ nsDomObj[c.d][k] = 0 /\ h.kind = "del" => e = NsCmdDone(c)
      /\ ~(nsDomObj[c.d][k] = 0 /\ h.kind = "del") =>
              /\ e.ops = c.ops /\ e.pc = IF e.ns = 0 THEN "mkset" ELSE "node"
  BY <1>1, NsNodesStep
<1>3. \A d, m, n : NsListed(d, m, n)' = NsListed(d, m, n)
  BY DEF NsListed, SetNodes, nsHeap
<1>4. \A d, m : NsToDo(c, d, m) <=> NsPending(c.ops, d, m)
  BY <1>2 DEF NsToDo
<1>5. CASE nsDomObj[c.d][k] = 0 /\ h.kind = "del"
  <2>1. /\ e.pc \in {"dom", "cmd"}
        /\ \A d, m : NsPending(e.ops, d, m) <=> NsPending(c.ops, d, m) /\ ~(d = h.dom /\ m = k)
    BY <1>1, <1>2, <1>5, NsCmdDoneIs DEF NsWorks
  <2>2. \A d, m : NsToDo(e, d, m) <=> NsPending(c.ops, d, m) /\ ~(d = h.dom /\ m = k)
    BY <2>1 DEF NsToDo
  <2>3. ASSUME NEW d \in NsDomains \ nsMuddled, NEW m \in NsCmds
        PROVE  NsSlotSame(a, e, d, m) \/ NsDone(a, e, d, m)
    <3>1. CASE d = h.dom /\ m = k
      <4>1. ~NsToDo(e, d, m)
        BY <2>2, <3>1
      <4>2. k \in h.cmds /\ d \in NsAll(c) /\ <<d, m>> \notin c.new.regs
        BY <3>1, <1>1, <1>2, <1>5, NsHeadIs DEF NsWorks
      <4>3. nsDir[d] = c.d /\ c.d \in 1 .. Len(nsDomObj)
        BY <3>1, <2>3, <1>1, <1>2, NsCmdHeld
      <4>4. \A n \in NsNodes : NsListed(d, m, n) = 0
        BY <4>3, <3>1, <1>5, NsListedIs
      <4> QED
        BY <4>1, <4>2, <4>4, <1>1, <1>3, NsSkipped
    <3>2. CASE ~(d = h.dom /\ m = k)
      BY <3>2, <2>2, <1>1, <1>3, <1>4 DEF NsSlotSame
    <3> QED
      BY <3>1, <3>2
  <2> QED
    BY <2>3, <1>2, NsListStep
<1>6. CASE ~(nsDomObj[c.d][k] = 0 /\ h.kind = "del")
  <2>1. e.ops = c.ops /\ e.pc \notin {"size", "erase"}
    BY <1>2, <1>6
  <2>2. \A d, m : NsToDo(e, d, m) <=> NsPending(c.ops, d, m)
    BY <2>1 DEF NsToDo
  <2>3. \A d \in NsDomains \ nsMuddled, m \in NsCmds : NsSlotSame(a, e, d, m)
    BY <2>2, <1>1, <1>3, <1>4 DEF NsSlotSame
  <2> QED
    BY <2>3, <1>2, NsListStep
<1> QED
  BY <1>5, <1>6

\* The lists after a domain was created: it replaces none.
LEMMA NsNewDomainLists ==
  ASSUME NsTypeOK, NsControl, NsWork, NsHeap, NsHeld, NsPlace, NsListing, NEW a \in NsActors, SetNewDomain(a)
  PROVE  NsListing'
<1>1. PICK c, e, L, h : c = nsCall[a] /\ e = nsCall'[a] /\ L = Len(nsDomObj) /\ h = Head(c.ops).dom
  OBVIOUS
<1>2. /\ c \in NsCallSet /\ NsWorks(c) /\ c.ops # <<>> /\ c.pc = "mkdom" /\ NsGoes(a, e)
      /\ e.ops = c.ops /\ e.pc = "cmd"
      /\ \A o \in 1 .. L : nsDomObj'[o] = nsDomObj[o]
      /\ \A m \in NsCmds : nsDomObj'[L + 1][m] = 0
      /\ nsSetObj' = nsSetObj
      /\ \A d \in NsDomains : nsDir'[d] = IF d = h THEN L + 1 ELSE nsDir[d]
  BY <1>1, NsNewDomainStep
<1>3. \A d, m : NsToDo(e, d, m) <=> NsToDo(c, d, m)
  BY <1>2 DEF NsToDo
<1>4. ASSUME NEW d \in NsDomains \ nsMuddled, NEW m \in NsCmds, NEW n \in NsNodes
      PROVE  NsListed(d, m, n)' = NsListed(d, m, n)
  <2>1. CASE d = h
    <3>1. nsDir[d] = 0
      <4>1. NsHolds(c) /\ NsPlaced(c) /\ c.pc \in NsAfter \ {"dom"}
        BY <1>1, <1>2 DEF NsHeld, NsPlace, NsAfter
      <4> QED
        BY <4>1, <2>1, <1>1, <1>2, <1>4 DEF NsHolds, NsPlaced
    <3>2. NsListed(d, m, n) = 0
      BY <3>1 DEF NsListed
    <3>3. nsDir'[d] = L + 1 /\ nsDomObj'[nsDir'[d]][m] = 0
      BY <2>1, <1>2
    <3>4. NsListed(d, m, n)' = 0
      BY <3>3 DEF NsListed
    <3> QED
      BY <3>2, <3>4
  <2>2. CASE d # h
    <3>1. nsDir'[d] = nsDir[d]
      BY <2>2, <1>2
    <3>2. nsDir[d] # 0 => nsDir[d] \in 1 .. L
      BY <1>1, NsListedIs
    <3>3. nsDir[d] # 0 => nsDomObj'[nsDir[d]] = nsDomObj[nsDir[d]]
      BY <3>2, <1>2
    <3> QED
      BY <3>1, <3>3, <1>2 DEF NsListed
  <2> QED
    BY <2>1, <2>2
<1>5. \A d \in NsDomains \ nsMuddled, m \in NsCmds : NsSlotSame(a, e, d, m)
  BY <1>1, <1>3, <1>4 DEF NsSlotSame
<1> QED
  BY <1>2, <1>5, NsListStep

\* The lists after a node set was created: it replaces none.
LEMMA NsNewNodesLists ==
  ASSUME NsTypeOK, NsControl, NsWork, NsHeap, NsHeld, NsPlace, NsListing, NEW a \in NsActors, SetNewNodes(a)
  PROVE  NsListing'
<1>1. PICK c, e, S, k : c = nsCall[a] /\ e = nsCall'[a] /\ S = Len(nsSetObj) /\ k = NsNextCmd(c)
  OBVIOUS
<1>2. /\ c \in NsCallSet /\ NsWorks(c) /\ c.ops # <<>> /\ c.pc = "mkset" /\ NsGoes(a, e)
      /\ e.ops = c.ops /\ e.pc = "node"
      /\ \A o \in 1 .. S : nsSetObj'[o] = nsSetObj[o]
      /\ \A n \in NsNodes : nsSetObj'[S + 1][n] = 0
      /\ nsDir' = nsDir
      /\ \A o \in 1 .. Len(nsDomObj), m \in NsCmds :
            nsDomObj'[o][m] = IF o = c.d /\ m = k THEN S + 1 ELSE nsDomObj[o][m]
  BY <1>1, NsNewNodesStep
<1>a. /\ \A d \in NsDomains : nsDir[d] = c.d => d = Head(c.ops).dom
      /\ c.ns = 0
      /\ Head(c.ops).dom \notin nsMuddled => nsDomObj[c.d][k] = c.ns
  BY <1>1, <1>2, NsCmdHeld
<1>3. \A d, m : NsToDo(e, d, m) <=> NsToDo(c, d, m)
  BY <1>2 DEF NsToDo
<1>4. ASSUME NEW d \in NsDomains \ nsMuddled, NEW m \in NsCmds, NEW n \in NsNodes
      PROVE  NsListed(d, m, n)' = NsListed(d, m, n)
  <2>0. PICK o : o = nsDir[d]
    OBVIOUS
  <2>1. /\ o = 0 => NsListed(d, m, n) = 0
        /\ o # 0 => o \in 1 .. Len(nsDomObj)
        /\ o # 0 /\ nsDomObj[o][m] = 0 => NsListed(d, m, n) = 0
        /\ o # 0 /\ nsDomObj[o][m] # 0 =>
              /\ nsDomObj[o][m] \in 1 .. Len(nsSetObj)
              /\ NsListed(d, m, n) = nsSetObj[nsDomObj[o][m]][n]
    BY <2>0, NsListedIs
  <2>2. CASE o = 0
    BY <2>0, <2>2, <1>2 DEF NsListed
  <2>3. CASE o # 0 /\ o = c.d /\ m = k
    <3>1. d = Head(c.ops).dom /\ nsDomObj[o][m] = 0
      BY <2>0, <2>3, <1>a, <1>4
    <3>2. nsDomObj'[o][m] = S + 1
      BY <2>1, <2>3, <1>2
    <3>3. nsSetObj'[S + 1][n] = 0
      BY <1>2
    <3>4. NsListed(d, m, n)' = 0
      BY <3>2, <3>3, <2>0, <1>2 DEF NsListed
    <3> QED
      BY <3>1, <3>4, <2>1, <2>3
  <2>4. CASE o # 0 /\ ~(o = c.d /\ m = k)
    <3>1. nsDomObj'[o][m] = nsDomObj[o][m]
      BY <2>1, <2>4, <1>2
    <3>2. nsDomObj[o][m] # 0 => nsSetObj'[nsDomObj[o][m]] = nsSetObj[nsDomObj[o][m]]
      BY <2>1, <2>4, <1>1, <1>2
    <3> QED
      BY <3>1, <3>2, <2>0, <1>2 DEF NsListed
  <2> QED
    BY <2>2, <2>3, <2>4
<1>5. \A d \in NsDomains \ nsMuddled, m \in NsCmds : NsSlotSame(a, e, d, m)
  BY <1>1, <1>3, <1>4 DEF NsSlotSame
<1> QED
  BY <1>2, <1>5, NsListStep

\* The lists after a node set was taken out: it was still empty.
LEMMA NsEraseLists ==
  ASSUME NsTypeOK, NsControl, NsWork, NsHeap, NsHeld, NsPlace, NsListing, NEW a \in NsActors, SetErase(a)
  PROVE  NsListing'
<1>1. PICK c, e, k, h : c = nsCall[a] /\ e = nsCall'[a] /\ k = NsNextCmd(c) /\ h = Head(c.ops)
  OBVIOUS
<1>2. /\ c \in NsCallSet /\ NsWorks(c) /\ c.ops # <<>> /\ c.pc = "erase" /\ NsGoes(a, e) /\ e = NsCmdDone(c)
      /\ nsDir' = nsDir /\ nsSetObj' = nsSetObj
      /\ \A o \in 1 .. Len(nsDomObj), m \in NsCmds :
            nsDomObj'[o][m] = IF o = c.d /\ m = k THEN 0 ELSE nsDomObj[o][m]
  BY <1>1, NsEraseStep
<1>a. /\ \A d \in NsDomains : nsDir[d] = c.d => d = Head(c.ops).dom
      /\ Head(c.ops).dom \notin nsMuddled =>
           nsDomObj[c.d][k] = c.ns /\ \A n \in NsNodes : nsSetObj[c.ns][n] = 0
  BY <1>1, <1>2, NsCmdHeld
<1>3. \A d, m : NsToDo(e, d, m) <=> NsToDo(c, d, m)
  <2>1. /\ e.pc \in {"dom", "cmd"}
        /\ \A d, m : NsPending(e.ops, d, m) <=> NsPending(c.ops, d, m) /\ ~(d = h.dom /\ m = k)
    BY <1>1, <1>2, NsCmdDoneIs DEF NsWorks
  <2> QED
    BY <2>1, <1>1, <1>2 DEF NsToDo
<1>4. ASSUME NEW d \in NsDomains \ nsMuddled, NEW m \in NsCmds, NEW n \in NsNodes
      PROVE  NsListed(d, m, n)' = NsListed(d, m, n)
  <2>0. PICK o : o = nsDir[d]
    OBVIOUS
  <2>1. /\ o = 0 => NsListed(d, m, n) = 0
        /\ o # 0 => o \in 1 .. Len(nsDomObj)
        /\ o # 0 /\ nsDomObj[o][m] = 0 => NsListed(d, m, n) = 0
        /\ o # 0 /\ nsDomObj[o][m] # 0 => NsListed(d, m, n) = nsSetObj[nsDomObj[o][m]][n]
    BY <2>0, NsListedIs
  <2>2. CASE o = 0
    BY <2>0, <2>2, <1>2 DEF NsListed
  <2>3. CASE o # 0 /\ o = c.d /\ m = k
    <3>1. d = Head(c.ops).dom /\ nsDomObj[o][m] = c.ns /\ nsSetObj[c.ns][n] = 0
      BY <2>0, <2>3, <1>a, <1>4
    <3>2. nsDomObj'[o][m] = 0
      BY <2>1, <2>3, <1>2
    <3>3. NsListed(d, m, n)' = 0
      BY <3>2, <2>0, <1>2 DEF NsListed
    <3> QED
      BY <3>1, <3>3, <2>1, <2>3
  <2>4. CASE o # 0 /\ ~(o = c.d /\ m = k)
    <3>1. nsDomObj'[o][m] = nsDomObj[o][m]
      BY <2>1, <2>4, <1>2
    <3> QED
      BY <3>1, <2>0, <1>2 DEF NsListed
  <2> QED
    BY <2>2, <2>3, <2>4
<1>5. \A d \in NsDomains \ nsMuddled, m \in NsCmds : NsSlotSame(a, e, d, m)
  BY <1>1, <1>3, <1>4 DEF NsSlotSame
<1> QED
  BY <1>2, <1>5, NsListStep

\* The lists after a node was written: one slot has the new registration.
LEMMA NsNodeLists ==
  ASSUME NsTypeOK, NsControl, NsWork, NsHeap, NsHeld, NsPlace, NsListing, NEW a \in NsActors, SetNode(a)
  PROVE  NsListing'
<1>1. PICK c, e, S, k, n, w, h :
         /\ c = nsCall[a] /\ e = nsCall'[a] /\ S = Len(nsSetObj) /\ k = NsNextCmd(c) /\ h = Head(c.ops)
         /\ n = (IF Head(c.ops).kind = "del" THEN c.old.node ELSE c.new.node)
         /\ w = (IF Head(c.ops).kind = "del" THEN 0 ELSE c.new.weight)
  OBVIOUS
<1>2. /\ c \in NsCallSet /\ NsWorks(c) /\ c.ops # <<>> /\ c.pc = "node" /\ NsGoes(a, e)
      /\ \/ e = NsCmdDone(c)
         \/ e.pc = "size" /\ e.ops = c.ops /\ e.d = c.d /\ e.ns = c.ns
      /\ nsDir' = nsDir /\ nsDomObj' = nsDomObj
      /\ \A o \in 1 .. S, x \in NsNodes :
               nsSetObj'[o][x] = IF o = c.ns /\ x = n THEN w ELSE nsSetObj[o][x]
  BY <1>1, NsNodeStep
<1>3. /\ c.d \in 1 .. Len(nsDomObj) /\ (\A d \in NsDomains : nsDir[d] = c.d => d = h.dom)
      /\ c.ns \in 1 .. S
      /\ \A o \in 1 .. Len(nsDomObj), m \in NsCmds : nsDomObj[o][m] = c.ns => o = c.d /\ m = k
      /\ h.dom \notin nsMuddled => nsDir[h.dom] = c.d /\ nsDomObj[c.d][k] = c.ns
  BY <1>1, <1>2, NsCmdHeld
<1>4. \A d, m : NsToDo(e, d, m) <=> NsPending(c.ops, d, m) /\ ~(d = h.dom /\ m = k)
  <2>1. CASE e = NsCmdDone(c)
    <3>1. /\ e.pc \in {"dom", "cmd"}
          /\ \A d, m : NsPending(e.ops, d, m) <=> NsPending(c.ops, d, m) /\ ~(d = h.dom /\ m = k)
      BY <2>1, <1>1, <1>2, NsCmdDoneIs DEF NsWorks
    <3> QED
      BY <3>1 DEF NsToDo
  <2>2. CASE e.pc = "size" /\ e.ops = c.ops
    <3>1. NsNextCmd(e) = k
      BY <2>2, <1>1 DEF NsNextCmd
    <3> QED
      BY <2>2, <3>1, <1>1 DEF NsToDo
  <2> QED
    BY <2>1, <2>2, <1>2
<1>5. \A d, m : NsToDo(c, d, m) <=> NsPending(c.ops, d, m)
  BY <1>2 DEF NsToDo
<1>6. ASSUME NEW d \in NsDomains \ nsMuddled, NEW m \in NsCmds, ~(d = h.dom /\ m = k)
      PROVE  NsSlotSame(a, e, d, m)
  <2>1. ASSUME NEW x \in NsNodes PROVE NsListed(d, m, x)' = NsListed(d, m, x)
    <3>0. PICK o : o = nsDir[d]
      OBVIOUS
    <3>1. /\ o # 0 => o \in 1 .. Len(nsDomObj)
          /\ o # 0 /\ nsDomObj[o][m] # 0 => nsDomObj[o][m] \in 1 .. S
      BY <3>0, <1>1, NsListedIs
    <3>2. o # 0 => nsDomObj[o][m] # c.ns
      BY <3>0, <3>1, <1>3, <1>6
    <3>3. o # 0 /\ nsDomObj[o][m] # 0 => nsSetObj'[nsDomObj[o][m]][x] = nsSetObj[nsDomObj[o][m]][x]
      BY <3>1, <3>2, <1>2
    <3> QED
      BY <3>0, <3>3, <1>2 DEF NsListed
  <2> QED
    BY <2>1, <1>1, <1>4, <1>5, <1>6 DEF NsSlotSame
<1>7. ASSUME h.dom \notin nsMuddled PROVE NsDone(a, e, h.dom, k)
  <2>0. /\ k \in h.cmds /\ k \in NsCmds /\ h.dom \in NsDomains /\ h.kind \in {"del", "add"} /\ h.dom \in NsAll(c)
        /\ NsPending(c.ops, h.dom, k)
        /\ h.kind = "del" => <<h.dom, k>> \in c.old.regs /\ <<h.dom, k>> \notin c.new.regs
        /\ h.kind = "add" => <<h.dom, k>> \in c.new.regs
    BY <1>1, <1>2, NsHeadIs DEF NsWorks
  <2>1. /\ c.old \in NsAllInfos /\ c.new \in NsAllInfos
        /\ h.kind = "del" => c.old # NsNoInfo /\ c.old.node \in NsNodes
        /\ h.kind = "add" => c.new # NsNoInfo /\ c.new.node \in NsNodes
    <3>1. c.old \in NsAllInfos /\ c.new \in NsAllInfos
      BY <1>2 DEF NsCallSet
    <3> QED
      BY <3>1, <2>0, NsInfoIs
  <2>2. \A x \in NsNodes : x # "none"
    BY NameServerAssumption DEF NsNodes
  <2>3. n \in NsNodes /\ n \in NsIds(c)
    BY <2>0, <2>1, <2>2, <1>1 DEF NsIds
  <2>4. ASSUME NEW x \in NsNodes
        PROVE  /\ NsListed(h.dom, k, x) = nsSetObj[c.ns][x]
               /\ NsListed(h.dom, k, x)' = IF x = n THEN w ELSE NsListed(h.dom, k, x)
    <3>1. nsDir[h.dom] = c.d /\ nsDomObj[c.d][k] = c.ns /\ c.d # 0 /\ c.ns # 0
      <4>1. Len(nsDomObj) \in Nat /\ S \in Nat
        BY <1>1 DEF NsTypeOK
      <4> QED
        BY <4>1, <1>3, <1>7
    <3>2. NsListed(h.dom, k, x) = nsSetObj[c.ns][x]
      BY <3>1 DEF NsListed
    <3>3. NsListed(h.dom, k, x)' = nsSetObj'[c.ns][x]
      BY <3>1, <1>2 DEF NsListed
    <3> QED
      BY <3>2, <3>3, <1>2, <1>3
  <2>5. ASSUME NEW x \in NsNodes, x \notin NsIds(c) PROVE NsListed(h.dom, k, x)' = NsListed(h.dom, k, x)
    BY <2>3, <2>4, <2>5
  <2>6. ASSUME NEW x \in NsNodes, NEW v \in Nat \ {0}, x \in NsIds(c)
        PROVE  NsListed(h.dom, k, x)' = v <=> NsInfoHas(c.new, h.dom, k, x, v)
    <3>1. CASE h.kind = "del"
      <4>1. ~NsInfoHas(c.new, h.dom, k, x, v)
        BY <3>1, <2>0 DEF NsInfoHas
      <4>2. CASE x = n
        BY <4>1, <4>2, <3>1, <2>4, <1>1
      <4>3. CASE x # n
        <5>1. ~NsCallHas(c, h.dom, k, x, v)
          BY <4>3, <3>1, <2>0, <1>1, <1>5 DEF NsCallHas, NsInfoHas
        <5>2. NsOwed(h.dom, k, x, v) <=> NsOwedIf(a, c, h.dom, k, x, v)
          BY <1>1, <1>2, NsOwedMoves
        <5>3. NsOwedIf(a, c, h.dom, k, x, v) <=> NsCallHas(c, h.dom, k, x, v)
          <6>1. NsChanges(a) /\ h.dom \in NsAll(nsCall[a]) /\ x \in NsIds(nsCall[a])
            BY <2>0, <2>6, <1>1, <1>2 DEF NsGoes
          <6> QED
            BY <6>1, <1>1, <1>7, NsOneOwner
        <5>4. NsListed(h.dom, k, x) = v <=> NsOwed(h.dom, k, x, v)
          BY <2>0, <1>7 DEF NsListing
        <5> QED
          BY <4>1, <4>3, <5>1, <5>2, <5>3, <5>4, <2>4
      <4> QED
        BY <4>2, <4>3
    <3>2. CASE h.kind = "add"
      <4>1. n = c.new.node /\ w = c.new.weight /\ <<h.dom, k>> \in c.new.regs /\ c.new # NsNoInfo
        BY <3>2, <2>0, <2>1, <1>1
      <4>2. CASE x = n
        BY <4>1, <4>2, <2>4 DEF NsInfoHas
      <4>3. CASE x # n
        <5>1. x = c.old.node /\ c.old.node # "none" /\ c.old.node # c.new.node
          BY <4>1, <4>3, <2>2, <2>6 DEF NsIds
        <5>2. c.new = NsNoInfo \/ c.old.node \in {"none", c.new.node} \/ NsAll(c) \subseteq nsMuddled
          BY <1>1, <1>2 DEF NsControl, NsBasis, NsAfter
        <5> QED
          BY <5>1, <5>2, <4>1, <2>0, <1>7
      <4> QED
        BY <4>2, <4>3
    <3> QED
      BY <3>1, <3>2, <2>0
  <2>7. ~NsToDo(e, h.dom, k)
    BY <1>4
  <2> QED
    BY <2>0, <2>5, <2>6, <2>7, <1>1 DEF NsDone
<1>8. ASSUME NEW d \in NsDomains \ nsMuddled, NEW m \in NsCmds
      PROVE  NsSlotSame(a, e, d, m) \/ NsDone(a, e, d, m)
  BY <1>6, <1>7, <1>8
<1> QED
  BY <1>2, <1>8, NsListStep

\* The lists after the size of a set was read: nothing has changed, its slot is done.
LEMMA NsSizeLists ==
  ASSUME NsTypeOK, NsControl, NsWork, NsListing, NEW a \in NsActors, SetSize(a)
  PROVE  NsListing'
<1>1. PICK c, e, k, h : c = nsCall[a] /\ e = nsCall'[a] /\ k = NsNextCmd(c) /\ h = Head(c.ops)
  OBVIOUS
<1>2. /\ c \in NsCallSet /\ NsWorks(c) /\ c.ops # <<>> /\ c.pc = "size" /\ NsGoes(a, e)
      /\ \/ e = NsCmdDone(c)
         \/ e.pc = "erase" /\ e.ops = c.ops
      /\ UNCHANGED <<nsDir, nsDomObj, nsSetObj>>
  BY <1>1, NsSizeStep
<1>3. \A d, m : NsToDo(e, d, m) <=> NsToDo(c, d, m)
  <2>1. CASE e = NsCmdDone(c)
    <3>0. c \in NsCallSet /\ NsOpsOK(c.ops, c.old, c.new) /\ c.ops # <<>>
      BY <1>2 DEF NsWorks
    <3>1. /\ e.pc \in {"dom", "cmd"}
          /\ \A d, m : NsPending(e.ops, d, m) <=> NsPending(c.ops, d, m) /\ ~(d = h.dom /\ m = k)
      BY <3>0, <2>1, <1>1, NsCmdDoneIs
    <3> QED
      BY <3>1, <1>1, <1>2 DEF NsToDo
  <2>2. CASE e.pc = "erase" /\ e.ops = c.ops
    <3>1. NsNextCmd(e) = k
      BY <2>2, <1>1 DEF NsNextCmd
    <3> QED
      BY <2>2, <3>1, <1>1, <1>2 DEF NsToDo
  <2> QED
    BY <2>1, <2>2, <1>2
<1>4. \A d, m, n : NsListed(d, m, n)' = NsListed(d, m, n)
  BY <1>2 DEF NsListed
<1>5. \A d \in NsDomains \ nsMuddled, m \in NsCmds : NsSlotSame(a, e, d, m)
  BY <1>1, <1>3, <1>4 DEF NsSlotSame
<1> QED
  BY <1>2, <1>5, NsListStep

-----------------------------------------------------------------------------
(* The invariant                                                           *)

\* Only the links change, and what the calls know about them stays true.
LEMMA NsLinksInv ==
  ASSUME NsInv, NsControl', nsLink' \in [NsStreams -> NsLinkSet],
         UNCHANGED <<nsSessions, nsCall, nsMuddled>>, UNCHANGED <<nsDir, nsDomObj, nsSetObj>>
  PROVE  NsInv'
<1>1. \A a \in NsActors : NsChanges(a)' <=> NsChanges(a)
  BY DEF NsChanges
<1>2. NsTypeOK'
  BY DEF NsInv, NsTypeOK
<1>3. NsWork'
  BY <1>1 DEF NsInv, NsWork
<1>4. NsHeap' /\ NsHeld' /\ NsPlace'
  BY DEF NsInv, NsHeap, NsHeld, NsHolds, NsPlace, NsPlaced
<1>5. NsListing'
  <2>1. \A d, m, n : NsListed(d, m, n)' = NsListed(d, m, n)
    BY DEF NsListed
  <2>2. \A a, d : NsTouches(a, d)' <=> NsTouches(a, d)
    BY DEF NsTouches, NsChanges
  <2>3. \A d, m, n, w : NsOwed(d, m, n, w)' <=> NsOwed(d, m, n, w)
    BY <2>2 DEF NsOwed
  <2> QED
    BY <2>1, <2>3 DEF NsInv, NsListing
<1> QED
  BY <1>2, <1>3, <1>4, <1>5 DEF NsInv

\* A step of a call that is not in the middle of its operations, before and after it.
LEMMA NsQuietStep ==
  ASSUME NsInv, NsControl', NEW a \in NsActors, ~NsChanges(a), ~NsChanges(a)',
         nsLink' \in [NsStreams -> NsLinkSet],
         nsCall' \in [NsActors -> {NsIdle} \cup NsCallSet],
         \A b \in NsActors : b # a => nsCall'[b] = nsCall[b],
         UNCHANGED <<nsSessions, nsHeap>>, nsMuddled \subseteq nsMuddled'
  PROVE  NsInv'
<1>0. UNCHANGED <<nsDir, nsDomObj, nsSetObj>> /\ nsSessions' = nsSessions
  BY DEF nsHeap
<1>1. NsTypeOK'
  BY <1>0 DEF NsInv, NsTypeOK
<1>2. \A b \in NsActors : (NsChanges(b)' <=> NsChanges(b)) /\ (NsChanges(b) => b # a /\ nsCall'[b] = nsCall[b])
  BY DEF NsChanges
<1>3. NsWork'
  <2>1. \A b \in NsActors : NsChanges(b) => NsWorks(nsCall[b])
    BY DEF NsInv, NsWork
  <2> QED
    BY <2>1, <1>2 DEF NsWork
<1>4. NsHeap' /\ NsHeld' /\ NsPlace'
  <2>1. nsCall'[a] \in {NsIdle} \cup NsCallSet
    OBVIOUS
  <2>2. nsCall'[a].pc \in {"idle", "set", "diff", "dom"}
    <3>1. NsIdle.pc = "idle" /\ \A c \in NsCallSet : c.pc \in NsBefore \cup NsAfter
      BY DEF NsIdle, NsCallSet
    <3>2. nsCall'[a].pc \notin NsAfter
      BY DEF NsChanges
    <3> QED
      BY <2>1, <3>1, <3>2 DEF NsBefore
  <2>3. NsHolds(nsCall[a])' /\ NsPlaced(nsCall[a])'
    BY <2>2, NsHoldsNone
  <2> QED
    BY <2>3, <1>0, NsQuietHeap DEF NsInv
<1>5. NsListing'
  <2> SUFFICES ASSUME NEW d \in NsDomains \ nsMuddled', NEW m \in NsCmds, NEW n \in NsNodes, NEW w \in Nat \ {0}
               PROVE  NsListed(d, m, n)' = w <=> NsOwed(d, m, n, w)'
    BY DEF NsListing
  <2>1. NsListed(d, m, n) = w <=> NsOwed(d, m, n, w)
    BY DEF NsInv, NsListing
  <2>2. NsListed(d, m, n)' = NsListed(d, m, n)
    BY <1>0 DEF NsListed
  <2>3. \A b \in NsActors : (NsTouches(b, d)' <=> NsTouches(b, d)) /\ (NsTouches(b, d) => nsCall'[b] = nsCall[b])
    BY <1>2 DEF NsTouches
  <2>4. NsOwed(d, m, n, w)' <=> NsOwed(d, m, n, w)
    BY <2>3, <1>0 DEF NsOwed
  <2> QED
    BY <2>1, <2>2, <2>4
<1> QED
  BY <1>1, <1>3, <1>4, <1>5 DEF NsInv

\* handleRegister() and onDisconnect() begin a call.
LEMMA NsBeginStep ==
  ASSUME NsInv, NEW a \in NsActors, NEW rs \in NsStreams, NEW new \in NsAllInfos,
         nsCall[a].pc = "idle", NsBegin(a, rs, new), UNCHANGED <<nsSessions, nsHeap>>,
         new = NsNoInfo \/ nsSessions[rs].node \in {"none", new.node},
         \/ a \notin NsStreams /\ UNCHANGED nsLink
         \/ a = rs /\ new = NsNoInfo /\ nsLink' = [nsLink EXCEPT ![rs] = "closing"]
  PROVE  NsInv'
<1>1. NsTypeOK /\ NsControl
  BY DEF NsInv
<1>2. ~NsRuns(a) /\ ~NsChanges(a)
  BY DEF NsRuns, NsChanges, NsAfter
<1>3. NsControl'
  BY <1>1, <1>2, NsBeginControl
<1>4. nsLink' \in [NsStreams -> NsLinkSet]
  BY <1>1 DEF NsTypeOK, NsLinkSet
<1>5. [pc |-> "set", rs |-> rs, old |-> NsNoInfo, new |-> new, ops |-> <<>>, d |-> 0, ns |-> 0] \in NsCallSet
  <2>1. <<>> \in Seq(NsOpSet)
    OBVIOUS
  <2> QED
    BY <2>1 DEF NsCallSet, NsBefore, NsAllInfos
<1>6. /\ nsCall' \in [NsActors -> {NsIdle} \cup NsCallSet]
      /\ \A b \in NsActors : b # a => nsCall'[b] = nsCall[b]
      /\ nsCall'[a].pc = "set"
  BY <1>1, <1>5 DEF NsBegin, NsTypeOK
<1>7. ~NsChanges(a)'
  BY <1>6 DEF NsChanges, NsAfter
<1>8. nsMuddled \subseteq nsMuddled'
  BY DEF NsBegin
<1> QED
  BY <1>2, <1>3, <1>4, <1>6, <1>7, <1>8, NsQuietStep

\* The socket of a stream is closed, by a handler that has refused a request or by innerClose()
\* when onDisconnect() has taken the stream out of the directory.
LEMMA NsCloseStep ==
  ASSUME NsInv, NEW r \in NsStreams, CloseRefused(r) \/ CloseSocket(r)
  PROVE  NsInv'
<1>1. NsTypeOK /\ NsControl
  BY DEF NsInv
<1>2. /\ nsCall' = nsCall /\ nsMuddled' = nsMuddled /\ UNCHANGED <<nsSessions, nsHeap>>
      /\ \A s \in NsStreams : s # r => nsLink'[s] = nsLink[s]
  BY <1>1 DEF CloseRefused, CloseSocket, NsTypeOK
<1>3. /\ nsLink' \in [NsStreams -> NsLinkSet]
      /\ nsLink'[r] \in NsKept <=> nsLink[r] \in NsKept
  BY <1>1 DEF CloseRefused, CloseSocket, NsTypeOK, NsLinkSet, NsKept
<1>4. (\A s \in NsStreams : nsLink'[s] \in NsKept <=> nsLink[s] \in NsKept) /\ nsSessions' = nsSessions
  BY <1>2, <1>3
<1>5. NsPairs' /\ NsTwins'
  BY <1>1, <1>2, <1>4 DEF NsControl, NsPairs, NsTwins, NsChanges, NsRuns
<1>6. NsBasis'
  <2>1. \A b \in NsActors : nsCall[b].pc \in NsAfter => nsCall[b].rs \in NsStreams
    BY <1>1, NsCallIs DEF NsCallSet
  <2> QED
    BY <2>1, <1>1, <1>2, <1>4 DEF NsControl, NsBasis
<1>7. NsLinks'
  BY <1>1, <1>2, <1>4 DEF NsControl, NsLinks, NsRuns
<1>8. NsControl'
  BY <1>5, <1>6, <1>7 DEF NsControl
<1> QED
  BY <1>2, <1>3, <1>8, NsLinksInv DEF nsHeap

\* isConnected() is asked.
LEMMA NsConnectedStep ==
  ASSUME NsInv, NEW a \in NsActors, SetConnected(a)
  PROVE  NsInv'
<1>1. NsTypeOK /\ NsControl
  BY DEF NsInv
<1>2. nsCall[a].pc = "set" /\ nsCall[a] \in NsCallSet
  BY <1>1, NsCallIs DEF SetConnected, NsBefore
<1>3. NsControl'
  BY <1>1, NsConnectedControl
<1>4. PICK e : e = [nsCall[a] EXCEPT !.pc = "diff", !.new = IF nsLink[nsCall[a].rs] \in NsConnected THEN nsCall[a].new ELSE NsNoInfo]
  OBVIOUS
<1>5. e \in NsCallSet /\ e.pc = "diff"
  BY <1>2, <1>4 DEF NsCallSet, NsBefore, NsAllInfos
<1>6. nsCall' = [nsCall EXCEPT ![a] = e]
  BY <1>4 DEF SetConnected
<1>7. /\ nsCall' \in [NsActors -> {NsIdle} \cup NsCallSet]
      /\ \A b \in NsActors : b # a => nsCall'[b] = nsCall[b]
      /\ nsCall'[a] = e
  BY <1>1, <1>5, <1>6 DEF NsTypeOK
<1>8. ~NsChanges(a) /\ ~NsChanges(a)'
  BY <1>2, <1>5, <1>7 DEF NsChanges, NsAfter
<1>9. /\ nsLink' \in [NsStreams -> NsLinkSet]
      /\ UNCHANGED <<nsSessions, nsHeap>> /\ nsMuddled \subseteq nsMuddled'
  BY <1>1 DEF SetConnected, NsTypeOK
<1> QED
  BY <1>3, <1>7, <1>8, <1>9, NsQuietStep

\* The difference is taken: the call answers for its session from now on.
LEMMA NsDiffStep ==
  ASSUME NsInv, NEW a \in NsActors, SetDiff(a)
  PROVE  NsInv'
<1>1. NsTypeOK /\ NsControl
  BY DEF NsInv
<1>2. PICK k, s, e : k = nsCall[a] /\ s = nsSessions[k.rs] /\ e = nsCall'[a]
  OBVIOUS
<1>3. k.pc = "diff" /\ k \in NsCallSet /\ k.rs \in NsStreams /\ k.new \in NsAllInfos /\ s \in NsAllInfos
  BY <1>1, <1>2, NsCallIs DEF SetDiff, NsBefore, NsCallSet, NsTypeOK
<1>4. PICK ops : ops = NsDiff(s, k.new)
  OBVIOUS
<1>5. /\ ops \in Seq(NsOpSet) /\ NsOpsOK(ops, s, k.new)
      /\ \A d, m : ~NsPending(ops, d, m) =>
            /\ <<d, m>> \in s.regs <=> <<d, m>> \in k.new.regs
            /\ <<d, m>> \in s.regs => s.weight = k.new.weight
  BY <1>3, <1>4, NsDiffIs
<1>6. /\ nsCall' = [nsCall EXCEPT ![a] = [k EXCEPT !.pc = "dom", !.old = s, !.ops = ops]]
      /\ nsMuddled \subseteq nsMuddled' /\ UNCHANGED <<nsDir, nsDomObj, nsSetObj>>
      /\ nsSessions' = nsSessions /\ nsLink' = nsLink
  BY <1>2, <1>4 DEF SetDiff, nsHeap
<1>7. e = [k EXCEPT !.pc = "dom", !.old = s, !.ops = ops] /\ \A b \in NsActors : b # a => nsCall'[b] = nsCall[b]
  BY <1>1, <1>2, <1>6 DEF NsTypeOK
<1>8. e \in NsCallSet /\ e.pc = "dom" /\ e.rs = k.rs /\ e.old = s /\ e.new = k.new /\ e.ops = ops
  BY <1>3, <1>5, <1>7 DEF NsCallSet, NsAfter
<1>9. /\ ~NsChanges(a) /\ NsChanges(a)'
      /\ \A b \in NsActors : b # a => (NsChanges(b)' <=> NsChanges(b))
  BY <1>2, <1>3, <1>7, <1>8 DEF NsChanges, NsAfter
<1>10. NsControl'
  BY <1>1, NsDiffControl
<1>11. NsTypeOK'
  <2>1. nsCall' \in [NsActors -> {NsIdle} \cup NsCallSet]
    BY <1>1, <1>6, <1>7, <1>8 DEF NsTypeOK
  <2> QED
    BY <2>1, <1>1, <1>6 DEF NsTypeOK
<1>12. NsWork'
  <2>1. NsWorks(e)
    BY <1>5, <1>8 DEF NsWorks
  <2>2. \A b \in NsActors : NsChanges(b) => NsWorks(nsCall[b])
    BY DEF NsInv, NsWork
  <2>3. ASSUME NEW b \in NsActors, NsChanges(b)' PROVE NsWorks(nsCall'[b])
    BY <2>1, <2>2, <2>3, <1>2, <1>7, <1>9
  <2> QED
    BY <2>3 DEF NsWork
<1>13. NsHeap' /\ NsHeld' /\ NsPlace'
  <2>1. NsHolds(nsCall[a])' /\ NsPlaced(nsCall[a])'
    BY <1>2, <1>8, NsHoldsNone
  <2> QED
    BY <2>1, <1>6, <1>7, NsQuietHeap DEF NsInv
<1>14. NsListing'
  <2> SUFFICES ASSUME NEW d \in NsDomains \ nsMuddled', NEW m \in NsCmds, NEW n \in NsNodes, NEW w \in Nat \ {0}
               PROVE  NsListed(d, m, n)' = w <=> NsOwed(d, m, n, w)'
    BY DEF NsListing
  <2>1. NsListed(d, m, n) = w <=> NsOwed(d, m, n, w)
    BY <1>6 DEF NsInv, NsListing
  <2>2. NsListed(d, m, n)' = NsListed(d, m, n)
    BY <1>6 DEF NsListed
  <2>3. ~NsTouches(a, d) /\ \A b \in NsActors : b # a => (NsTouches(b, d)' <=> NsTouches(b, d))
    BY <1>7, <1>9 DEF NsTouches
  <2>4. CASE d \in NsAll(e)
    <3>1. NsTouches(a, d)'
      BY <2>4, <1>2, <1>9 DEF NsTouches
    <3>2. \A b \in NsActors : b # a => ~NsTouches(b, d)'
      <4> SUFFICES ASSUME NEW b \in NsActors, b # a, NsTouches(b, d)' PROVE FALSE
        OBVIOUS
      <4>1. NsRuns(b)' /\ d \in NsAll(nsCall'[b])
        BY DEF NsTouches, NsChanges, NsRuns, NsAfter
      <4>2. NsAll(nsCall'[a]) \cap NsAll(nsCall'[b]) \subseteq nsMuddled'
        BY <4>1, <1>9, <1>10 DEF NsControl, NsPairs
      <4> QED
        BY <4>1, <4>2, <2>4, <1>2
    <3>3. NsCallHas(e, d, m, n, w) <=> NsInfoHas(s, d, m, n, w)
      <4>1. CASE NsToDo(e, d, m)
        BY <4>1, <1>8 DEF NsCallHas
      <4>2. CASE ~NsToDo(e, d, m)
        <5>1. ~NsPending(ops, d, m)
          BY <4>2, <1>8 DEF NsToDo
        <5>2. /\ <<d, m>> \in s.regs <=> <<d, m>> \in k.new.regs
              /\ <<d, m>> \in s.regs => s.weight = k.new.weight
          BY <5>1, <1>5
        <5>3. k.new = NsNoInfo \/ s.node \in {"none", k.new.node} \/ NsAll(e) \subseteq nsMuddled'
          <6>1. e.pc \in NsAfter
            BY <1>8 DEF NsAfter
          <6> QED
            BY <6>1, <1>2, <1>8, <1>10 DEF NsControl, NsBasis
        <5>4. (k.new = NsNoInfo => k.new.regs = {}) /\ (s.node = "none" => s.regs = {})
          BY <1>3, NsInfoIs
        <5>5. <<d, m>> \in s.regs => s.node = k.new.node
          BY <5>2, <5>3, <5>4, <2>4
        <5>6. NsCallHas(e, d, m, n, w) <=> NsInfoHas(k.new, d, m, n, w)
          BY <4>2, <1>8 DEF NsCallHas
        <5> QED
          BY <5>2, <5>5, <5>6 DEF NsInfoHas
      <4> QED
        BY <4>1, <4>2
    <3>4. NsOwed(d, m, n, w) <=> \E r \in NsStreams : NsInfoHas(nsSessions[r], d, m, n, w)
      <4>1. \A b \in NsActors : ~NsTouches(b, d)
        BY <2>3, <3>2
      <4> QED
        BY <4>1 DEF NsOwed
    <3>5. NsOwed(d, m, n, w)' <=> \/ NsCallHas(e, d, m, n, w)
                                  \/ \E r \in NsStreams : r # k.rs /\ NsInfoHas(nsSessions[r], d, m, n, w)
      <4>1. (\E b \in NsActors : NsTouches(b, d)' /\ NsCallHas(nsCall'[b], d, m, n, w)) <=> NsCallHas(e, d, m, n, w)
        BY <3>1, <3>2, <1>2
      <4>2. \A r \in NsStreams : (\A b \in NsActors : ~(NsTouches(b, d)' /\ nsCall'[b].rs = r)) <=> r # k.rs
        BY <3>1, <3>2, <1>2, <1>8
      <4> QED
        BY <4>1, <4>2, <1>6 DEF NsOwed
    <3> QED
      BY <3>3, <3>4, <3>5, <2>1, <2>2, <1>2, <1>3
  <2>5. CASE d \notin NsAll(e)
    <3>1. ~NsTouches(a, d)'
      BY <2>5, <1>2 DEF NsTouches
    <3>2. \A b \in NsActors : (NsTouches(b, d)' <=> NsTouches(b, d)) /\ (NsTouches(b, d) => nsCall'[b] = nsCall[b])
      BY <3>1, <2>3, <1>7
    <3>3. NsOwed(d, m, n, w)' <=> NsOwed(d, m, n, w)
      BY <3>2, <1>6 DEF NsOwed
    <3> QED
      BY <3>3, <2>1, <2>2
  <2> QED
    BY <2>4, <2>5
<1> QED
  BY <1>10, <1>11, <1>12, <1>13, <1>14 DEF NsInv

\* The session is written: it takes over from the call.
LEMMA NsSessionStep ==
  ASSUME NsInv, NEW a \in NsActors, SetSession(a)
  PROVE  NsInv'
<1>1. NsTypeOK /\ NsControl
  BY DEF NsInv
<1>2. PICK c : c = nsCall[a]
  OBVIOUS
<1>3. /\ c.pc = "dom" /\ c.ops = <<>> /\ c \in NsCallSet /\ c.rs \in NsStreams
      /\ c.new \in NsAllInfos /\ c.old \in NsAllInfos /\ NsChanges(a)
  BY <1>1, <1>2, NsCallIs DEF SetSession, NsAfter, NsCallSet, NsChanges
<1>4. /\ nsCall' \in [NsActors -> {NsIdle} \cup NsCallSet] /\ nsCall'[a] = NsIdle
      /\ \A b \in NsActors : b # a => nsCall'[b] = nsCall[b]
      /\ nsSessions' \in [NsStreams -> NsAllInfos] /\ nsSessions'[c.rs] = c.new
      /\ \A r \in NsStreams : r # c.rs => nsSessions'[r] = nsSessions[r]
      /\ UNCHANGED <<nsDir, nsDomObj, nsSetObj>> /\ nsLink' = nsLink /\ nsMuddled' = nsMuddled
  BY <1>1, <1>2, <1>3 DEF SetSession, NsTypeOK, nsHeap
<1>5. NsTypeOK'
  BY <1>1, <1>4 DEF NsTypeOK
<1>6. NsControl'
  BY <1>1, NsSessionControl
<1>7. ~NsChanges(a)' /\ \A b \in NsActors : b # a => (NsChanges(b)' <=> NsChanges(b))
  BY <1>4 DEF NsChanges, NsIdle, NsAfter
<1>8. NsWork'
  <2>1. \A b \in NsActors : NsChanges(b) => NsWorks(nsCall[b])
    BY DEF NsInv, NsWork
  <2> QED
    BY <2>1, <1>4, <1>7 DEF NsWork
<1>9. NsHeap' /\ NsHeld' /\ NsPlace'
  <2>1. nsCall'[a].pc = "idle"
    BY <1>4 DEF NsIdle
  <2>2. NsHolds(nsCall[a])' /\ NsPlaced(nsCall[a])'
    BY <2>1, NsHoldsNone
  <2> QED
    BY <2>2, <1>4, NsQuietHeap DEF NsInv
<1>10. NsListing'
  <2> SUFFICES ASSUME NEW d \in NsDomains \ nsMuddled, NEW m \in NsCmds, NEW n \in NsNodes, NEW w \in Nat \ {0}
               PROVE  NsListed(d, m, n)' = w <=> NsOwed(d, m, n, w)'
    BY <1>4 DEF NsListing
  <2>1. NsListed(d, m, n) = w <=> NsOwed(d, m, n, w)
    BY DEF NsInv, NsListing
  <2>2. NsListed(d, m, n)' = NsListed(d, m, n)
    BY <1>4 DEF NsListed
  <2>3. ~NsTouches(a, d)' /\ \A b \in NsActors : b # a => (NsTouches(b, d)' <=> NsTouches(b, d))
    BY <1>4, <1>7 DEF NsTouches
  <2>4. CASE d \in NsAll(c)
    <3>1. NsTouches(a, d)
      BY <2>4, <1>2, <1>3 DEF NsTouches
    <3>2. \A b \in NsActors : b # a => ~NsTouches(b, d)
      <4> SUFFICES ASSUME NEW b \in NsActors, b # a, NsTouches(b, d) PROVE FALSE
        OBVIOUS
      <4>1. NsRuns(b) /\ d \in NsAll(nsCall[b])
        BY DEF NsTouches, NsChanges, NsRuns, NsAfter
      <4>2. NsAll(nsCall[a]) \cap NsAll(nsCall[b]) \subseteq nsMuddled
        BY <4>1, <1>1, <1>3 DEF NsControl, NsPairs
      <4> QED
        BY <4>1, <4>2, <2>4, <1>2
    <3>3. NsCallHas(c, d, m, n, w) <=> NsInfoHas(c.new, d, m, n, w)
      <4>1. ~NsToDo(c, d, m)
        BY <1>3 DEF NsToDo, NsPending
      <4> QED
        BY <4>1 DEF NsCallHas
    <3>4. NsOwed(d, m, n, w) <=> \/ NsCallHas(c, d, m, n, w)
                                 \/ \E r \in NsStreams : r # c.rs /\ NsInfoHas(nsSessions[r], d, m, n, w)
      <4>1. (\E b \in NsActors : NsTouches(b, d) /\ NsCallHas(nsCall[b], d, m, n, w)) <=> NsCallHas(c, d, m, n, w)
        BY <3>1, <3>2, <1>2
      <4>2. \A r \in NsStreams : (\A b \in NsActors : ~(NsTouches(b, d) /\ nsCall[b].rs = r)) <=> r # c.rs
        BY <3>1, <3>2, <1>2
      <4> QED
        BY <4>1, <4>2 DEF NsOwed
    <3>5. NsOwed(d, m, n, w)' <=> \E r \in NsStreams : NsInfoHas(nsSessions'[r], d, m, n, w)
      <4>1. \A b \in NsActors : ~NsTouches(b, d)'
        BY <2>3, <3>2
      <4> QED
        BY <4>1 DEF NsOwed
    <3> QED
      BY <3>3, <3>4, <3>5, <2>1, <2>2, <1>3, <1>4
  <2>5. CASE d \notin NsAll(c)
    <3>1. ~NsTouches(a, d)
      BY <2>5, <1>2 DEF NsTouches
    <3>2. \A b \in NsActors : (NsTouches(b, d)' <=> NsTouches(b, d)) /\ (NsTouches(b, d) => nsCall'[b] = nsCall[b])
      BY <3>1, <2>3, <1>4
    <3>3. ~NsInfoHas(nsSessions[c.rs], d, m, n, w) /\ ~NsInfoHas(nsSessions'[c.rs], d, m, n, w)
      <4>1. c.old = nsSessions[c.rs] \/ NsDomainsOf(nsSessions[c.rs]) \cup NsAll(c) \subseteq nsMuddled
        BY <1>1, <1>2, <1>3 DEF NsControl, NsBasis, NsChanges
      <4>2. d \notin NsDomainsOf(nsSessions[c.rs]) /\ d \notin NsDomainsOf(c.new)
        BY <4>1, <2>5 DEF NsAll
      <4>3. nsSessions[c.rs] \in NsAllInfos
        BY <1>1, <1>3 DEF NsTypeOK
      <4>4. <<d, m>> \notin nsSessions[c.rs].regs /\ <<d, m>> \notin c.new.regs
        BY <4>2, <4>3, <1>3, NsInfoIs
      <4> QED
        BY <4>4, <1>4 DEF NsInfoHas
    <3>4. \A r \in NsStreams : NsInfoHas(nsSessions'[r], d, m, n, w) <=> NsInfoHas(nsSessions[r], d, m, n, w)
      <4>1. ASSUME NEW r \in NsStreams
            PROVE  NsInfoHas(nsSessions'[r], d, m, n, w) <=> NsInfoHas(nsSessions[r], d, m, n, w)
        <5>1. CASE r = c.rs
          BY <5>1, <3>3
        <5>2. CASE r # c.rs
          BY <5>2, <1>4
        <5> QED
          BY <5>1, <5>2
      <4> QED
        BY <4>1
    <3>5. NsOwed(d, m, n, w)' <=> NsOwed(d, m, n, w)
      BY <3>2, <3>4 DEF NsOwed
    <3> QED
      BY <3>5, <2>1, <2>2
  <2> QED
    BY <2>4, <2>5
<1> QED
  BY <1>5, <1>6, <1>8, <1>9, <1>10 DEF NsInv

\* The seven steps of set() that go through the directory.
LEMMA NsInnerStep ==
  ASSUME NsInv, NEW a \in NsActors,
         \/ SetDomain(a) \/ SetNewDomain(a) \/ SetNodes(a) \/ SetNewNodes(a) \/ SetNode(a)
         \/ SetSize(a) \/ SetErase(a)
  PROVE  NsInv'
<1>1. NsTypeOK /\ NsControl /\ NsWork /\ NsHeap /\ NsHeld /\ NsPlace /\ NsListing
  BY DEF NsInv
<1>2. PICK c, e, n, w :
         /\ c = nsCall[a] /\ e = nsCall'[a]
         /\ n = (IF Head(c.ops).kind = "del" THEN c.old.node ELSE c.new.node)
         /\ w = (IF Head(c.ops).kind = "del" THEN 0 ELSE c.new.weight)
  OBVIOUS
<1>3. /\ NsGoes(a, e) /\ NsHeap' /\ NsHeld' /\ NsPlace' /\ NsListing'
      /\ nsDir' \in [NsDomains -> Nat] /\ nsDomObj' \in Seq([NsCmds -> Nat]) /\ nsSetObj' \in Seq([NsNodes -> Nat])
  <2>0. nsDir \in [NsDomains -> Nat] /\ nsDomObj \in Seq([NsCmds -> Nat]) /\ nsSetObj \in Seq([NsNodes -> Nat])
    BY <1>1 DEF NsTypeOK
  <2>1. CASE SetDomain(a)
    <3>1. NsGoes(a, e)
      BY <2>1, <1>1, <1>2, NsDomainStep
    <3>2. UNCHANGED <<nsDir, nsDomObj, nsSetObj>>
      BY <2>1 DEF SetDomain, nsHeap
    <3>3. NsHeap' /\ NsHeld' /\ NsPlace' /\ NsListing'
      BY <2>1, <1>1, NsDomainHeap, NsDomainLists
    <3> QED
      BY <3>1, <3>2, <3>3, <2>0
  <2>2. CASE SetNewDomain(a)
    <3>1. NsGoes(a, e) /\ nsDir' \in [NsDomains -> Nat] /\ nsDomObj' \in Seq([NsCmds -> Nat]) /\ nsSetObj' = nsSetObj
      BY <2>2, <1>1, <1>2, NsNewDomainStep
    <3>2. NsHeap' /\ NsHeld' /\ NsPlace' /\ NsListing'
      BY <2>2, <1>1, NsNewDomainHeap, NsNewDomainLists
    <3> QED
      BY <3>1, <3>2, <2>0
  <2>3. CASE SetNodes(a)
    <3>1. NsGoes(a, e)
      BY <2>3, <1>1, <1>2, NsNodesStep
    <3>2. UNCHANGED <<nsDir, nsDomObj, nsSetObj>>
      BY <2>3 DEF SetNodes, nsHeap
    <3>3. NsHeap' /\ NsHeld' /\ NsPlace' /\ NsListing'
      BY <2>3, <1>1, NsNodesHeap, NsNodesLists
    <3> QED
      BY <3>1, <3>2, <3>3, <2>0
  <2>4. CASE SetNewNodes(a)
    <3>1. NsGoes(a, e) /\ nsDir' = nsDir /\ nsDomObj' \in Seq([NsCmds -> Nat]) /\ nsSetObj' \in Seq([NsNodes -> Nat])
      BY <2>4, <1>1, <1>2, NsNewNodesStep
    <3>2. NsHeap' /\ NsHeld' /\ NsPlace' /\ NsListing'
      BY <2>4, <1>1, NsNewNodesHeap, NsNewNodesLists
    <3> QED
      BY <3>1, <3>2, <2>0
  <2>5. CASE SetNode(a)
    <3>1. NsGoes(a, e) /\ nsDir' = nsDir /\ nsDomObj' = nsDomObj /\ nsSetObj' \in Seq([NsNodes -> Nat])
      BY <2>5, <1>1, <1>2, NsNodeStep
    <3>2. NsHeap' /\ NsHeld' /\ NsPlace' /\ NsListing'
      BY <2>5, <1>1, NsNodeHeap, NsNodeLists
    <3> QED
      BY <3>1, <3>2, <2>0
  <2>6. CASE SetErase(a)
    <3>1. NsGoes(a, e) /\ nsDir' = nsDir /\ nsSetObj' = nsSetObj /\ nsDomObj' \in Seq([NsCmds -> Nat])
      BY <2>6, <1>1, <1>2, NsEraseStep
    <3>2. NsHeap' /\ NsHeld' /\ NsPlace' /\ NsListing'
      BY <2>6, <1>1, NsEraseHeap, NsEraseLists
    <3> QED
      BY <3>1, <3>2, <2>0
  <2>7. CASE SetSize(a)
    <3>1. NsGoes(a, e) /\ UNCHANGED <<nsDir, nsDomObj, nsSetObj>>
      BY <2>7, <1>1, <1>2, NsSizeStep
    <3>2. NsHeap' /\ NsHeld' /\ NsPlace' /\ NsListing'
      BY <2>7, <1>1, NsSizeHeap, NsSizeLists
    <3> QED
      BY <3>1, <3>2, <2>0
  <2> QED
    BY <2>1, <2>2, <2>3, <2>4, <2>5, <2>6, <2>7
<1>4. /\ NsControl' /\ NsWork'
      /\ nsLink' \in [NsStreams -> NsLinkSet]
      /\ nsSessions' \in [NsStreams -> NsAllInfos]
      /\ nsCall' \in [NsActors -> {NsIdle} \cup NsCallSet]
  BY <1>1, <1>3, NsGoesOn
<1>5. NsTypeOK'
  BY <1>3, <1>4 DEF NsTypeOK
<1> QED
  BY <1>3, <1>4, <1>5 DEF NsInv

\* Nothing that the invariant is about changes.
LEMMA NsSameInv ==
  ASSUME NsInv, UNCHANGED <<nsLink, nsSessions, nsCall, nsMuddled>>, UNCHANGED <<nsDir, nsDomObj, nsSetObj>>
  PROVE  NsInv'
<1>1. \A a \in NsActors : (NsRuns(a)' <=> NsRuns(a)) /\ (NsChanges(a)' <=> NsChanges(a))
  BY DEF NsRuns, NsChanges
<1>2. nsLink' \in [NsStreams -> NsLinkSet]
  BY DEF NsInv, NsTypeOK
<1>3. NsControl'
  <2>1. NsPairs'
    BY <1>1 DEF NsInv, NsControl, NsPairs
  <2>2. NsTwins'
    BY <1>1 DEF NsInv, NsControl, NsTwins
  <2>3. NsBasis'
    BY DEF NsInv, NsControl, NsBasis
  <2>4. NsLinks'
    BY <1>1 DEF NsInv, NsControl, NsLinks, NsActors
  <2> QED
    BY <2>1, <2>2, <2>3, <2>4 DEF NsControl
<1> QED
  BY <1>2, <1>3, NsLinksInv

\* The name server starts with its invariant.
LEMMA NsInitInv ==
  ASSUME NsInit
  PROVE  NsInv
<1>1. /\ nsCall = [a \in NsActors |-> NsIdle] /\ nsSessions = [r \in NsStreams |-> NsNoInfo]
      /\ nsLink = [r \in NsStreams |-> "up"] /\ nsDir = [d \in NsDomains |-> 0]
      /\ nsDomObj = <<>> /\ nsSetObj = <<>> /\ nsMuddled = {}
  BY DEF NsInit
<1>2. \A a \in NsActors : nsCall[a].pc = "idle"
  BY <1>1 DEF NsIdle
<1>3. \A a \in NsActors : ~NsRuns(a) /\ ~NsChanges(a) /\ nsCall[a].pc \notin NsBefore /\ nsCall[a].pc \notin NsAfter
  BY <1>2 DEF NsRuns, NsChanges, NsBefore, NsAfter
<1>4. \A r \in NsStreams : nsSessions[r] = NsNoInfo /\ NsDomainsOf(nsSessions[r]) = {} /\ nsSessions[r].regs = {}
  BY <1>1 DEF NsNoInfo, NsDomainsOf
<1>5. NsTypeOK
  <2>1. nsCall \in [NsActors -> {NsIdle} \cup NsCallSet]
    BY <1>1
  <2>2. nsSessions \in [NsStreams -> NsAllInfos]
    BY <1>1 DEF NsAllInfos
  <2>3. /\ nsLink \in [NsStreams -> NsLinkSet] /\ nsDir \in [NsDomains -> Nat]
        /\ nsDomObj \in Seq([NsCmds -> Nat]) /\ nsSetObj \in Seq([NsNodes -> Nat])
    BY <1>1 DEF NsLinkSet
  <2> QED
    BY <2>1, <2>2, <2>3 DEF NsTypeOK
<1>6. NsControl
  <2>1. NsPairs
    BY <1>3 DEF NsPairs
  <2>2. NsTwins
    BY <1>3, <1>4 DEF NsTwins
  <2>3. NsBasis
    BY <1>3 DEF NsBasis
  <2>4. NsLinks
    BY <1>1, <1>3 DEF NsLinks, NsActors, NsKept
  <2> QED
    BY <2>1, <2>2, <2>3, <2>4 DEF NsControl
<1>7. NsWork
  BY <1>3 DEF NsWork
<1>8. NsHeap
  <2>1. Len(nsDomObj) = 0 /\ (\A d \in NsDomains : nsDir[d] = 0) /\ 1 .. Len(nsDomObj) = {}
    BY <1>1
  <2> QED
    BY <2>1 DEF NsHeap
<1>9. NsHeld
  BY <1>2 DEF NsHeld, NsHolds
<1>10. NsPlace
  BY <1>3 DEF NsPlace, NsPlaced
<1>11. NsListing
  <2> SUFFICES ASSUME NEW d \in NsDomains, NEW m \in NsCmds, NEW n \in NsNodes, NEW w \in Nat \ {0}
               PROVE  NsListed(d, m, n) # w /\ ~NsOwed(d, m, n, w)
    BY DEF NsListing
  <2>1. NsListed(d, m, n) = 0
    BY <1>1 DEF NsListed
  <2>2. ~NsOwed(d, m, n, w)
    BY <1>3, <1>4 DEF NsOwed, NsTouches, NsInfoHas
  <2> QED
    BY <2>1, <2>2
<1> QED
  BY <1>5, <1>6, <1>7, <1>8, <1>9, <1>10, <1>11 DEF NsInv

\* Every step keeps it.
LEMMA NsNextInv ==
  ASSUME NsInv, [NsNext]_nsVars
  PROVE  NsInv'
<1>1. CASE UNCHANGED nsVars
  <2>1. /\ UNCHANGED <<nsLink, nsSessions, nsCall, nsMuddled>>
        /\ UNCHANGED <<nsDir, nsDomObj, nsSetObj>>
    BY <1>1 DEF nsVars, nsHeap
  <2> QED
    BY <2>1, NsSameInv
<1>2. ASSUME NEW h \in NsHandlers, NEW rs \in NsStreams, NEW i \in NsInfos \cup {NsNoInfo}, HandleRegister(h, rs, i)
      PROVE  NsInv'
  <2>1. h \in NsActors /\ h \notin NsStreams /\ i \in NsAllInfos
    BY NameServerAssumption DEF NsActors, NsAllInfos
  <2>2. nsCall[h].pc = "idle" /\ UNCHANGED <<nsLink, nsSessions, nsHeap>>
    BY <1>2 DEF HandleRegister, NsIdle
  <2>3. CASE nsSessions[rs].node \in {"none", i.node} \/ i = NsNoInfo
    <3>1. NsBegin(h, rs, i)
      BY <2>3, <1>2 DEF HandleRegister
    <3> QED
      BY <3>1, <2>1, <2>2, <2>3, NsBeginStep
  <2>4. CASE ~(nsSessions[rs].node \in {"none", i.node} \/ i = NsNoInfo)
    <3>1. UNCHANGED <<nsCall, nsMuddled>>
      BY <2>4, <1>2 DEF HandleRegister
    <3> QED
      BY <3>1, <2>2, NsSameInv DEF nsHeap
  <2> QED
    BY <2>3, <2>4
<1>3. ASSUME NEW rs \in NsStreams, OnDisconnect(rs) PROVE NsInv'
  <2>1. rs \in NsActors /\ NsNoInfo \in NsAllInfos
    BY DEF NsActors, NsAllInfos
  <2>2. nsLink[rs] \in NsKept /\ nsLink' = [nsLink EXCEPT ![rs] = "closing"] /\ NsBegin(rs, rs, NsNoInfo)
        /\ UNCHANGED <<nsSessions, nsHeap>>
    BY <1>3 DEF OnDisconnect, NsKept
  <2>3. nsCall[rs].pc = "idle"
    BY <2>2 DEF NsInv, NsControl, NsLinks, NsRuns, NsActors
  <2> QED
    BY <2>1, <2>2, <2>3, NsBeginStep
<1>4. ASSUME NEW a \in NsActors, NsStep(a) PROVE NsInv'
  BY <1>4, NsConnectedStep, NsDiffStep, NsInnerStep, NsSessionStep DEF NsStep
<1> QED
  BY <1>1, <1>2, <1>3, <1>4, NsCloseStep DEF NsNext

\* At rest the invariant says what a query lists.
LEMMA NsInvExact ==
  ASSUME NsInv
  PROVE  NsExact
<1> SUFFICES ASSUME \A a \in NsActors : nsCall[a] = NsIdle,
                    NEW d \in NsDomains \ nsMuddled, NEW m \in NsCmds, NEW n \in NsNodes
             PROVE  LET mine == {r \in NsStreams : /\ nsLink[r] \in NsKept
                                                   /\ nsSessions[r].node = n
                                                   /\ <<d, m>> \in nsSessions[r].regs}
                    IN  IF mine = {} THEN NsListed(d, m, n) = 0
                        ELSE \A r \in mine : NsListed(d, m, n) = nsSessions[r].weight
  BY DEF NsExact
<1>1. NsTypeOK /\ NsHeap /\ NsLinks
  BY DEF NsInv, NsControl
<1>2. \A a \in NsActors : ~NsRuns(a) /\ ~NsTouches(a, d)
  BY DEF NsRuns, NsTouches, NsChanges, NsIdle, NsAfter
<1>3. \A w \in Nat \ {0} : NsListed(d, m, n) = w <=> \E r \in NsStreams : NsInfoHas(nsSessions[r], d, m, n, w)
  BY <1>2 DEF NsInv, NsListing, NsOwed
<1>4. NsListed(d, m, n) \in Nat
  BY <1>1, NsListedIs
<1>5. \A r \in NsStreams : <<d, m>> \in nsSessions[r].regs =>
         nsLink[r] \in NsKept /\ nsSessions[r].weight \in Nat \ {0}
  <2> SUFFICES ASSUME NEW r \in NsStreams, <<d, m>> \in nsSessions[r].regs
               PROVE  nsLink[r] \in NsKept /\ nsSessions[r].weight \in Nat \ {0}
    OBVIOUS
  <2>1. nsSessions[r] \in NsAllInfos /\ r \in NsActors
    BY <1>1 DEF NsTypeOK, NsActors
  <2>2. d \in NsDomainsOf(nsSessions[r]) /\ nsSessions[r].weight \in Nat \ {0}
    BY <2>1, NsInfoIs
  <2>3. nsLink[r] \notin NsKept => NsDomainsOf(nsSessions[r]) \subseteq nsMuddled
    BY <2>1, <1>1, <1>2 DEF NsLinks
  <2> QED
    BY <2>2, <2>3
<1>6. ASSUME NsListed(d, m, n) # 0
      PROVE  \E r \in NsStreams : nsLink[r] \in NsKept /\ nsSessions[r].node = n /\ <<d, m>> \in nsSessions[r].regs
  <2>1. PICK r \in NsStreams : NsInfoHas(nsSessions[r], d, m, n, NsListed(d, m, n))
    BY <1>3, <1>4, <1>6
  <2> QED
    BY <2>1, <1>5 DEF NsInfoHas
<1>7. ASSUME NEW r \in NsStreams, nsSessions[r].node = n, <<d, m>> \in nsSessions[r].regs
      PROVE  NsListed(d, m, n) = nsSessions[r].weight
  <2>1. NsInfoHas(nsSessions[r], d, m, n, nsSessions[r].weight) /\ nsSessions[r].weight \in Nat \ {0}
    BY <1>5, <1>7 DEF NsInfoHas
  <2> QED
    BY <2>1, <1>3
<1> QED
  BY <1>6, <1>7

\* For any streams, handlers, registrations and number of requests: while no call of set() is
\* in progress, a query for a domain that no clashing calls have touched lists exactly the
\* nodes registered on the connections which onDisconnect() has not taken off, each with the
\* weight of its last registration, although set() goes through the directory one lock at a
\* time, next to other calls and to the close of streams, and writes objects that may have left
\* the directory.  Among these connections are the closed ones on which a request was refused:
\* handleRequest() closes them without onDisconnect(), and their nodes stay listed.
THEOREM NsDirectoryExact == NsSpec => []NsExact
<1>1. NsInit => NsInv
  BY NsInitInv
<1>2. NsInv /\ [NsNext]_nsVars => NsInv'
  BY NsNextInv
<1>3. NsInv => NsExact
  BY NsInvExact
<1> QED
  BY <1>1, <1>2, <1>3, PTL DEF NsSpec

=============================================================================
