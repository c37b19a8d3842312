------------------------------ MODULE NSClient ------------------------------
(***************************************************************************)
(* NSClient (src/src/ns/ns_client.cpp): a client's copy of the name        *)
(* server's directory.  Every query() runs in a coroutine of its own --    *)
(* from the connect callback, from the timer and from changes of the       *)
(* domain list -- and ends by swapping in what it was told, so queries     *)
(* overlap and answers are applied in any order.                           *)
(***************************************************************************)
EXTENDS Integers, FiniteSets

CONSTANTS
    NcDomains,     \* domain names
    NcCalls,       \* query() coroutines that may overlap
    NcMaxChanges,  \* bound: changes of the directory
    NcMaxSets,     \* bound: changes of the domain list
    NcMaxFaults    \* bound: disconnects and requests that time out

ASSUME NSClientAssumption == NcMaxChanges \in Nat /\ NcMaxSets \in Nat /\ NcMaxFaults \in Nat

VARIABLES
    ncDir,     \* the server's directory: the version of each domain's nodes, 0 for none
    ncQuery,   \* m_queryDomains
    ncView,    \* m_domains: the version known of each domain, 0 for none
    ncLink,    \* isConnected()
    ncTimer,   \* m_timer runs
    ncCall,    \* a coroutine: where it is, the domains asked for, what it was told
    ncChanges, ncSets, ncFaults

ncVars == <<ncDir, ncQuery, ncView, ncLink, ncTimer, ncCall, ncChanges, ncSets, ncFaults>>

NcNothing == [d \in NcDomains |-> 0]
NcIdle == [at |-> "idle", asked |-> {}, told |-> NcNothing]

NcInit ==
    /\ ncDir = NcNothing /\ ncView = NcNothing
    /\ ncQuery \in SUBSET NcDomains
    /\ ncLink = FALSE /\ ncTimer = FALSE
    /\ ncCall = [c \in NcCalls |-> NcIdle]
    /\ ncChanges = 0 /\ ncSets = 0 /\ ncFaults = 0

-----------------------------------------------------------------------------
\* The registry of the name server changes.
NcServer(d) ==
    /\ ncChanges < NcMaxChanges
    /\ ncChanges' = ncChanges + 1
    /\ \E v \in {0, ncChanges'} \ {ncDir[d]} : ncDir' = [ncDir EXCEPT ![d] = v]
    /\ UNCHANGED <<ncQuery, ncView, ncLink, ncTimer, ncCall, ncSets, ncFaults>>

\* A coroutine that will run query()
NcSpawn(c) ==
    /\ ncCall[c].at = "idle"
    /\ ncCall' = [ncCall EXCEPT ![c].at = "begin"]

\* Mistake for the mutation tests: the timer is not set.
NcConnectNoTimer(c) ==
    /\ ~ncLink /\ ncLink' = TRUE
    /\ NcSpawn(c)
    /\ UNCHANGED <<ncDir, ncQuery, ncView, ncTimer, ncChanges, ncSets, ncFaults>>

\* onConnect(): a fresh timer and a query
NcConnect(c) ==
    /\ ~ncLink /\ ncLink' = TRUE
    /\ ncTimer' = TRUE
    /\ NcSpawn(c)
    /\ UNCHANGED <<ncDir, ncQuery, ncView, ncChanges, ncSets, ncFaults>>

\* onDisconnect() does nothing: the timer stays.
NcDisconnect ==
    /\ ncLink /\ ncFaults < NcMaxFaults
    /\ ncLink' = FALSE /\ ncFaults' = ncFaults + 1
    /\ UNCHANGED <<ncDir, ncQuery, ncView, ncTimer, ncCall, ncChanges, ncSets>>

\* onTimer(): a tick, a sleep and a query
NcTick(c) ==
    /\ ncTimer
    /\ NcSpawn(c)
    /\ UNCHANGED <<ncDir, ncQuery, ncView, ncLink, ncTimer, ncChanges, ncSets, ncFaults>>

\* setQueryDomains(), addQueryDomain(), delQueryDomain(): then a query, if connected.
NcSet(c, ds) ==
    /\ ncSets < NcMaxSets /\ ds # ncQuery
    /\ ncSets' = ncSets + 1
    /\ ncQuery' = ds
    /\ IF ncLink THEN NcSpawn(c) ELSE UNCHANGED ncCall
    /\ UNCHANGED <<ncDir, ncView, ncLink, ncTimer, ncChanges, ncFaults>>

-----------------------------------------------------------------------------
\* query(): the list is read under the lock; nothing is sent for an empty one.
NcAsk(c) ==
    /\ ncCall[c].at = "begin"
    /\ ncCall' = [ncCall EXCEPT ![c] =
         IF ncQuery = {} THEN NcIdle ELSE [NcIdle EXCEPT !.at = "sent", !.asked = ncQuery]]
    /\ UNCHANGED <<ncDir, ncQuery, ncView, ncLink, ncTimer, ncChanges, ncSets, ncFaults>>

\* handleQuery() on the server
NcAnswer(c) ==
    /\ ncCall[c].at = "sent" /\ ncLink
    /\ ncCall' = [ncCall EXCEPT ![c].at = "told",
         ![c].told = [d \in NcDomains |-> IF d \in ncCall[c].asked THEN ncDir[d] ELSE 0]]
    /\ UNCHANGED <<ncDir, ncQuery, ncView, ncLink, ncTimer, ncChanges, ncSets, ncFaults>>

\* No response: not connected, or a timeout.
NcNoAnswer(c) ==
    /\ ncCall[c].at = "sent"
    /\ IF ncLink THEN ncFaults < NcMaxFaults /\ ncFaults' = ncFaults + 1 ELSE UNCHANGED ncFaults
    /\ ncCall' = [ncCall EXCEPT ![c] = NcIdle]
    /\ UNCHANGED <<ncDir, ncQuery, ncView, ncLink, ncTimer, ncChanges, ncSets>>

\* What is no longer queried is left out, by the list as it is now ...
NcFilter(c) ==
    /\ ncCall[c].at = "told"
    /\ ncCall' = [ncCall EXCEPT ![c].at = "built",
         ![c].told = [d \in NcDomains |-> IF d \in ncQuery THEN ncCall[c].told[d] ELSE 0]]
    /\ UNCHANGED <<ncDir, ncQuery, ncView, ncLink, ncTimer, ncChanges, ncSets, ncFaults>>

\* ... and the rest replaces m_domains.
NcSwap(c) ==
    /\ ncCall[c].at = "built"
    /\ ncView' = ncCall[c].told
    /\ ncCall' = [ncCall EXCEPT ![c] = NcIdle]
    /\ UNCHANGED <<ncDir, ncQuery, ncLink, ncTimer, ncChanges, ncSets, ncFaults>>

NcStep(c) == NcAsk(c) \/ NcAnswer(c) \/ NcFilter(c) \/ NcSwap(c)

NcNext ==
    \/ \E d \in NcDomains : NcServer(d)
    \/ \E c \in NcCalls : \/ NcConnect(c) \/ NcTick(c) \/ NcStep(c) \/ NcNoAnswer(c)
                          \/ \E ds \in SUBSET NcDomains : NcSet(c, ds)
    \/ NcDisconnect

-----------------------------------------------------------------------------
\* When directory, list and connection stay as they are, the client's copy
\* ends up as the directory says, for the domains it asks for and no others,
\* whatever old answers were still on their way.  A client that asks for no
\* domain is excused: query() returns before the swap (ns_client.cpp:67), and
\* the nodes of the domain removed last stay.
NcCurrent == \A d \in NcDomains : ncView[d] = IF d \in ncQuery THEN ncDir[d] ELSE 0
NcSettles == <>[](NcCurrent \/ ~ncLink \/ ncQuery = {})
=============================================================================
