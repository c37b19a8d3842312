------------------------------ MODULE SqlPool -------------------------------
(***************************************************************************)
(* The pool of MySQL connections and their transactions                    *)
(* (src/src/db/mysql.cpp).  get() takes a pooled connection, after a ping  *)
(* and perhaps a reconnect when it was idle for 5 seconds or its last      *)
(* command failed, or makes a new one; the deleter freeMySQL() gives it    *)
(* back.  A MySQLTransaction commits or rolls back in its destructor, just *)
(* before its connection is given back.                                    *)
(*                                                                         *)
(* The server is external: a connection may die at any time, which rolls   *)
(* back its transaction; on a live connection only statements fail, not    *)
(* COMMIT or ROLLBACK.                                                     *)
(***************************************************************************)
EXTENDS Integers, Sequences, FiniteSets

CONSTANTS
    MyUsers,    \* coroutines that use the database
    MyConns,    \* connections that may exist
    MyPoolSize  \* m_poolSize

ASSUME SqlPoolAssumption == MyPoolSize \in Nat /\ "none" \notin MyConns

VARIABLES
    myPool,    \* m_conns
    myConn,    \* a connection: alive, m_hasError, idle for 5 seconds, in a transaction
    myUser,    \* a user: its connection, its transaction's m_autoCommit, m_isFinished, m_hasError
    myGone,    \* connections that get() dropped when the reconnect failed
    mySpoilt   \* connections given back by an auto-commit transaction that had an error

myVars == <<myPool, myConn, myUser, myGone, mySpoilt>>

MyNew == [up |-> TRUE, err |-> FALSE, idle |-> FALSE, tx |-> FALSE]
MyOut == [at |-> "out", conn |-> "none", auto |-> FALSE, done |-> FALSE, bad |-> FALSE]

MyInit ==
    /\ myPool = <<>>
    /\ myConn = [c \in MyConns |-> MyNew]
    /\ myUser = [u \in MyUsers |-> MyOut]
    /\ myGone = {} /\ mySpoilt = {}

MyPooled == {myPool[k] : k \in DOMAIN myPool}
MyHeld == {myUser[u].conn : u \in MyUsers}

-----------------------------------------------------------------------------
(* MySQLManager                                                            *)

MyHand(u, c) ==
    myUser' = [myUser EXCEPT ![u] = [at |-> "conn", conn |-> c, auto |-> FALSE, done |-> FALSE, bad |-> FALSE]]

\* get() of a pooled connection: as it is, pinged, reconnected, or dropped.
MyGetPooled(u, ok) ==
    LET c == Head(myPool)
        check == myConn[c].idle \/ myConn[c].err
    IN  /\ myUser[u].at = "out" /\ myPool # <<>>
        /\ myPool' = Tail(myPool)
        /\ IF ~check \/ myConn[c].up
           THEN /\ ok
                /\ myConn' = [myConn EXCEPT ![c].idle = FALSE, ![c].err = FALSE]
                /\ MyHand(u, c)
                /\ UNCHANGED <<myGone, mySpoilt>>
           ELSE IF ok
           THEN /\ myConn' = [myConn EXCEPT ![c] = MyNew]
                /\ mySpoilt' = mySpoilt \ {c}
                /\ MyHand(u, c)
                /\ UNCHANGED myGone
           ELSE /\ myGone' = myGone \cup {c}
                /\ UNCHANGED <<myConn, myUser, mySpoilt>>

\* get() with an empty pool; a failed connect() changes nothing.
MyGetNew(u, c) ==
    /\ myUser[u].at = "out" /\ myPool = <<>>
    /\ c \notin MyHeld \cup myGone
    /\ myConn' = [myConn EXCEPT ![c] = MyNew]
    /\ MyHand(u, c)
    /\ mySpoilt' = mySpoilt \ {c}
    /\ UNCHANGED <<myPool, myGone>>

\* freeMySQL()
MyFree(c, spoilt) ==
    /\ myPool' = IF Len(myPool) < MyPoolSize THEN Append(myPool, c) ELSE myPool
    /\ mySpoilt' = IF spoilt THEN mySpoilt \cup {c} ELSE mySpoilt
    /\ UNCHANGED myGone

MyRelease(u) ==
    /\ myUser[u].at = "conn"
    /\ MyFree(myUser[u].conn, FALSE)
    /\ myUser' = [myUser EXCEPT ![u] = MyOut]
    /\ UNCHANGED myConn

\* checkConnection(sec): the connections that were idle for sec are deleted, all
\* of them idle for 5 seconds or, with a smaller sec, all of those among them;
\* the others keep their order.
MyCheck(old) ==
    /\ LET idle == {c \in MyPooled : myConn[c].idle}
       IN  old \subseteq MyPooled /\ (old \subseteq idle \/ idle \subseteq old)
    /\ LET kept == {k \in DOMAIN myPool : myPool[k] \notin old}
           n == Cardinality(kept)
       IN  \E f \in [1 .. n -> kept] :
              /\ \A i, j \in 1 .. n : i < j => f[i] < f[j]
              /\ myPool' = [i \in 1 .. n |-> myPool[f[i]]]
    /\ mySpoilt' = mySpoilt \ old
    /\ UNCHANGED <<myConn, myUser, myGone>>

-----------------------------------------------------------------------------
(* MySQL::execute() and MySQLTransaction                                   *)

\* A command on the user's connection succeeds or not and sets m_hasError;
\* BEGIN opens a transaction, COMMIT and ROLLBACK end it.
MyRun(u, ok, tx) ==
    /\ ok => myConn[myUser[u].conn].up
    /\ myConn' = [myConn EXCEPT ![myUser[u].conn].err = ~ok,
                                ![myUser[u].conn].tx = IF ok THEN tx ELSE @]

MyExecute(u, ok) ==
    /\ myUser[u].at \in {"conn", "trans"} /\ ~myUser[u].done
    /\ MyRun(u, ok, myConn[myUser[u].conn].tx)
    /\ myUser' = [myUser EXCEPT ![u].bad = (@ \/ (~ok /\ myUser[u].at = "trans"))]
    /\ UNCHANGED <<myPool, myGone, mySpoilt>>

\* openTransaction(): begin(), or the connection is given back.
MyBegin(u, auto) ==
    LET c == myUser[u].conn
    IN  /\ myUser[u].at = "conn"
        /\ MyRun(u, myConn[c].up, TRUE)
        /\ IF myConn[c].up
           THEN /\ myUser' = [myUser EXCEPT ![u].at = "trans", ![u].auto = auto]
                /\ mySpoilt' = mySpoilt \ {c}
                /\ UNCHANGED <<myPool, myGone>>
           ELSE /\ myUser' = [myUser EXCEPT ![u] = MyOut]
                /\ MyFree(c, FALSE)

\* Mistake for the mutation tests: a transaction with an error counts as ended.
MyEndsWrong(u, commit) == ~myUser[u].done /\ ~myUser[u].bad

\* commit() and rollback() do something unless the transaction is finished;
\* commit() also not after an error.
MyEnds(u, commit) == ~myUser[u].done /\ (commit => ~myUser[u].bad)

\* The call itself, and whether the transaction is then finished.
MyFinish(u, commit) ==
    /\ myUser[u].at = "trans"
    /\ IF MyEnds(u, commit)
       THEN /\ MyRun(u, myConn[myUser[u].conn].up, FALSE)
            /\ myUser' = IF myConn[myUser[u].conn].up
                         THEN [myUser EXCEPT ![u].done = TRUE] ELSE [myUser EXCEPT ![u].bad = TRUE]
       ELSE UNCHANGED <<myConn, myUser>>
    /\ UNCHANGED <<myPool, myGone, mySpoilt>>

\* ~MySQLTransaction(): commit() or rollback(), and the connection goes back.
MyDestroy(u) ==
    LET c == myUser[u].conn
        auto == myUser[u].auto
    IN  /\ myUser[u].at = "trans"
        /\ IF MyEnds(u, auto) THEN MyRun(u, myConn[c].up, FALSE) ELSE UNCHANGED myConn
        /\ MyFree(c, auto /\ myUser[u].bad /\ ~myUser[u].done)
        /\ myUser' = [myUser EXCEPT ![u] = MyOut]

-----------------------------------------------------------------------------
(* The server and time                                                     *)

MyDies(c) ==
    /\ myConn[c].up /\ c \in MyPooled \cup MyHeld
    /\ myConn' = [myConn EXCEPT ![c].up = FALSE, ![c].tx = FALSE]
    /\ UNCHANGED <<myPool, myUser, myGone, mySpoilt>>

MyIdles(c) ==
    /\ c \in MyPooled /\ ~myConn[c].idle
    /\ myConn' = [myConn EXCEPT ![c].idle = TRUE]
    /\ UNCHANGED <<myPool, myUser, myGone, mySpoilt>>

MyNext ==
    \/ \E u \in MyUsers :
          \/ \E ok \in BOOLEAN : MyGetPooled(u, ok) \/ MyExecute(u, ok)
          \/ \E c \in MyConns : MyGetNew(u, c)
          \/ \E b \in BOOLEAN : MyBegin(u, b) \/ MyFinish(u, b)
          \/ MyRelease(u) \/ MyDestroy(u)
    \/ \E c \in MyConns : MyDies(c) \/ MyIdles(c)
    \/ \E old \in SUBSET MyConns : MyCheck(old)

MySpec == MyInit /\ [][MyNext]_myVars

-----------------------------------------------------------------------------
(* Properties                                                              *)

\* Nobody gets a connection in the middle of somebody else's transaction:
\* what is in the pool is outside of any, and belongs to nobody.  Only an
\* auto-commit transaction in which a statement failed leaves its connection
\* in the transaction: commit() returns early and nothing rolls it back.
MyClean ==
    /\ \A c \in MyPooled : myConn[c].tx => c \in mySpoilt
    /\ \A u \in MyUsers : myUser[u].at = "conn" /\ myConn[myUser[u].conn].tx
                            => myUser[u].conn \in mySpoilt
    /\ MyPooled \cap MyHeld = {}
    /\ \A u, v \in MyUsers : u # v /\ myUser[u].conn = myUser[v].conn => myUser[u].at = "out"
=============================================================================
