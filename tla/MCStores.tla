------------------------------ MODULE MCStores ------------------------------
(***************************************************************************)
(* Small instances of the components whose state several actors, or        *)
(* several containers, share: one behaviour runs one of them, chosen in    *)
(* the initial state, while the others stay as they are.                   *)
(***************************************************************************)
EXTENDS FdTable, NameServer, LoadBalance, SqlPool, HttpPool, MCByteArray, Caches, WsSession,
    Bitmap, HttpFraming, FdFlags

CONSTANTS u1, u2, c1, c2, c3

\* A node with two weights and overlapping slots, and a second one.
SomeInfos ==
    LET info(n, w, slots) == [node |-> n, weight |-> w, regs |-> slots]
    IN  {info("n1", 1, {<<"d1", "c1">>}),
         info("n1", 2, {<<"d1", "c1">>, <<"d2", "c2">>}),
         info("n2", 1, {<<"d1", "c1">>})}

\* Bodies of two sizes, and a chunked one.
SomeBodies == {<<>>, <<Tok("b", 1), Tok("b", 2)>>}
SomeChunks == {<<<<Tok("b", 1), Tok("b", 2)>>, <<Tok("b", 3)>>>>}

\* Coroutines that use a component are alike, and so are the first two connections.
StoresSymmetry == Permutations({u1, u2}) \cup Permutations({c1, c2})

VARIABLE part

StoresInit ==
    /\ part \in {"fds", "names", "balance", "sql", "http", "bytes", "cache", "ws", "bits", "framing", "flags"}
    /\ Init /\ NsInit /\ LbInit /\ MyInit /\ HpInit /\ BaInit /\ CcInit /\ WsInit /\ BmInit /\ HfInit /\ FcInit
    /\ part = "cache" \/ ccKind = "lru"
    /\ part = "bits" \/ (bm.size = Min(BmSizes) /\ bmRef = {})
    /\ part = "framing" \/ (hfServer /\ hfKeepalive)

StoresNext ==
    /\ UNCHANGED part
    /\ \/ part = "fds" /\ Next
          /\ UNCHANGED <<nsVars, lbVars, myVars, hpVars, baVars, ccVars, wsVars, bmVars, hfVars, fcVars>>
       \/ part = "names" /\ NsNext
          /\ UNCHANGED <<vars, lbVars, myVars, hpVars, baVars, ccVars, wsVars, bmVars, hfVars, fcVars>>
       \/ part = "balance" /\ LbNext
          /\ UNCHANGED <<vars, nsVars, myVars, hpVars, baVars, ccVars, wsVars, bmVars, hfVars, fcVars>>
       \/ part = "sql" /\ MyNext
          /\ UNCHANGED <<vars, nsVars, lbVars, hpVars, baVars, ccVars, wsVars, bmVars, hfVars, fcVars>>
       \/ part = "http" /\ HpNext
          /\ UNCHANGED <<vars, nsVars, lbVars, myVars, baVars, ccVars, wsVars, bmVars, hfVars, fcVars>>
       \/ part = "bytes" /\ BaNext
          /\ UNCHANGED <<vars, nsVars, lbVars, myVars, hpVars, ccVars, wsVars, bmVars, hfVars, fcVars>>
       \/ part = "cache" /\ CcNext
          /\ UNCHANGED <<vars, nsVars, lbVars, myVars, hpVars, baVars, wsVars, bmVars, hfVars, fcVars>>
       \/ part = "ws" /\ WsNext
          /\ UNCHANGED <<vars, nsVars, lbVars, myVars, hpVars, baVars, ccVars, bmVars, hfVars, fcVars>>
       \/ part = "bits" /\ BmNext
          /\ UNCHANGED <<vars, nsVars, lbVars, myVars, hpVars, baVars, ccVars, wsVars, hfVars, fcVars>>
       \/ part = "framing" /\ HfNext
          /\ UNCHANGED <<vars, nsVars, lbVars, myVars, hpVars, baVars, ccVars, wsVars, bmVars, fcVars>>
       \/ part = "flags" /\ FcNext
          /\ UNCHANGED <<vars, nsVars, lbVars, myVars, hpVars, baVars, ccVars, wsVars, bmVars, hfVars>>

StoresSpec ==
    StoresInit /\ [][StoresNext]_<<part, vars, nsVars, lbVars, myVars, hpVars, baVars, ccVars, wsVars, bmVars, hfVars,
                                    fcVars>>
=============================================================================
