----------------------------- MODULE FlatBuffer -----------------------------
(***************************************************************************)
(* What a ByteArray promises its users: one flat buffer with a position.   *)
(* It says nothing of blocks, capacity or the current block.  fbIo is the  *)
(* last transfer a user saw: what was asked and the bytes that passed.     *)
(***************************************************************************)
EXTENDS Integers, Sequences

VARIABLES
    fbData,  \* the bytes [0, m_data_size)
    fbPos,   \* m_position
    fbIo     \* the last transfer: [op, bytes]

FbInit == fbData = <<>> /\ fbPos = 0 /\ fbIo = [op |-> "none", bytes |-> <<>>]

FbPart(from, n) == SubSeq(fbData, from + 1, from + n)

\* A write replaces the bytes at the position, and only those, and may extend the data.
FbWrite ==
    LET bs == fbIo'.bytes
    IN  /\ fbIo'.op = "write"
        /\ fbData' = SubSeq(fbData, 1, fbPos) \o bs \o SubSeq(fbData, fbPos + Len(bs) + 1, Len(fbData))
        /\ fbPos' = fbPos + Len(bs)

\* A read hands out the bytes at the position; it may stop short at the end of the data ("throw").
FbRead ==
    LET bs == fbIo'.bytes
    IN  /\ fbIo'.op \in {"read", "throw"}
        /\ fbPos + Len(bs) <= Len(fbData) /\ bs = FbPart(fbPos, Len(bs))
        /\ fbPos' = fbPos + Len(bs)
        /\ fbData' = fbData

\* A look at everything that is left moves nothing.
FbPeek ==
    /\ fbIo' = [op |-> "peek", bytes |-> FbPart(fbPos, Len(fbData) - fbPos)]
    /\ UNCHANGED <<fbData, fbPos>>

\* Moving beyond the data extends it by bytes nobody wrote.
FbSeek ==
    /\ fbIo' = [op |-> "seek", bytes |-> <<>>]
    /\ SubSeq(fbData', 1, Len(fbData)) = fbData
    /\ Len(fbData') = IF fbPos' > Len(fbData) THEN fbPos' ELSE Len(fbData)

FbClear ==
    fbData' = <<>> /\ fbPos' = 0 /\ fbIo' = [op |-> "clear", bytes |-> <<>>]

FbNext == FbWrite \/ FbRead \/ FbPeek \/ FbSeek \/ FbClear

FbSpec == FbInit /\ [][FbNext]_<<fbData, fbPos, fbIo>>
=============================================================================
