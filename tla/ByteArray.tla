----------------------------- MODULE ByteArray ------------------------------
(***************************************************************************)
(* ByteArray (src/src/net/byte_array.cpp): a list of blocks of one size, a *)
(* position and a pointer to the block the position is in, with encoders   *)
(* and decoders for integers and strings, and SocketStream's transfers     *)
(* into and out of it.  Widths are scaled: a byte has BaByte values, so a  *)
(* group of a variable-length integer has BaByte \div 2.                   *)
(***************************************************************************)
EXTENDS Integers, Sequences, FiniteSets, SequencesExt

CONSTANTS
    BaBase,    \* m_base_size
    BaByte,    \* values of a byte
    BaWide,    \* bytes of a fixed-width integer
    BaBits,    \* values of the integers of writeUint32/64 and writeInt32/64
    BaItems,   \* what users write: <<"fix", "var", "zig", "str" or "vstr", value>>
    BaJunk,    \* bytes that fresh memory may hold
    BaMaxPos,  \* bound: the largest position
    BaMaxOps   \* bound: writes and receives

ASSUME ByteArrayAssumption ==
    /\ BaBase \in Nat \ {0} /\ BaByte \in Nat \ {0, 1} /\ BaWide \in Nat \ {0}
    /\ BaBits \in Nat \ {0} /\ BaJunk \subseteq 0 .. BaByte - 1 /\ BaMaxPos \in Nat /\ BaMaxOps \in Nat

VARIABLES
    ba,      \* nodes: the blocks, cur: the index of m_cur_node (0: nullptr), pos: m_position, size: m_data_size
    baLittle,\* m_endian
    baIo,    \* the last transfer: [op, bytes]
    baKept,  \* the items written and not overwritten since: [at, n, item, little]
    baSeen,  \* the last item read where one was kept: [want, got]
    baDown,  \* a null pointer was dereferenced
    baOps    \* writes and receives so far

baVars == <<ba, baLittle, baIo, baKept, baSeen, baDown, baOps>>

BaUnseen == [want |-> <<>>, got |-> <<>>, short |-> FALSE]
BaIo(op, bytes) == [op |-> op, bytes |-> bytes]

\* Memory of new char[] holds anything; one value for a whole allocation.
BaBlock(junk) == [k \in 0 .. BaBase - 1 |-> junk]

BaInit ==
    /\ \E junk \in BaJunk : ba = [nodes |-> <<BaBlock(junk)>>, cur |-> 1, pos |-> 0, size |-> 0]
    /\ baLittle = FALSE
    /\ baIo = BaIo("none", <<>>)
    /\ baKept = {} /\ baSeen = BaUnseen /\ baDown = FALSE /\ baOps = 0

-----------------------------------------------------------------------------
(* The blocks.                                                             *)

BaCapacity(b) == BaBase * Len(b.nodes)

\* addCapacity(n)
BaAddCapacity(b, n, junk) ==
    LET old == BaCapacity(b) - b.pos
        more == [k \in 1 .. (n - old + BaBase - 1) \div BaBase |-> BaBlock(junk)]
    IN  IF n = 0 \/ old >= n THEN b
        ELSE [b EXCEPT !.nodes = @ \o more, !.cur = IF old = 0 THEN Len(b.nodes) + 1 ELSE @]

\* The block and the offset of the byte k places on, walking from m_cur_node.
BaSlot(b, k) ==
    LET far == (b.pos % BaBase) + k
    IN  <<b.cur + (far \div BaBase), far % BaBase>>

\* The walk over n bytes meets no null pointer.
BaReach(b, n) == n = 0 \/ (b.cur # 0 /\ BaSlot(b, n - 1)[1] <= Len(b.nodes))

BaBytesAt(b, n) == [k \in 1 .. n |-> b.nodes[BaSlot(b, k - 1)[1]][BaSlot(b, k - 1)[2]]]

\* Mistake for the mutation tests: m_cur_node stays on a block that was filled to its end.
BaAdvanceStays(b, n) ==
    [b EXCEPT !.pos = @ + n, !.cur = IF n = 0 THEN @ ELSE BaSlot(b, n - 1)[1]]

\* The tail of the loops of read() and write(): a block used up is left for the next one.
BaAdvance(b, n) ==
    LET c == BaSlot(b, n)[1]
    IN  [b EXCEPT !.pos = @ + n, !.cur = IF n = 0 THEN @ ELSE IF c > Len(b.nodes) THEN 0 ELSE c]

BaPut(b, bytes) ==
    [b EXCEPT !.nodes = [i \in DOMAIN b.nodes |-> [j \in 0 .. BaBase - 1 |->
        LET hits == {k \in DOMAIN bytes : BaSlot(b, k - 1) = <<i, j>>}
        IN  IF hits = {} THEN b.nodes[i][j] ELSE bytes[CHOOSE k \in hits : TRUE]]]]

BaSized(b) == [b EXCEPT !.size = IF b.pos > @ THEN b.pos ELSE @]

\* write(buf, n)
BaWrite(b, bytes, junk) ==
    BaSized(BaAdvance(BaPut(BaAddCapacity(b, Len(bytes), junk), bytes), Len(bytes)))

\* setPosition(v): the loop walks to the block that holds v and off the list when v is the capacity.
BaSetPosition(b, v) == BaSized([b EXCEPT !.pos = v, !.cur = (v \div BaBase) + 1])

-----------------------------------------------------------------------------
(* The encodings.                                                          *)

BaDigits(v, n) == [k \in 1 .. n |-> (v \div BaByte ^ (k - 1)) % BaByte]
BaUndigits(bytes) == FoldFunctionOnSet(LAMBDA x, y : x + y, 0,
    [k \in DOMAIN bytes |-> bytes[k] * BaByte ^ (k - 1)], DOMAIN bytes)

\* writeFint16 ... writeFuint64: the host is little-endian and the bytes are swapped otherwise.
BaFixed(v, n, little) == IF little THEN BaDigits(v, n) ELSE Reverse(BaDigits(v, n))
BaUnfixed(bytes, little) == BaUndigits(IF little THEN bytes ELSE Reverse(bytes))

\* Mistake for the mutation tests: a negative number loses its last bit.
EncodeZigzagEven(v) == IF v < 0 THEN (-v) * 2 ELSE v * 2

EncodeZigzag(v) == IF v < 0 THEN ((-v) * 2 - 1) % BaBits ELSE v * 2
DecodeZigzag(u) == IF u % 2 = 0 THEN u \div 2 ELSE -(u \div 2) - 1

\* writeUint32, writeUint64: groups from the low end, all but the last marked.
BaGroup == BaByte \div 2
BaGroups(u) == CHOOSE n \in 1 .. BaBits : u < BaGroup ^ n /\ (n = 1 \/ u >= BaGroup ^ (n - 1))
BaVarint(u) == [k \in 1 .. BaGroups(u) |->
    ((u \div BaGroup ^ (k - 1)) % BaGroup) + IF k < BaGroups(u) THEN BaGroup ELSE 0]

\* readUint32, readUint64: at most so many groups as the width has.
BaMaxGroups == BaGroups(BaBits - 1)

\* The bytes readUint consumes of what is left, whether it ends there, and the value.
BaUnvarint(left) ==
    LET last == {k \in 1 .. BaMaxGroups : k <= Len(left) /\ (left[k] < BaGroup \/ k = BaMaxGroups)}
        n == CHOOSE k \in last : \A j \in last : k <= j
        used == IF last = {} THEN Len(left) ELSE n
    IN  [n |-> used, ok |-> last # {},
         v |-> FoldFunctionOnSet(LAMBDA x, y : x + y, 0,
                   [k \in 1 .. used |-> (left[k] % BaGroup) * BaGroup ^ (k - 1)], 1 .. used) % BaBits]

\* What each write function passes to write(); a fixed length prefix keeps its low byte only.
BaEncode(item, little) ==
    CASE item[1] = "fix"  -> BaFixed(item[2], BaWide, little)
      [] item[1] = "var"  -> BaVarint(item[2])
      [] item[1] = "zig"  -> BaVarint(EncodeZigzag(item[2]))
      [] item[1] = "str"  -> <<Len(item[2]) % BaByte>> \o item[2]
      [] item[1] = "vstr" -> BaVarint(Len(item[2])) \o item[2]

\* A string whose length its prefix cannot hold (writeStringF16 beyond 65535 bytes).
BaShort(item) == item[1] = "str" /\ Len(item[2]) >= BaByte

\* A string behind a prefix of n bytes that says len.
BaUnstring(left, n, len) ==
    IF n + len <= Len(left) THEN [n |-> n + len, ok |-> TRUE, v |-> SubSeq(left, n + 1, n + len)]
    ELSE [n |-> n, ok |-> FALSE, v |-> 0]

\* What each read function makes of the bytes left: how many it uses, the value, or that read() throws.
BaDecode(t, left, little) ==
    LET u == BaUnvarint(left)
        none == [n |-> 0, ok |-> FALSE, v |-> 0]
    IN  CASE t = "fix"  -> IF Len(left) < BaWide THEN none
                           ELSE [n |-> BaWide, ok |-> TRUE, v |-> BaUnfixed(SubSeq(left, 1, BaWide), little)]
          [] t = "var"  -> u
          [] t = "zig"  -> [u EXCEPT !.v = DecodeZigzag(u.v)]
          [] t = "str"  -> IF left = <<>> THEN none ELSE BaUnstring(left, 1, left[1])
          [] t = "vstr" -> IF u.ok THEN BaUnstring(left, u.n, u.v) ELSE u

-----------------------------------------------------------------------------
(* The operations.                                                         *)

BaUntouched(from, n) == {x \in baKept : x.at + x.n <= from \/ from + n <= x.at}

\* An operation that walks the list: it meets a null pointer, or ends with these values.
BaDo(fine, b, io, kept, seen) ==
    /\ baDown' = ~fine
    /\ IF fine THEN ba' = b /\ baIo' = io /\ baKept' = kept /\ baSeen' = seen
       ELSE UNCHANGED <<ba, baIo, baKept, baSeen>>
    /\ baOps' = IF io.op = "write" THEN baOps + 1 ELSE baOps
    /\ baOps' <= BaMaxOps
    /\ UNCHANGED baLittle

\* writeFint8 ... writeStringVint
BaWriteItem(item, junk) ==
    LET bytes == BaEncode(item, baLittle)
        kept == [at |-> ba.pos, n |-> Len(bytes), item |-> item, little |-> baLittle]
    IN  /\ ba.pos + Len(bytes) <= BaMaxPos
        /\ BaDo(BaReach(BaAddCapacity(ba, Len(bytes), junk), Len(bytes)), BaWrite(ba, bytes, junk),
                BaIo("write", bytes), BaUntouched(ba.pos, Len(bytes)) \union {kept}, baSeen)

\* readFint8 ... readStringVint
BaReadItem(t) ==
    LET most == ba.size - ba.pos
        left == BaBytesAt(ba, most)
        d == BaDecode(t, left, baLittle)
        kept == {x \in baKept : x.at = ba.pos /\ x.item[1] = t /\ x.little = baLittle}
        seen(x) == [want |-> <<x.item[2], x.n>>, got |-> <<d.v, d.n>>, short |-> BaShort(x.item)]
    IN  BaDo(BaReach(ba, most), BaAdvance(ba, d.n),
             BaIo(IF d.ok THEN "read" ELSE "throw", SubSeq(left, 1, d.n)), baKept,
             IF kept = {} THEN BaUnseen ELSE seen(CHOOSE x \in kept : TRUE))

\* setPosition(), which throws beyond the capacity
BaSeek(v) ==
    /\ v <= BaCapacity(ba)
    /\ BaDo(v # BaCapacity(ba), BaSetPosition(ba, v), BaIo("seek", <<>>), baKept, baSeen)

\* SocketStream::read(): getWriteBuffers(len), recv() of some bytes, setPosition()
BaRecv(len, bytes, junk) ==
    LET grown == BaAddCapacity(ba, len, junk)
        to == ba.pos + Len(bytes)
    IN  /\ Len(bytes) \in 1 .. len /\ ba.pos + len <= BaMaxPos
        /\ BaDo(BaReach(grown, len) /\ to # BaCapacity(grown), BaSetPosition(BaPut(grown, bytes), to),
                BaIo("write", bytes), BaUntouched(ba.pos, Len(bytes)), baSeen)

\* SocketStream::write(): getReadBuffers(), send() of n bytes of them, setPosition()
BaSend(n) ==
    /\ n \in 1 .. ba.size - ba.pos
    /\ BaDo(BaReach(ba, n) /\ ba.pos + n # BaCapacity(ba), BaSetPosition(ba, ba.pos + n),
            BaIo("read", BaBytesAt(ba, n)), baKept, baSeen)

\* toString() reads from the root, writeToFile() from m_cur_node: the same bytes.
BaToString ==
    BaDo(TRUE, ba, BaIo("peek", BaBytesAt([ba EXCEPT !.cur = (ba.pos \div BaBase) + 1], ba.size - ba.pos)),
         baKept, baSeen)

BaWriteToFile ==
    BaDo(BaReach(ba, ba.size - ba.pos), ba, BaIo("peek", BaBytesAt(ba, ba.size - ba.pos)), baKept, baSeen)

\* clear() keeps the first block and what is in it.
BaClear ==
    BaDo(TRUE, [nodes |-> SubSeq(ba.nodes, 1, 1), cur |-> 1, pos |-> 0, size |-> 0],
         BaIo("clear", <<>>), {}, baSeen)

\* setIsLittleEndian()
BaSetEndian ==
    /\ baLittle' = ~baLittle
    /\ UNCHANGED <<ba, baIo, baKept, baSeen, baDown, baOps>>

BaNext ==
    /\ ~baDown
    /\ \/ \E item \in BaItems, junk \in BaJunk : BaWriteItem(item, junk)
       \/ \E item \in BaItems : BaReadItem(item[1])
       \/ \E v \in 0 .. BaMaxPos : BaSeek(v)
       \/ \E len \in 1 .. BaBase + 1, junk \in BaJunk : \E n \in 1 .. len : BaRecv(len, [k \in 1 .. n |-> 1], junk)
       \/ \E n \in 1 .. BaMaxPos : BaSend(n)
       \/ BaToString \/ BaWriteToFile \/ BaClear \/ BaSetEndian

-----------------------------------------------------------------------------
\* The chain of blocks is one flat buffer: every read, string, file and send
\* gives the bytes that were written there, a write touches no others, and a
\* read that throws has used up only bytes of the data.
BaFlat == INSTANCE FlatBuffer WITH
    fbData <- [k \in 1 .. ba.size |-> ba.nodes[((k - 1) \div BaBase) + 1][(k - 1) % BaBase]],
    fbPos <- ba.pos,
    fbIo <- baIo

BaIsFlat == BaFlat!FbSpec

\* An integer or a string is read back, in the byte order it was written in,
\* as it was written, using as many bytes, wherever it lies in the blocks and
\* whatever was written around it -- unless it is a string longer than its
\* length prefix can say.
BaRoundTrip == baSeen.short \/ baSeen.want = baSeen.got

\* setPosition() can go anywhere in the capacity: "ByteArray::setPosition out
\* of range" is thrown beyond it only (byte_array.cpp:634), and the position
\* behind the last block is where write() itself leaves it.
BaSeekSafe == ~baDown
=============================================================================
