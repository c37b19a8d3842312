------------------------------- MODULE Bitmap -------------------------------
(***************************************************************************)
(* Bitmap (src/src/ds/bitmap.cpp): a set of positions below m_size, kept   *)
(* in words of BmV value bits and two high bits.  compress() replaces      *)
(* equal words by runs: the COMPRESS bit, the VALUE bit, and a number of   *)
(* positions in the value bits, continued in the next words when it is too *)
(* large for one.  A word is [c, v, b]: the two high bits and the set of   *)
(* value bits that are 1.                                                  *)
(*                                                                         *)
(* bmRef is the set that the operations should have made.                  *)
(***************************************************************************)
EXTENDS Integers, Sequences, FiniteSets, FiniteSetsExt, SequencesExt

CONSTANTS
    BmV,      \* VALUE_SIZE: value bits of a word (14 in the code)
    BmByte,   \* those of them in the low byte of a word (8 in the code)
    BmGroup,  \* U64_DIV_BASE: words that getCount() counts at a time
    BmSizes,  \* sizes of bitmaps
    BmMaxOps  \* bound: operations

ASSUME BitmapAssumption ==
    BmV \in Nat \ {0} /\ BmByte \in 0..BmV /\ BmGroup \in Nat \ {0} /\ BmSizes \subseteq Nat \ {0} /\ BmMaxOps \in Nat

VARIABLES
    bm,       \* a bitmap: [comp, size, data], data being a sequence of words
    bmRef,    \* the positions it should hold
    bmOther,  \* a copy made earlier, compressed or not
    bmOthRef, \* what the copy should hold
    bmBroken, \* a word was taken for a run, or a resize() that BmIsSet leaves out
    bmOps     \* operations so far

bmVars == <<bm, bmRef, bmOther, bmOthRef, bmBroken, bmOps>>

BmBits == 0..BmV - 1
BmWord(b) == [c |-> FALSE, v |-> FALSE, b |-> b]
BmWords(size) == (size + BmV - 1) \div BmV

\* What the words of an uncompressed bitmap say (get(idx)).
BmPositions(x) == {k \in 0..x.size - 1 : k % BmV \in x.data[k \div BmV + 1].b}

BmNumber(b) == FoldLeft(LAMBDA n, k : n + (IF k - 1 \in b THEN 2^(k - 1) ELSE 0), 0, [k \in 1..BmV |-> k])
BmDigit(n) == {k \in BmBits : (n \div 2^k) % 2 = 1}

\* The def argument of the constructor is a byte for memset: all 16 bits of a
\* word become 1, the high bits too.
BmMake(size, def) ==
    [comp |-> FALSE, size |-> size,
     data |-> [k \in 1..BmWords(size) |-> IF def THEN [c |-> TRUE, v |-> TRUE, b |-> BmBits] ELSE BmWord({})]]

BmInit ==
    /\ \E size \in BmSizes, def \in BOOLEAN :
          /\ bm = BmMake(size, def)
          /\ bmRef = IF def THEN 0..size - 1 ELSE {}
    /\ bmOther = bm /\ bmOthRef = bmRef /\ bmBroken = FALSE /\ bmOps = 0

-----------------------------------------------------------------------------
(* compress() and the words of a compressed bitmap. *)

\* The words that stand for n positions of value v: a literal word for one
\* word's worth, else the digits of n, the lowest first.
BmRun(v, n) ==
    IF n \div BmV > 1
    THEN LET digits == CHOOSE d \in 1..n : n < 2^(BmV * d) /\ n >= 2^(BmV * (d - 1))
         IN  [k \in 1..digits |-> [c |-> TRUE, v |-> v, b |-> BmDigit(n \div 2^(BmV * (k - 1)))]]
    ELSE IF n > 0 THEN <<BmWord(IF v THEN BmBits ELSE {})>> ELSE <<>>

BmCompress(x) ==
    LET Same(acc, w) == (w.b = {} /\ ~acc.v) \/ (w.b = BmBits /\ acc.v)
        Step(acc, w) ==
            IF Same(acc, w) THEN [acc EXCEPT !.n = @ + BmV]
            ELSE LET out == acc.out \o BmRun(acc.v, acc.n)
                 IN  IF w.b \in {{}, BmBits} THEN [out |-> out, v |-> w.b = BmBits, n |-> BmV]
                     ELSE [out |-> Append(out, w), v |-> acc.v, n |-> 0]
        end == FoldLeft(Step, [out |-> <<>>, v |-> FALSE, n |-> 0], x.data)
    IN  IF x.comp THEN x
        ELSE [comp |-> TRUE, size |-> x.size, data |-> end.out \o BmRun(end.v, end.n)]

\* A word of a bitmap that is copied as it is, although it looks like a run.
BmMistaken(x) ==
    ~x.comp /\ \E k \in DOMAIN x.data : x.data[k].c /\ x.data[k].b \notin {{}, BmBits}

\* How uncompress(), &=, |= and cross() read it: adjacent runs of one value
\* are the digits of one number; literal words keep their value bits.
BmNextDigit(seg, w) == seg.n + BmNumber(w.b) * 2^(BmV * seg.digits)

BmSegments(data) ==
    LET Joins(segs, w) == segs # <<>> /\ Last(segs).run /\ Last(segs).v = w.v
        Step(segs, w) ==
            IF ~w.c THEN Append(segs, [run |-> FALSE, v |-> FALSE, n |-> BmV, digits |-> 0, b |-> w.b])
            ELSE IF Joins(segs, w)
            THEN Append(Front(segs), [Last(segs) EXCEPT !.n = BmNextDigit(Last(segs), w), !.digits = @ + 1])
            ELSE Append(segs, [run |-> TRUE, v |-> w.v, n |-> BmNumber(w.b), digits |-> 1, b |-> {}])
    IN  FoldLeft(Step, <<>>, data)

\* The value bits of the words that a compressed bitmap stands for.
BmExpand(data) ==
    FlattenSeq([k \in DOMAIN BmSegments(data) |->
        LET seg == BmSegments(data)[k]
        IN  IF seg.run THEN [j \in 1..seg.n \div BmV |-> IF seg.v THEN BmBits ELSE {}] ELSE <<seg.b>>])

BmUncompress(x) ==
    IF ~x.comp THEN x
    ELSE LET words == BmExpand(x.data)
         IN  [comp |-> FALSE, size |-> x.size, data |-> [k \in DOMAIN words |-> BmWord(words[k])]]

-----------------------------------------------------------------------------
(* Operations.  Those that throw for a compressed bitmap are not called.   *)

BmOp ==
    ~bmBroken /\ bmOps < BmMaxOps /\ bmOps' = bmOps + 1

BmSet(k, v) ==
    /\ BmOp /\ ~bm.comp /\ k < bm.size
    /\ bm' = [bm EXCEPT !.data[k \div BmV + 1].b = IF v THEN @ \cup {k % BmV} ELSE @ \ {k % BmV}]
    /\ bmRef' = IF v THEN bmRef \cup {k} ELSE bmRef \ {k}
    /\ UNCHANGED <<bmOther, bmOthRef, bmBroken>>

\* operator~: all bits of the words of an uncompressed bitmap, the bits behind
\* m_size and the high bits too; the VALUE bit of runs.
BmFlip(w) == [c |-> ~w.c, v |-> ~w.v, b |-> BmBits \ w.b]
\* Mistake for the mutation tests: literal words are left as they are.
BmFlipRunsOnly(w) == IF w.c THEN [w EXCEPT !.v = ~@] ELSE w
BmFlipCompressed(w) == IF w.c THEN [w EXCEPT !.v = ~@] ELSE BmWord(BmBits \ w.b)
BmNot ==
    /\ BmOp
    /\ bm' = [bm EXCEPT !.data = [k \in DOMAIN @ |-> IF bm.comp THEN BmFlipCompressed(@[k]) ELSE BmFlip(@[k])]]
    /\ bmRef' = (0..bm.size - 1) \ bmRef
    /\ UNCHANGED <<bmOther, bmOthRef, bmBroken>>

\* operator&= and |= with an uncompressed operand work on whole words.  With a
\* compressed one a run is applied by set(from, size, v), a literal to the word
\* (the high bits survive |= of a literal and of a run that changes nothing).
BmMeet(w, o) == [c |-> w.c /\ o.c, v |-> w.v /\ o.v, b |-> w.b \cap o.b]
BmJoin(w, o) == [c |-> w.c \/ o.c, v |-> w.v \/ o.v, b |-> w.b \cup o.b]
BmRunWords(data) ==
    FlattenSeq([k \in DOMAIN BmSegments(data) |->
        LET seg == BmSegments(data)[k]
        IN  IF seg.run THEN [j \in 1..seg.n \div BmV |-> TRUE] ELSE <<FALSE>>])
BmAnd ==
    /\ BmOp /\ ~bm.comp /\ bm.size = bmOther.size
    /\ bm' = [bm EXCEPT !.data =
                IF ~bmOther.comp THEN [k \in DOMAIN @ |-> BmMeet(@[k], bmOther.data[k])]
                ELSE LET bits == BmExpand(bmOther.data)
                         runs == BmRunWords(bmOther.data)
                     IN  [k \in DOMAIN @ |-> IF runs[k] /\ bits[k] = BmBits THEN @[k]
                                             ELSE BmWord(@[k].b \cap bits[k])]]
    /\ bmRef' = bmRef \cap bmOthRef
    /\ UNCHANGED <<bmOther, bmOthRef, bmBroken>>
BmOr ==
    /\ BmOp /\ ~bm.comp /\ bm.size = bmOther.size
    /\ bm' = [bm EXCEPT !.data =
                IF ~bmOther.comp THEN [k \in DOMAIN @ |-> BmJoin(@[k], bmOther.data[k])]
                ELSE LET bits == BmExpand(bmOther.data)
                         runs == BmRunWords(bmOther.data)
                     IN  [k \in DOMAIN @ |-> IF runs[k] /\ bits[k] = BmBits THEN BmWord(BmBits)
                                             ELSE [@[k] EXCEPT !.b = @ \cup bits[k]]]]
    /\ bmRef' = bmRef \cup bmOthRef
    /\ UNCHANGED <<bmOther, bmOthRef, bmBroken>>

\* The copy constructor, compress() and uncompress().
BmCopy ==
    BmOp /\ bmOther' = bm /\ bmOthRef' = bmRef /\ UNCHANGED <<bm, bmRef, bmBroken>>
BmPack ==
    BmOp /\ bm' = BmCompress(bm) /\ bmBroken' = BmMistaken(bm) /\ UNCHANGED <<bmRef, bmOther, bmOthRef>>
BmUnpack ==
    BmOp /\ bm' = BmUncompress(bm) /\ UNCHANGED <<bmRef, bmOther, bmOthRef, bmBroken>>

\* resize(): when words are added, MASK[left] is meant to clear or set what
\* follows the old end in its word.  It sets the bits before it instead, and
\* clears the whole word when the old end was at a word's end; when no word is
\* added nothing is cleared.  BmResizes are the remaining cases; the others end
\* what BmIsSet says of the bitmap.
BmResized(size, v) ==
    LET old == BmWords(bm.size)
        left == bm.size % BmV
        mask == {k \in BmBits : k < left}
        fill == IF v THEN [c |-> TRUE, v |-> TRUE, b |-> BmBits] ELSE BmWord({})
        edge(w) == IF v THEN [w EXCEPT !.b = @ \cup mask] ELSE BmWord(w.b \cap mask)
    IN  [comp |-> FALSE, size |-> size,
         data |-> [k \in 1..BmWords(size) |->
                     IF k > old THEN fill
                     ELSE IF k = old /\ BmWords(size) > old THEN edge(bm.data[k])
                     ELSE bm.data[k]]]
BmResizes(size, v) ==
    size <= bm.size \/ (~v /\ bm.size % BmV # 0 /\ BmWords(size) > BmWords(bm.size))
BmResize(size, v) ==
    /\ BmOp /\ ~bm.comp
    /\ bm' = BmResized(size, v)
    /\ bmRef' = (bmRef \cap (0..size - 1)) \cup {k \in bm.size..size - 1 : v}
    /\ bmBroken' = ~BmResizes(size, v)
    /\ UNCHANGED <<bmOther, bmOthRef>>

BmNext ==
    \/ \E k \in 0..Max(BmSizes) - 1, v \in BOOLEAN : BmSet(k, v)
    \/ BmNot \/ BmAnd \/ BmOr \/ BmCopy \/ BmPack \/ BmUnpack
    \/ \E size \in BmSizes, v \in BOOLEAN : BmResize(size, v)
-----------------------------------------------------------------------------
(* Queries. *)

\* getCount(): whole groups of words are counted with their high bits and with
\* the bits behind m_size; of a run only the digit in each word.
BmCount(x) ==
    LET whole == (Len(x.data) \div BmGroup) * BmGroup
        OfWord(k) ==
            IF x.comp THEN (IF ~x.data[k].c THEN Cardinality(x.data[k].b)
                            ELSE IF x.data[k].v THEN BmNumber(x.data[k].b) ELSE 0)
            ELSE IF k <= whole
            THEN Cardinality(x.data[k].b) + (IF x.data[k].c THEN 1 ELSE 0) + (IF x.data[k].v THEN 1 ELSE 0)
            ELSE Cardinality({b \in x.data[k].b : (k - 1) * BmV + b < x.size})
    IN  FoldLeft(LAMBDA n, k : n + OfWord(k), 0, [k \in 1..Len(x.data) |-> k])

\* any(): MASK[0] makes it ignore a full last word of an uncompressed bitmap; a
\* compressed one is looked at a byte per word, without the COMPRESS and VALUE
\* bits, so that the length of a run counts like the bits of a literal word.
BmAny(x) ==
    IF x.comp
    THEN \E k \in DOMAIN x.data : \E b \in x.data[k].b : b < BmByte
    ELSE \/ \E k \in 1..Len(x.data) - 1 : x.data[k] # BmWord({})
         \/ \E b \in x.data[Len(x.data)].b : b < x.size % BmV

\* cross(): is there a common position?
BmCross(x, y) ==
    IF y.comp
    THEN \E k \in DOMAIN x.data : x.data[k].b \cap BmExpand(y.data)[k] # {}
    ELSE \E k \in DOMAIN x.data : BmMeet(x.data[k], y.data[k]) # BmWord({})

\* rforeach(): in a partial last word it starts one position too far.
BmVisited(x) ==
    LET part == x.size % BmV
    IN  BmPositions(x) \cup {k \in {x.size} : part # 0 /\ part \in x.data[Len(x.data)].b}

\* No bit is set behind m_size or above the value bits, and no run of ones is
\* too long for one word: what these queries take for granted.
BmPlain(x) ==
    LET words == BmUncompress(x).data
    IN  /\ \A k \in DOMAIN x.data : ~x.comp => ~x.data[k].c
        /\ \A b \in words[Len(words)].b : (Len(words) - 1) * BmV + b < x.size
        /\ \A k \in 1..Len(x.data) - 1 : ~(x.data[k].c /\ x.data[k + 1].c /\ x.data[k].v /\ x.data[k + 1].v)

\* What any() takes for granted: a partial last word; in a compressed bitmap no
\* run of zeros, and a bit in the low byte of every word that has bits.
BmAnySees(x) ==
    IF x.comp
    THEN \A k \in DOMAIN x.data :
            /\ x.data[k].c => x.data[k].v
            /\ x.data[k].b # {} => \E b \in x.data[k].b : b < BmByte
    ELSE x.size % BmV # 0

-----------------------------------------------------------------------------
\* A bitmap is the set that the operations on it should have made, compressed
\* or not and wherever its end lies in a word, and the queries agree with it --
\* unless compress() met a word with high bits that operator~, a def byte or
\* resize() had set, or resize() added positions in one of the ways in which it
\* does not work (BmResizes).  The queries are held to it where what they take
\* for granted is true: BmPlain, and for any() BmAnySees.  In particular any()
\* of an empty compressed bitmap with a run of zeros answers true.
BmIsSet ==
    \/ bmBroken
    \/ /\ BmPositions(BmUncompress(bm)) = bmRef
       /\ BmPlain(bm) => BmCount(bm) = Cardinality(bmRef)
       /\ BmPlain(bm) /\ BmAnySees(bm) => (BmAny(bm) <=> bmRef # {})
       /\ BmPlain(bm) /\ ~bm.comp =>
             /\ BmVisited(bm) = bmRef
             /\ BmPlain(bmOther) /\ bmOther.size = bm.size =>
                    (BmCross(bm, bmOther) <=> bmRef \cap bmOthRef # {})
=============================================================================
