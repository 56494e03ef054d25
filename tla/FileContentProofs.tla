--------------------------- MODULE FileContentProofs ---------------------------
(***************************************************************************)
(* Theorems about FileContent, for any size of blocks and files, any       *)
(* number of handles and file IDs, kills at any moment and a disk that     *)
(* fills, for a client that is careful: the invariants, and that the file  *)
(* is a PlainFile to the client.                                           *)
(***************************************************************************)
EXTENDS FileContent, SequenceTheorems, TLAPS

\* Writes something, leaves no gap behind a partial last block, truncates to zero only what no
\* handle has read or written; and no disk fills while a file shrinks.
Careful ==
    /\ MinBytes = 1
    /\ PastEnd = FALSE
    /\ ZeroCached = FALSE
    /\ "shrink" \notin FullDuring

-----------------------------------------------------------------------------
(* Block numbers                                                           *)

\* Division with remainder.
LEMMA DivMod ==
    ASSUME NEW a \in Nat, NEW b \in Nat \ {0}
    PROVE  /\ a \div b \in Nat
           /\ a % b \in 0..(b - 1)
           /\ a = (a \div b) * b + (a % b)
           /\ (a \div b) * b <= a
           /\ a < ((a \div b) + 1) * b
OBVIOUS

\* Quotient and remainder are unique.
LEMMA DivUnique ==
    ASSUME NEW q \in Nat, NEW b \in Nat \ {0}, NEW r \in 0..(b - 1)
    PROVE  (q * b + r) \div b = q /\ (q * b + r) % b = r
OBVIOUS

\* A position is in the block that its number says.
LEMMA BlockOf ==
    \A off \in Nat :
        /\ BlockNo(off) \in Nat /\ off % BlockSize \in 0..(BlockSize - 1)
        /\ off = BlockNo(off) * BlockSize + (off % BlockSize)
        /\ BlockNo(off) * BlockSize <= off
        /\ off < (BlockNo(off) + 1) * BlockSize
BY FileContentAssumption, DivMod DEF BlockNo

\* The block an offset is in, and where it is in that block.
LEMMA BlockIs ==
    ASSUME NEW n \in Nat, NEW r \in 0..(BlockSize - 1)
    PROVE  BlockNo(n * BlockSize + r) = n /\ (n * BlockSize + r) % BlockSize = r
BY FileContentAssumption, DivUnique DEF BlockNo

\* A product with BlockSize, as the provers need it: monotone, a number, no less than its factor.
LEMMA Times ==
    ASSUME NEW m \in Nat, NEW n \in Nat
    PROVE  /\ m * BlockSize \in Nat /\ n * BlockSize \in Nat
           /\ m <= n => m * BlockSize <= n * BlockSize
           /\ (m + 1) * BlockSize = m * BlockSize + BlockSize
           /\ m <= m * BlockSize
BY FileContentAssumption

\* The start of a block is a number.
LEMMA TimesNat == \A m \in Nat : m * BlockSize \in Nat
BY FileContentAssumption

\* Positions and their blocks are ordered alike.
LEMMA BlocksOrdered ==
    ASSUME NEW a \in Nat, NEW b \in Nat, a <= b
    PROVE  BlockNo(a) <= BlockNo(b)
<1>1. BlockNo(a) \in Nat /\ BlockNo(b) \in Nat
    BY BlockOf
<1>2. BlockNo(a) * BlockSize <= a /\ b < (BlockNo(b) + 1) * BlockSize
    BY BlockOf
<1>3. ~(BlockNo(b) + 1 <= BlockNo(a))
    <2>1. BlockNo(a) * BlockSize \in Nat /\ (BlockNo(b) + 1) * BlockSize \in Nat
        BY <1>1, Times
    <2>2. BlockNo(b) + 1 <= BlockNo(a) => (BlockNo(b) + 1) * BlockSize <= BlockNo(a) * BlockSize
        BY <1>1, Times
    <2> QED
        BY <1>2, <2>1, <2>2
<1> QED
    BY <1>1, <1>3

-----------------------------------------------------------------------------
(* The data of blocks                                                      *)

\* A function on 1..k is a sequence.
LEMMA FunctionIsSeq ==
    ASSUME NEW S, NEW k \in Nat, NEW f \in [1..k -> S]
    PROVE  f \in Seq(S) /\ Len(f) = k /\ DOMAIN f = 1..k
OBVIOUS

\* A piece of data is a sequence that is not empty.
LEMMA PieceIs ==
    ASSUME NEW k \in Nat, NEW d \in Pieces(k)
    PROVE  d \in Seq(Values) /\ Len(d) \in 1..k /\ d \in [1..Len(d) -> Values]
<1>1. PICK i \in 1..k : d \in [1..i -> Values]
    BY DEF Pieces
<1> QED
    BY <1>1, FunctionIsSeq

\* A function on 1..i is a piece of data.
LEMMA PieceFrom ==
    ASSUME NEW k \in Nat, NEW i \in 1..k, NEW d \in [1..i -> Values]
    PROVE  d \in Pieces(k) /\ Len(d) = i
BY FunctionIsSeq DEF Pieces

\* Zeros are a piece of data.
LEMMA ZerosIs ==
    ASSUME NEW k \in Nat, NEW n \in 1..k
    PROVE  Zeros(n) \in Pieces(k) /\ Len(Zeros(n)) = n
<1>1. Zeros(n) \in [1..n -> Values]
    BY FileContentAssumption DEF Zeros
<1> QED
    BY <1>1, PieceFrom

\* The part of d that falls into block n, and what of the block is before it.
LEMMA PieceAt ==
    ASSUME NEW off \in Nat, NEW d \in Seq(Values), Len(d) > 0, NEW n \in Touched(off, d)
    PROVE  /\ n \in Nat /\ BlockNo(off) <= n /\ n <= BlockNo(off + Len(d) - 1)
           /\ BlockNo(off) \in Nat /\ BlockNo(off + Len(d) - 1) \in Nat /\ off + Len(d) - 1 \in Nat
           /\ \E lo, hi \in Nat :
                /\ off <= lo /\ n * BlockSize <= lo /\ lo \in {off, n * BlockSize} /\ lo < hi
                /\ hi <= off + Len(d) /\ hi <= n * BlockSize + BlockSize
                /\ hi \in {off + Len(d), n * BlockSize + BlockSize}
                /\ Skip(off, n) = lo - n * BlockSize
                /\ Piece(off, d, n) = SubSeq(d, 1 + lo - off, hi - off)
                /\ Piece(off, d, n) \in Seq(Values) /\ Len(Piece(off, d, n)) = hi - lo
<1> DEFINE lo == MaxOf(off, n * BlockSize)
           hi == MinOf(off + Len(d), (n + 1) * BlockSize)
           last == BlockNo(off + Len(d) - 1)
<1>1. /\ n \in Nat /\ BlockNo(off) <= n /\ n <= last /\ last \in Nat /\ BlockNo(off) \in Nat
      /\ Len(d) \in Nat /\ off + Len(d) - 1 \in Nat
    <2>1. Len(d) \in Nat /\ off + Len(d) - 1 \in Nat
        OBVIOUS
    <2>2. last \in Nat /\ BlockNo(off) \in Nat
        BY <2>1, BlockOf
    <2> QED
        BY <2>1, <2>2 DEF Touched
<1>2. n * BlockSize <= off + Len(d) - 1
    <2>1. last * BlockSize <= off + Len(d) - 1
        BY <1>1, BlockOf
    <2>2. n * BlockSize <= last * BlockSize /\ n * BlockSize \in Nat /\ last * BlockSize \in Nat
        BY <1>1, Times
    <2> QED
        BY <1>1, <2>1, <2>2
<1>3. off < (n + 1) * BlockSize
    <2>1. (BlockNo(off) + 1) * BlockSize <= (n + 1) * BlockSize
        <3>1. BlockNo(off) + 1 \in Nat /\ n + 1 \in Nat /\ BlockNo(off) + 1 <= n + 1
            BY <1>1
        <3> QED
            BY <3>1, Times
    <2>2. off < (BlockNo(off) + 1) * BlockSize
        BY BlockOf
    <2>3. (BlockNo(off) + 1) * BlockSize \in Nat /\ (n + 1) * BlockSize \in Nat
        <3>1. BlockNo(off) + 1 \in Nat /\ n + 1 \in Nat
            BY <1>1
        <3> QED
            BY <3>1, TimesNat
    <2> QED
        BY <2>1, <2>2, <2>3
<1>4. (n + 1) * BlockSize = n * BlockSize + BlockSize /\ n * BlockSize \in Nat /\ BlockSize \in Nat \ {0}
    BY <1>1, Times, FileContentAssumption
<1>5. /\ lo \in Nat /\ hi \in Nat /\ off <= lo /\ n * BlockSize <= lo
      /\ lo < hi /\ hi <= off + Len(d) /\ hi <= n * BlockSize + BlockSize
    BY <1>1, <1>2, <1>3, <1>4 DEF MaxOf, MinOf
<1>6. Skip(off, n) = lo - n * BlockSize
    <2>1. CASE BlockNo(off) = n
        <3>1. off = n * BlockSize + (off % BlockSize) /\ off % BlockSize \in Nat
            BY <2>1, BlockOf
        <3>2. lo = off
            BY <1>4, <3>1 DEF MaxOf
        <3>3. Skip(off, n) = off % BlockSize
            BY <2>1 DEF Skip
        <3> HIDE DEF lo
        <3> QED
            BY <1>4, <3>1, <3>2, <3>3
    <2>2. CASE BlockNo(off) # n
        <3>1. (BlockNo(off) + 1) * BlockSize <= n * BlockSize
            <4>1. BlockNo(off) + 1 \in Nat /\ n \in Nat /\ BlockNo(off) + 1 <= n
                BY <1>1, <2>2
            <4> QED
                BY <4>1, Times
        <3>2. off < n * BlockSize
            <4>1. off < (BlockNo(off) + 1) * BlockSize /\ (BlockNo(off) + 1) * BlockSize \in Nat
                <5>1. BlockNo(off) + 1 \in Nat
                    BY <1>1
                <5> QED
                    BY <5>1, BlockOf, TimesNat
            <4> QED
                BY <1>4, <3>1, <4>1
        <3> QED
            BY <1>4, <2>2, <3>2 DEF Skip, MaxOf
    <2> QED
        BY <2>1, <2>2
<1>7. Piece(off, d, n) = SubSeq(d, 1 + lo - off, hi - off)
    BY DEF Piece
<1> HIDE DEF lo, hi, last
<1>8. Piece(off, d, n) \in Seq(Values) /\ Len(Piece(off, d, n)) = hi - lo
    <2>1. 1 + lo - off \in 1..Len(d) + 1 /\ hi - off \in 0..Len(d) /\ 1 + lo - off <= hi - off
        BY <1>1, <1>5
    <2> QED
        BY <1>1, <1>5, <1>7, <2>1
<1>9. lo \in {off, n * BlockSize} /\ hi \in {off + Len(d), n * BlockSize + BlockSize}
    BY <1>4 DEF lo, hi, MaxOf, MinOf
<1> QED
    BY <1>1, <1>5, <1>6, <1>7, <1>8, <1>9 DEF last

\* It fits behind what it skips.
LEMMA PieceFits ==
    ASSUME NEW off \in Nat, NEW d \in Seq(Values), Len(d) > 0, NEW n \in Touched(off, d)
    PROVE  /\ n \in Nat
           /\ Piece(off, d, n) \in Seq(Values) /\ Len(Piece(off, d, n)) \in 1..BlockSize
           /\ Skip(off, n) \in Nat
           /\ Skip(off, n) + Len(Piece(off, d, n)) <= BlockSize
           /\ n * BlockSize + Skip(off, n) + Len(Piece(off, d, n)) <= off + Len(d)
           /\ (n < BlockNo(off + Len(d) - 1) \/ off + Len(d) = (n + 1) * BlockSize)
                => Skip(off, n) + Len(Piece(off, d, n)) = BlockSize
<1> DEFINE last == BlockNo(off + Len(d) - 1)
<1>1. /\ n \in Nat /\ BlockNo(off) <= n /\ n <= last /\ last \in Nat /\ BlockNo(off) \in Nat
      /\ Len(d) \in Nat /\ off + Len(d) - 1 \in Nat
    BY PieceAt
<1>2. PICK lo \in Nat, hi \in Nat :
        /\ off <= lo /\ n * BlockSize <= lo /\ lo < hi
        /\ hi <= off + Len(d) /\ hi <= n * BlockSize + BlockSize
        /\ hi \in {off + Len(d), n * BlockSize + BlockSize}
        /\ Skip(off, n) = lo - n * BlockSize
        /\ Piece(off, d, n) \in Seq(Values) /\ Len(Piece(off, d, n)) = hi - lo
    BY PieceAt
<1>3. PICK y \in Nat : y = n * BlockSize
    BY <1>1, TimesNat
<1>4. (n + 1) * BlockSize = y + BlockSize /\ BlockSize \in Nat \ {0}
    BY <1>1, <1>3, Times, FileContentAssumption
<1>5. /\ off <= lo /\ y <= lo /\ lo < hi /\ hi <= off + Len(d) /\ hi <= y + BlockSize
      /\ hi \in {off + Len(d), y + BlockSize} /\ Skip(off, n) = lo - y
      /\ Piece(off, d, n) \in Seq(Values) /\ Len(Piece(off, d, n)) = hi - lo
    BY <1>2, <1>3, Zenon
<1>6. n < last \/ off + Len(d) = (n + 1) * BlockSize => hi = y + BlockSize
    <2>1. CASE n < last
        <3>1. (n + 1) * BlockSize <= last * BlockSize
            BY <1>1, <2>1, Times
        <3>2. last * BlockSize <= off + Len(d) - 1 /\ last * BlockSize \in Nat
            BY <1>1, BlockOf, Times DEF last
        <3>3. y + BlockSize <= off + Len(d) - 1
            BY <1>1, <1>4, <3>1, <3>2
        <3> QED
            BY <1>1, <1>4, <1>5, <3>3
    <2>2. CASE off + Len(d) = (n + 1) * BlockSize
        BY <1>1, <1>4, <1>5, <2>2
    <2> QED
        BY <2>1, <2>2
<1> HIDE DEF last
<1>7. /\ Skip(off, n) \in Nat /\ Len(Piece(off, d, n)) \in 1..BlockSize
      /\ Skip(off, n) + Len(Piece(off, d, n)) = hi - y /\ hi - y <= BlockSize
      /\ y + Skip(off, n) + Len(Piece(off, d, n)) = hi
    BY <1>1, <1>4, <1>5
<1>8. n * BlockSize + Skip(off, n) + Len(Piece(off, d, n)) <= off + Len(d)
    BY <1>3, <1>5, <1>7
<1> QED
    BY <1>1, <1>4, <1>5, <1>6, <1>7, <1>8 DEF last

-----------------------------------------------------------------------------
(* The inductive invariant                                                 *)

\* The types; what a call still has to do is in CallShape.
Shaped ==
    /\ header \in IDs \cup {None}
    /\ blocks \in Seq(Block)
    /\ files \in [Handles -> [mode : {"closed", "read", "write"}, id : IDs \cup {None}]]
    /\ call.op \in Calls \cup {"none", "stuck"}
    /\ call.empty \in BOOLEAN
    /\ call.result \in {"ok", "failed"}
    /\ call.h \in Handles \cup {None}
    /\ call.old \in Seq(Values) /\ Len(call.old) <= MaxSize
    /\ DOMAIN call = {"h", "op", "todo", "empty", "old", "result"}
    /\ alive = TRUE

\* Only the last block may be incomplete, and it ends within the bound.
Whole(bs)   == \A i \in DOMAIN bs : i < Len(bs) => Len(bs[i].data) = BlockSize
EndsIn(bs)  == \A i \in DOMAIN bs : (i - 1) * BlockSize + Len(bs[i].data) <= MaxSize
AllFull(bs) == \A i \in DOMAIN bs : Len(bs[i].data) = BlockSize

\* A write at off begins in a block that is there, or where the file ends.
Gapless(bs, off) == AllFull(bs) \/ BlockNo(off) < Len(bs)

\* What a call has left to do: a write,
PutLeft(todo, bs) == \E off \in 0..MaxSize, d \in Pieces(MaxSize) :
    /\ off + Len(d) <= MaxSize
    /\ Gapless(bs, off)
    /\ todo \in {<<Header, PutData(off, d)>>, <<PutData(off, d)>>}

\* an extension to whole blocks,
StretchLeft(todo, bs, id) == \E n \in 1..MaxSize :
    /\ n * BlockSize <= MaxSize
    /\ AllFull(bs)
    /\ \/ todo = <<Stretch(n)>> /\ id \in IDs
       \/ todo = <<NewHeader, Stretch(n)>> /\ bs = << >>

\* the padding of the last block and then one of these,
Padding(bs, off, d) ==
    /\ BlockNo(off) + 1 = Len(bs)
    /\ off + Len(d) = Len(bs) * BlockSize
    /\ off + Len(d) <= MaxSize

PadLeft(todo, bs) == \E off \in 0..MaxSize, d \in Pieces(MaxSize), end \in 0..MaxSize, n \in 1..MaxSize :
    /\ Padding(bs, off, d)
    /\ end < MaxSize
    /\ n * BlockSize <= MaxSize
    /\ todo \in {<<Header, PutData(off, d), Header, PutData(end, <<Zero>>)>>,
                 <<PutData(off, d), Header, PutData(end, <<Zero>>)>>,
                 <<Header, PutData(off, d), Stretch(n)>>,
                 <<PutData(off, d), Stretch(n)>>}

\* or the cut of a file that shrinks, and the rest of its last block.
CutLeft(todo, bs) == \E n \in 0..MaxSize, d \in Pieces(MaxSize) :
    /\ n < Len(bs)
    /\ n * BlockSize + Len(d) <= MaxSize
    /\ \/ n > 0 /\ todo = <<Cut(n)>>
       \/ todo = <<Cut(n), Header, PutData(n * BlockSize, d)>>

\* The next change that the call makes.
NextIs(do) == call.todo # << >> /\ Head(call.todo).do = do

CallShape ==
    /\ call.op \in {"none", "stuck"} => call.todo = << >>
    /\ call.op \in Calls => call.h \in Handles
    /\ call.op = "write"  => PutLeft(call.todo, blocks)
    /\ call.op = "empty"  => call.todo = <<CutAll>> /\ \A h \in Handles : files[h].id = None
    /\ call.op = "grow"   => \/ PutLeft(call.todo, blocks)
                             \/ PadLeft(call.todo, blocks)
                             \/ StretchLeft(call.todo, blocks, header)
    /\ call.op = "shrink" => /\ PutLeft(call.todo, blocks) \/ CutLeft(call.todo, blocks)
                             /\ header \in IDs
                             /\ Len(call.todo) # 1 \/ NextIs("put") => files[call.h].id = header

\* In which file IDs a call that died now would leave the file and the handles.
IdInv ==
    /\ blocks # << >> => header \in IDs
    /\ \A i \in DOMAIN blocks : blocks[i].id \in {header, Hole}
    /\ call.op # "stuck" => \A h \in Handles : files[h].id \in {None, header}
    /\ blocks = << >> /\ call.op \notin {"shrink", "stuck"} =>
        \A h \in Handles : files[h].id # None =>
            h = call.h /\ (NextIs("put") \/ NextIs("stretch"))
    /\ NextIs("put") => header \in IDs /\ files[call.h].id = header
    /\ NextIs("put") /\ blocks = << >> /\ call.op # "shrink" => call.empty
    /\ call.empty /\ call.op # "stuck" =>
        blocks = << >> /\ NextIs("put") /\ call.op \in {"write", "grow"} /\ Len(call.todo) = 1

IInv ==
    /\ Shaped
    /\ Whole(blocks) /\ EndsIn(blocks)
    /\ CallShape
    /\ IdInv

-----------------------------------------------------------------------------
(* What the operators on blocks return                                     *)

\* MergeBlocks makes a block out of old and new data, as long as the longer of the two.
LEMMA MergeIs ==
    ASSUME NEW old \in Seq(Values), Len(old) <= BlockSize,
           NEW new \in Seq(Values), Len(new) > 0,
           NEW skip \in Nat, skip + Len(new) <= BlockSize
    PROVE  LET m == MergeBlocks(old, new, skip)
           IN  m \in Pieces(BlockSize) /\ Len(m) = MaxOf(Len(old), skip + Len(new))
<1> DEFINE k == MaxOf(Len(old), skip + Len(new))
           m == MergeBlocks(old, new, skip)
<1>1. k \in 1..BlockSize /\ k \in Nat
    BY FileContentAssumption DEF MaxOf
<1>2. \A i \in 1..k : m[i] \in Values
    <2> SUFFICES ASSUME NEW i \in 1..k PROVE m[i] \in Values
        OBVIOUS
    <2>1. CASE i \in skip + 1..skip + Len(new)
        <3>1. i - skip \in 1..Len(new)
            BY <2>1
        <3>2. m[i] = new[i - skip]
            BY <2>1 DEF MergeBlocks
        <3> QED
            BY <3>1, <3>2
    <2>2. CASE i \notin skip + 1..skip + Len(new)
        BY <2>2, FileContentAssumption DEF MergeBlocks
    <2> QED
        BY <2>1, <2>2
<1>3. m \in [1..k -> Values]
    <2>1. m = [i \in 1..k |-> m[i]]
        BY DEF MergeBlocks
    <2> HIDE DEF m, k
    <2> QED
        BY <1>2, <2>1
<1> HIDE DEF m, k
<1>4. m \in Pieces(BlockSize) /\ Len(m) = k
    BY <1>1, <1>3, FileContentAssumption, PieceFrom
<1> QED
    BY <1>4 DEF m, k

\* What a block is made of.
LEMMA BlockFields ==
    ASSUME NEW b \in Block
    PROVE  /\ b.id \in IDs \cup {Hole, Broken}
           /\ b.data \in Seq(Values) /\ Len(b.data) \in 1..BlockSize
           /\ b.data \in Pieces(BlockSize)
<1>1. b.data \in Pieces(BlockSize) /\ b.id \in IDs \cup {Hole, Broken}
    BY DEF Block
<1> QED
    BY <1>1, FileContentAssumption, PieceIs

\* The data of a block, none beyond the end of the file.
LEMMA BlockDataIs ==
    ASSUME blocks \in Seq(Block), NEW n \in Nat
    PROVE  /\ BlockData(n) \in Seq(Values) /\ Len(BlockData(n)) \in 0..BlockSize
           /\ n < Len(blocks) => Len(BlockData(n)) = Len(blocks[n + 1].data) /\ Len(BlockData(n)) > 0
           /\ ~(n < Len(blocks)) => BlockData(n) = << >>
<1>1. CASE n < Len(blocks)
    <2>1. blocks[n + 1] \in Block
        BY <1>1
    <2> QED
        BY <1>1, <2>1, BlockFields DEF BlockData
<1>2. CASE ~(n < Len(blocks))
    BY <1>2, FileContentAssumption DEF BlockData
<1> QED
    BY <1>1, <1>2

\* A block that doWrite makes: of the type, within the file, and full unless it is the last one.
LEMMA NewBlockIs ==
    ASSUME blocks \in Seq(Block), Whole(blocks), EndsIn(blocks),
           NEW off \in Nat, NEW d \in Pieces(MaxSize), off + Len(d) <= MaxSize,
           NEW n \in Touched(off, d), NEW id \in IDs
    PROVE  LET b == NewBlock(off, d, n, id)
           IN  /\ b \in Block /\ b.id = id
               /\ n * BlockSize + Len(b.data) <= MaxSize
               /\ (n < BlockNo(off + Len(d) - 1) \/ off + Len(d) = (n + 1) * BlockSize
                     \/ n + 1 < Len(blocks)) => Len(b.data) = BlockSize
<1> DEFINE p == Piece(off, d, n)
           s == Skip(off, n)
           o == BlockData(n)
           b == NewBlock(off, d, n, id)
           whole == n < BlockNo(off + Len(d) - 1) \/ off + Len(d) = (n + 1) * BlockSize
<1>1. d \in Seq(Values) /\ Len(d) \in 1..MaxSize
    BY FileContentAssumption, PieceIs
<1>2. /\ n \in Nat /\ p \in Seq(Values) /\ Len(p) \in 1..BlockSize /\ s \in Nat
      /\ s + Len(p) <= BlockSize
      /\ n * BlockSize + s + Len(p) <= off + Len(d)
      /\ whole => s + Len(p) = BlockSize
    BY <1>1, PieceFits
<1>3. /\ o \in Seq(Values) /\ Len(o) \in 0..BlockSize
      /\ n < Len(blocks) => Len(o) = Len(blocks[n + 1].data)
      /\ ~(n < Len(blocks)) => Len(o) = 0
    <2>1. n \in Nat
        BY <1>2
    <2>2. ~(n < Len(blocks)) => o = << >>
        BY <2>1, BlockDataIs
    <2> HIDE DEF o
    <2>3. ~(n < Len(blocks)) => Len(o) = 0
        BY <2>2
    <2>4. /\ o \in Seq(Values) /\ Len(o) \in 0..BlockSize
          /\ n < Len(blocks) => Len(o) = Len(blocks[n + 1].data)
        BY <2>1, BlockDataIs DEF o
    <2> QED
        BY <2>3, <2>4
<1>4. n < Len(blocks) => n * BlockSize + Len(o) <= MaxSize
    <2>1. n < Len(blocks) => n + 1 \in DOMAIN blocks
        BY <1>2
    <2>2. n < Len(blocks) => ((n + 1) - 1) * BlockSize + Len(blocks[n + 1].data) <= MaxSize
        BY <2>1 DEF EndsIn
    <2>3. (n + 1) - 1 = n
        BY <1>2
    <2> QED
        BY <1>3, <2>2, <2>3
<1>5. n + 1 < Len(blocks) => Len(o) = BlockSize
    <2>1. n + 1 < Len(blocks) => n + 1 \in DOMAIN blocks /\ n < Len(blocks)
        BY <1>2
    <2> QED
        BY <1>3, <2>1 DEF Whole
<1>6. n * BlockSize \in Nat
    BY <1>2, TimesNat
<1> HIDE DEF p, s, o, b, whole
<1>7. b = [id |-> id, data |-> IF Len(p) < BlockSize THEN MergeBlocks(o, p, s) ELSE p]
    BY DEF b, NewBlock, IsPartial, p, o, s
<1>8. MergeBlocks(o, p, s) \in Pieces(BlockSize) /\ Len(MergeBlocks(o, p, s)) = MaxOf(Len(o), s + Len(p))
    <2>1. Len(o) <= BlockSize /\ Len(p) > 0
        BY <1>2, <1>3, FileContentAssumption
    <2> QED
        BY <1>2, <1>3, <2>1, MergeIs
<1>9. p \in Pieces(BlockSize)
    <2>1. p \in [1..Len(p) -> Values]
        BY <1>2
    <2> QED
        BY <1>2, <2>1, FileContentAssumption, PieceFrom
<1>10. b \in Block /\ b.id = id
    BY <1>7, <1>8, <1>9 DEF Block
<1>11. Len(b.data) = IF Len(p) < BlockSize THEN MaxOf(Len(o), s + Len(p)) ELSE Len(p)
    BY <1>7, <1>8
<1>12. n * BlockSize + Len(b.data) <= MaxSize
    <2> HIDE FileContentAssumption
    <2>1. s + Len(p) <= BlockSize /\ n * BlockSize + (s + Len(p)) <= MaxSize
        BY <1>1, <1>2, <1>6, FileContentAssumption
    <2>2. Len(b.data) \in {Len(o), s + Len(p), Len(p)} /\ (Len(b.data) = Len(o) => Len(o) > 0)
        BY <1>2, <1>3, <1>11 DEF MaxOf
    <2>3. Len(o) > 0 => n < Len(blocks)
        BY <1>3
    <2>4. n * BlockSize + Len(p) <= MaxSize
        BY <1>2, <1>6, <2>1, FileContentAssumption
    <2> QED
        BY <1>4, <2>1, <2>2, <2>3, <2>4
<1>13. whole \/ n + 1 < Len(blocks) => Len(b.data) = BlockSize
    BY <1>2, <1>3, <1>5, <1>11, FileContentAssumption DEF MaxOf
<1> QED
    BY <1>10, <1>12, <1>13 DEF b, whole

\* A hole reads as a block of zeros.
LEMMA HoleBlock ==
    /\ [id |-> Hole, data |-> Zeros(BlockSize)] \in Block
    /\ Len(Zeros(BlockSize)) = BlockSize
<1>1. BlockSize \in 1..BlockSize /\ BlockSize \in Nat
    BY FileContentAssumption
<1> QED
    BY <1>1, ZerosIs DEF Block

\* A partial block that was stretched no longer opens; it is of the type.
LEMMA BrokenBlock == [id |-> Broken, data |-> Zeros(BlockSize)] \in Block
<1>1. BlockSize \in 1..BlockSize /\ BlockSize \in Nat
    BY FileContentAssumption
<1> QED
    BY <1>1, ZerosIs DEF Block

\* A block of a stretched file.
StretchedBlock(n, i) ==
    IF i > Len(blocks) THEN [id |-> Hole, data |-> Zeros(BlockSize)]
    ELSE IF i = Len(blocks) /\ i < n /\ Len(blocks[i].data) < BlockSize
         THEN [id |-> Broken, data |-> Zeros(BlockSize)]
         ELSE blocks[i]

\* Stretching leaves full blocks as they are, and what is new is holes.
LEMMA StretchedBlockIs ==
    ASSUME blocks \in Seq(Block), Whole(blocks), NEW n \in Nat, NEW i \in 1..n
    PROVE  /\ StretchedBlock(n, i) \in Block
           /\ i < n \/ i > Len(blocks) => Len(StretchedBlock(n, i).data) = BlockSize
           /\ AllFull(blocks) \/ i # Len(blocks) \/ i = n =>
                StretchedBlock(n, i) =
                    IF i > Len(blocks) THEN [id |-> Hole, data |-> Zeros(BlockSize)] ELSE blocks[i]
<1>1. CASE i > Len(blocks)
    BY <1>1, HoleBlock DEF StretchedBlock
<1>2. CASE i <= Len(blocks)
    <2>1. i \in DOMAIN blocks /\ blocks[i] \in Block
        BY <1>2
    <2>2. Len(blocks[i].data) \in 1..BlockSize
        BY <2>1, BlockFields
    <2>3. i < Len(blocks) => Len(blocks[i].data) = BlockSize
        BY <2>1 DEF Whole
    <2>4. AllFull(blocks) => Len(blocks[i].data) = BlockSize
        BY <2>1 DEF AllFull
    <2>5. BlockSize \in Nat
        BY FileContentAssumption
    <2>6. CASE i = Len(blocks) /\ i < n /\ Len(blocks[i].data) < BlockSize
        <3>1. StretchedBlock(n, i) = [id |-> Broken, data |-> Zeros(BlockSize)]
            BY <1>2, <2>6 DEF StretchedBlock
        <3>2. ~AllFull(blocks)
            BY <2>2, <2>4, <2>5, <2>6
        <3> QED
            BY <1>2, <2>6, <3>1, <3>2, BrokenBlock, HoleBlock
    <2>7. CASE ~(i = Len(blocks) /\ i < n /\ Len(blocks[i].data) < BlockSize)
        <3>1. StretchedBlock(n, i) = blocks[i]
            BY <1>2, <2>7 DEF StretchedBlock
        <3>2. i < n => Len(blocks[i].data) = BlockSize
            BY <1>2, <2>2, <2>3, <2>5, <2>7
        <3> QED
            BY <1>2, <2>1, <3>1, <3>2
    <2> QED
        BY <2>6, <2>7
<1> QED
    BY <1>1, <1>2

\* A stretched file has as many blocks as it was stretched to.
LEMMA StretchedIs ==
    ASSUME blocks \in Seq(Block), Whole(blocks), NEW n \in Nat
    PROVE  /\ Stretched(n) \in Seq(Block) /\ Len(Stretched(n)) = n /\ DOMAIN Stretched(n) = 1..n
           /\ \A i \in 1..n : Stretched(n)[i] = StretchedBlock(n, i)
<1>1. \A i \in 1..n : StretchedBlock(n, i) \in Block
    BY StretchedBlockIs
<1>2. Stretched(n) = [i \in 1..n |-> StretchedBlock(n, i)]
    BY DEF Stretched, StretchedBlock
<1> HIDE DEF Stretched, StretchedBlock
<1>3. Stretched(n) \in [1..n -> Block]
    BY <1>1, <1>2
<1> QED
    BY <1>2, <1>3, FunctionIsSeq

\* A file of whole blocks that is stretched consists of whole blocks, each of them its own or a hole.
LEMMA StretchKeeps ==
    ASSUME blocks \in Seq(Block), AllFull(blocks), NEW n \in 1..MaxSize, n * BlockSize <= MaxSize,
           NEW id, \A i \in DOMAIN blocks : blocks[i].id \in {id, Hole}
    PROVE  /\ Stretched(n) \in Seq(Block) /\ Stretched(n) # << >>
           /\ Whole(Stretched(n)) /\ EndsIn(Stretched(n))
           /\ \A i \in DOMAIN Stretched(n) : Stretched(n)[i].id \in {id, Hole}
<1> DEFINE s == Stretched(n)
<1>0. n \in Nat /\ n > 0 /\ BlockSize \in Nat
    BY FileContentAssumption
<1>1. Whole(blocks)
    BY DEF Whole, AllFull
<1>2. s \in Seq(Block) /\ Len(s) = n /\ DOMAIN s = 1..n /\ \A i \in 1..n : s[i] = StretchedBlock(n, i)
    BY <1>0, <1>1, StretchedIs
<1> HIDE DEF s
<1>3. ASSUME NEW i \in 1..n
      PROVE  /\ s[i] = IF i > Len(blocks) THEN [id |-> Hole, data |-> Zeros(BlockSize)] ELSE blocks[i]
             /\ Len(s[i].data) = BlockSize /\ s[i].id \in {id, Hole}
    <2>1. s[i] = IF i > Len(blocks) THEN [id |-> Hole, data |-> Zeros(BlockSize)] ELSE blocks[i]
        BY <1>0, <1>1, <1>2, StretchedBlockIs
    <2>2. CASE i > Len(blocks)
        BY <2>1, <2>2, HoleBlock
    <2>3. CASE i <= Len(blocks)
        <3>1. i \in DOMAIN blocks
            BY <2>3
        <3> QED
            BY <2>1, <2>3, <3>1 DEF AllFull
    <2> QED
        BY <2>1, <2>2, <2>3
<1>4. s # << >>
    BY <1>0, <1>2
<1>5. Whole(s)
    BY <1>2, <1>3 DEF Whole
<1>6. EndsIn(s)
    <2> SUFFICES ASSUME NEW i \in 1..n PROVE (i - 1) * BlockSize + Len(s[i].data) <= MaxSize
        BY <1>2 DEF EndsIn
    <2>1. i - 1 \in Nat /\ i \in Nat /\ i <= n /\ (i - 1) + 1 = i
        OBVIOUS
    <2>2. i * BlockSize = (i - 1) * BlockSize + BlockSize /\ (i - 1) * BlockSize \in Nat
        BY <2>1, Times
    <2>3. i * BlockSize <= n * BlockSize /\ n * BlockSize \in Nat /\ i * BlockSize \in Nat
        BY <1>0, <2>1, Times
    <2>4. Len(s[i].data) = BlockSize
        BY <1>3
    <2>5. i * BlockSize <= MaxSize
        <3>1. MaxSize \in Nat /\ n * BlockSize <= MaxSize
            BY FileContentAssumption
        <3> QED
            BY <2>3, <3>1
    <2>6. (i - 1) * BlockSize + BlockSize <= MaxSize
        BY <2>2, <2>5
    <2> QED
        BY <2>4, <2>6
<1> QED
    BY <1>2, <1>3, <1>4, <1>5, <1>6 DEF s

\* A write that leaves no gap makes whole blocks, but for the last, under its own ID or none.
LEMMA WrittenIs ==
    ASSUME blocks \in Seq(Block), Whole(blocks), EndsIn(blocks),
           NEW id \in IDs, \A i \in DOMAIN blocks : blocks[i].id \in {id, Hole},
           NEW off \in 0..MaxSize, NEW d \in Pieces(MaxSize), off + Len(d) <= MaxSize, Gapless(blocks, off)
    PROVE  /\ Written(off, d, id) \in Seq(Block) /\ Written(off, d, id) # << >>
           /\ Whole(Written(off, d, id)) /\ EndsIn(Written(off, d, id))
           /\ \A i \in DOMAIN Written(off, d, id) : Written(off, d, id)[i].id \in {id, Hole}
           /\ Padding(blocks, off, d) => AllFull(Written(off, d, id))
<1> DEFINE last == BlockNo(off + Len(d) - 1)
           m == MaxOf(Len(blocks), last + 1)
           w == Written(off, d, id)
<1>1. d \in Seq(Values) /\ Len(d) \in 1..MaxSize /\ off \in Nat /\ MaxSize \in Nat /\ BlockSize \in Nat \ {0}
    BY FileContentAssumption, PieceIs
<1>2. off + Len(d) - 1 \in Nat /\ off <= off + Len(d) - 1
    BY <1>1
<1>3. last \in Nat /\ BlockNo(off) \in Nat /\ BlockNo(off) <= last
    BY <1>1, <1>2, BlockOf, BlocksOrdered
<1>4. last * BlockSize <= off + Len(d) - 1
    BY <1>2, BlockOf
<1>5. Touched(off, d) = BlockNo(off)..last
    BY DEF Touched
<1> HIDE DEF last
<1>6. Len(blocks) \in Nat /\ m \in Nat /\ m > 0 /\ last < m /\ Len(blocks) <= m
      /\ (m = Len(blocks) \/ m = last + 1)
    BY <1>3 DEF MaxOf
<1> HIDE DEF m
<1>7. /\ Stretched(m) \in Seq(Block) /\ DOMAIN Stretched(m) = 1..m
      /\ \A i \in 1..m : Stretched(m)[i] = StretchedBlock(m, i)
    BY <1>6, StretchedIs
<1>8. w = [i \in 1..m |-> IF i - 1 \in Touched(off, d) THEN NewBlock(off, d, i - 1, id)
                          ELSE StretchedBlock(m, i)]
    BY <1>7 DEF Written, m, last
<1> HIDE DEF w
<1>9. ASSUME NEW i \in 1..m, i - 1 \in Touched(off, d)
      PROVE  /\ w[i] \in Block /\ w[i].id = id
             /\ (i - 1) * BlockSize + Len(w[i].data) <= MaxSize
             /\ i < m => Len(w[i].data) = BlockSize
             /\ off + Len(d) = i * BlockSize => Len(w[i].data) = BlockSize
    <2>1. w[i] = NewBlock(off, d, i - 1, id)
        BY <1>8, <1>9
    <2>2. i - 1 \in Nat /\ (i - 1) + 1 = i /\ i - 1 <= last
        BY <1>3, <1>5, <1>9
    <2>3. i < m => i - 1 < last \/ i < Len(blocks)
        BY <1>3, <1>6, <2>2
    <2>4. LET b == NewBlock(off, d, i - 1, id)
          IN  /\ b \in Block /\ b.id = id
              /\ (i - 1) * BlockSize + Len(b.data) <= MaxSize
              /\ (i - 1 < last \/ off + Len(d) = ((i - 1) + 1) * BlockSize
                    \/ (i - 1) + 1 < Len(blocks)) => Len(b.data) = BlockSize
        BY <1>1, <1>9, NewBlockIs DEF last
    <2> QED
        BY <2>1, <2>2, <2>3, <2>4
<1>10. ASSUME NEW i \in 1..m, i - 1 \notin Touched(off, d)
       PROVE  /\ w[i] = IF i > Len(blocks) THEN [id |-> Hole, data |-> Zeros(BlockSize)] ELSE blocks[i]
              /\ w[i] \in Block
              /\ i < m \/ i > Len(blocks) => Len(w[i].data) = BlockSize
              /\ i > Len(blocks) => i <= last
    <2>1. w[i] = StretchedBlock(m, i)
        BY <1>8, <1>10
    <2>2. AllFull(blocks) \/ i # Len(blocks) \/ i = m
        <3>1. CASE AllFull(blocks)
            BY <3>1
        <3>2. CASE BlockNo(off) < Len(blocks)
            BY <1>3, <1>5, <1>6, <1>10, <3>2
        <3> QED
            BY <3>1, <3>2 DEF Gapless
    <2>3. i > Len(blocks) => i <= last
        BY <1>3, <1>5, <1>6, <1>10
    <2> QED
        BY <1>6, <2>1, <2>2, <2>3, StretchedBlockIs
<1>11. \A i \in 1..m : w[i] \in Block /\ w[i].id \in {id, Hole}
    <2> SUFFICES ASSUME NEW i \in 1..m PROVE w[i] \in Block /\ w[i].id \in {id, Hole}
        OBVIOUS
    <2>1. CASE i - 1 \in Touched(off, d)
        BY <1>9, <2>1
    <2>2. CASE i - 1 \notin Touched(off, d)
        <3>1. i <= Len(blocks) => i \in DOMAIN blocks
            BY <1>6
        <3>2. i <= Len(blocks) \/ i > Len(blocks)
            BY <1>6
        <3> QED
            BY <1>10, <2>2, <3>1, <3>2
    <2> QED
        BY <2>1, <2>2
<1>12. w \in [1..m -> Block]
    BY <1>8, <1>11
<1>13. w \in Seq(Block) /\ Len(w) = m /\ DOMAIN w = 1..m /\ w # << >>
    BY <1>6, <1>12, FunctionIsSeq
<1>14. Whole(w)
    BY <1>9, <1>10, <1>13 DEF Whole
<1>15. EndsIn(w)
    <2> SUFFICES ASSUME NEW i \in 1..m PROVE (i - 1) * BlockSize + Len(w[i].data) <= MaxSize
        BY <1>13 DEF EndsIn
    <2>1. CASE i - 1 \in Touched(off, d)
        BY <1>9, <2>1
    <2>2. CASE i - 1 \notin Touched(off, d) /\ i <= Len(blocks)
        <3>1. i \in DOMAIN blocks
            BY <1>6, <2>2
        <3>2. w[i] = blocks[i]
            BY <1>6, <1>10, <2>2
        <3> QED
            BY <3>1, <3>2 DEF EndsIn
    <2>3. CASE i - 1 \notin Touched(off, d) /\ i > Len(blocks)
        <3>1. i <= last /\ Len(w[i].data) = BlockSize /\ i \in Nat /\ i - 1 \in Nat /\ (i - 1) + 1 = i
            BY <1>10, <2>3
        <3>2. i * BlockSize <= last * BlockSize /\ i * BlockSize \in Nat /\ last * BlockSize \in Nat
            BY <1>3, <3>1, Times
        <3>3. i * BlockSize = (i - 1) * BlockSize + BlockSize /\ (i - 1) * BlockSize \in Nat
            BY <3>1, Times
        <3> QED
            BY <1>1, <1>4, <3>1, <3>2, <3>3
    <2> QED
        BY <1>6, <2>1, <2>2, <2>3
<1>16. Padding(blocks, off, d) => AllFull(w)
    <2> SUFFICES ASSUME Padding(blocks, off, d), NEW i \in 1..m PROVE Len(w[i].data) = BlockSize
        BY <1>13 DEF AllFull
    <2>1. BlockNo(off) + 1 = Len(blocks) /\ off + Len(d) = Len(blocks) * BlockSize
        BY DEF Padding
    <2>2. last = Len(blocks) - 1
        <3>1. BlockNo(off) * BlockSize + BlockSize = Len(blocks) * BlockSize /\ BlockNo(off) * BlockSize \in Nat
            BY <1>3, <2>1, Times
        <3>2. off + Len(d) - 1 = BlockNo(off) * BlockSize + (BlockSize - 1)
            BY <1>1, <2>1, <3>1
        <3>3. BlockSize - 1 \in 0..(BlockSize - 1)
            BY <1>1
        <3>4. BlockNo(BlockNo(off) * BlockSize + (BlockSize - 1)) = BlockNo(off)
            BY <1>3, <3>3, BlockIs
        <3> QED
            BY <1>3, <2>1, <3>2, <3>4 DEF last
    <2>3. m = Len(blocks)
        BY <1>6, <2>2
    <2>4. CASE i = m
        <3>1. i - 1 \in Touched(off, d)
            BY <1>3, <1>5, <1>6, <2>1, <2>2, <2>3, <2>4
        <3> QED
            BY <1>9, <2>1, <2>3, <2>4, <3>1
    <2>5. CASE i < m
        BY <1>9, <1>10, <2>5
    <2> QED
        BY <1>6, <2>4, <2>5
<1> QED
    BY <1>11, <1>13, <1>14, <1>15, <1>16 DEF w

-----------------------------------------------------------------------------
(* The size and content of the file                                        *)

\* A common summand does not matter for the order.
LEMMA LessByOffset ==
    \A x \in Nat, y \in Int, z \in Int : x + y < x + z => y < z
OBVIOUS

\* The size of a file whose blocks are full except the last one.
LEMMA SizeIs ==
    ASSUME blocks \in Seq(Block), Whole(blocks), EndsIn(blocks)
    PROVE  /\ PlainSize \in 0..MaxSize /\ PlainSize \in Nat /\ Len(blocks) <= MaxSize
           /\ blocks = << >> <=> PlainSize = 0
           /\ blocks # << >> => /\ PlainSize = (Len(blocks) - 1) * BlockSize + Len(blocks[Len(blocks)].data)
                                /\ Len(blocks) - 1 \in Nat
                                /\ Len(blocks[Len(blocks)].data) \in 1..BlockSize
                                /\ BlockNo(PlainSize - 1) = Len(blocks) - 1
<1>0. MaxSize \in Nat /\ BlockSize \in Nat \ {0}
    BY FileContentAssumption
<1>1. CASE blocks = << >>
    BY <1>0, <1>1 DEF PlainSize
<1>2. CASE blocks # << >>
    <2> DEFINE n == Len(blocks)
               r == Len(blocks[n].data)
    <2>1. n \in Nat /\ n - 1 \in Nat /\ n \in DOMAIN blocks /\ blocks[n] \in Block
        BY <1>2
    <2>2. r \in 1..BlockSize
        BY <2>1, BlockFields
    <2>3. PlainSize = (n - 1) * BlockSize + r
        BY <1>2 DEF PlainSize
    <2>4. (n - 1) * BlockSize + r <= MaxSize
        BY <2>1 DEF EndsIn
    <2>5. (n - 1) * BlockSize \in Nat /\ n - 1 <= (n - 1) * BlockSize
        BY <2>1, Times
    <2> HIDE DEF n, r
    <2>6. PlainSize \in Nat /\ PlainSize > 0 /\ n <= MaxSize /\ PlainSize <= MaxSize
        BY <1>0, <2>1, <2>2, <2>3, <2>4, <2>5
    <2>7. BlockNo(PlainSize - 1) = n - 1
        <3>1. r - 1 \in 0..(BlockSize - 1) /\ PlainSize - 1 = (n - 1) * BlockSize + (r - 1)
            BY <1>0, <2>2, <2>3, <2>5
        <3> QED
            BY <2>1, <3>1, BlockIs
    <2>8. PlainSize \in 0..MaxSize /\ PlainSize # 0
        BY <1>0, <2>6
    <2>9. /\ PlainSize = (Len(blocks) - 1) * BlockSize + Len(blocks[Len(blocks)].data)
          /\ Len(blocks) - 1 \in Nat /\ Len(blocks) <= MaxSize
          /\ Len(blocks[Len(blocks)].data) \in 1..BlockSize
          /\ BlockNo(PlainSize - 1) = Len(blocks) - 1
        BY <2>1, <2>2, <2>3, <2>6, <2>7 DEF n, r
    <2> HIDE DEF PlainSize
    <2> QED
        BY <1>2, <2>6, <2>8, <2>9
<1> QED
    BY <1>1, <1>2

\* The last block is full exactly if the size is a multiple of the block size.
LEMMA SizeAndLast ==
    ASSUME blocks \in Seq(Block), Whole(blocks), EndsIn(blocks)
    PROVE  /\ PlainSize % BlockSize = 0 => AllFull(blocks)
           /\ PlainSize % BlockSize # 0 => blocks # << >> /\ BlockNo(PlainSize) + 1 = Len(blocks)
           /\ \A n \in Nat : n < PlainSize => BlockNo(n) < Len(blocks)
<1>0. MaxSize \in Nat /\ BlockSize \in Nat \ {0} /\ BlockSize \in Nat
    BY FileContentAssumption
<1>1. CASE blocks = << >>
    <2>1. PlainSize = 0 /\ AllFull(blocks)
        BY <1>1, SizeIs DEF AllFull
    <2>2. 0 % BlockSize = 0
        <3>1. 0 \in 0..(BlockSize - 1) /\ 0 * BlockSize + 0 = 0
            BY <1>0
        <3> QED
            BY <3>1, BlockIs
    <2> QED
        BY <2>1, <2>2
<1>2. CASE blocks # << >>
    <2> DEFINE b == Len(blocks) - 1
               r == Len(blocks[Len(blocks)].data)
    <2>1. b \in Nat /\ r \in 1..BlockSize /\ PlainSize = b * BlockSize + r /\ Len(blocks) = b + 1
          /\ PlainSize \in Nat /\ BlockNo(PlainSize - 1) = b /\ PlainSize > 0
        BY <1>2, SizeIs
    <2>2. r = BlockSize => AllFull(blocks)
        <3> SUFFICES ASSUME r = BlockSize, NEW i \in DOMAIN blocks PROVE Len(blocks[i].data) = BlockSize
            BY DEF AllFull
        <3>1. i < Len(blocks) \/ i = Len(blocks)
            OBVIOUS
        <3> QED
            BY <3>1 DEF Whole
    <2> HIDE DEF b, r
    <2>3. r # BlockSize => PlainSize % BlockSize = r /\ BlockNo(PlainSize) = b
        <3>1. r # BlockSize => r \in 0..(BlockSize - 1)
            BY <1>0, <2>1
        <3> QED
            BY <2>1, <3>1, BlockIs
    <2>4. r = BlockSize => PlainSize % BlockSize = 0
        <3>1. (b + 1) * BlockSize = b * BlockSize + BlockSize /\ (b + 1) * BlockSize + 0 = (b + 1) * BlockSize
              /\ b + 1 \in Nat /\ 0 \in 0..(BlockSize - 1)
            BY <1>0, <2>1, Times, TimesNat
        <3>2. ((b + 1) * BlockSize + 0) % BlockSize = 0
            BY <3>1, BlockIs
        <3> QED
            BY <2>1, <3>1, <3>2
    <2>5. ASSUME NEW n \in Nat, n < PlainSize PROVE BlockNo(n) < Len(blocks)
        <3>1. BlockNo(n) \in Nat /\ BlockNo(n) <= BlockNo(PlainSize - 1)
            <4>1. PlainSize - 1 \in Nat /\ n <= PlainSize - 1
                BY <2>1, <2>5
            <4> QED
                BY <4>1, BlockOf, BlocksOrdered
        <3> QED
            BY <2>1, <3>1
    <2>6. r # 0
        BY <1>0, <2>1
    <2> QED
        BY <1>2, <2>1, <2>2, <2>3, <2>4, <2>5, <2>6
<1> QED
    BY <1>1, <1>2

\* The bytes of such a file are as many as its size.
LEMMA ContentIs ==
    ASSUME blocks \in Seq(Block), Whole(blocks), EndsIn(blocks)
    PROVE  Content \in Seq(Values) /\ Len(Content) = PlainSize
<1>0. MaxSize \in Nat /\ BlockSize \in Nat \ {0} /\ PlainSize \in Nat
    BY FileContentAssumption, SizeIs
<1>1. \A i \in 1..PlainSize : Content[i] \in Values
    <2> SUFFICES ASSUME NEW i \in 1..PlainSize PROVE Content[i] \in Values
        OBVIOUS
    <2> DEFINE n == i - 1
               b == BlockNo(n)
               r == n % BlockSize
    <2>1. n \in Nat /\ n < PlainSize
        BY <1>0
    <2>2. b \in Nat /\ r \in 0..(BlockSize - 1) /\ n = b * BlockSize + r
        BY <2>1, BlockOf
    <2>3. b < Len(blocks)
        BY <2>1, SizeAndLast
    <2>4. Content[i] = blocks[1 + b].data[1 + r]
        BY DEF Content
    <2> HIDE DEF n, b, r
    <2>5. 1 + b \in DOMAIN blocks /\ blocks[1 + b] \in Block
        BY <2>2, <2>3
    <2>6. blocks[1 + b].data \in Seq(Values) /\ Len(blocks[1 + b].data) \in 1..BlockSize
        BY <2>5, BlockFields
    <2>7. r < Len(blocks[1 + b].data)
        <3>1. CASE 1 + b < Len(blocks)
            <4>1. Len(blocks[1 + b].data) = BlockSize
                BY <2>5, <3>1 DEF Whole
            <4> QED
                BY <1>0, <2>2, <4>1
        <3>2. CASE 1 + b = Len(blocks)
            <4>1. blocks # << >>
                BY <2>2, <3>2
            <4>2. PlainSize = (Len(blocks) - 1) * BlockSize + Len(blocks[Len(blocks)].data)
                BY <4>1, SizeIs
            <4>3. Len(blocks) - 1 = b /\ b * BlockSize \in Nat
                BY <2>2, <3>2, TimesNat
            <4>4. b * BlockSize + r < b * BlockSize + Len(blocks[1 + b].data)
                BY <2>1, <2>2, <3>2, <4>2, <4>3
            <4> QED
                BY <2>2, <2>6, <4>3, <4>4, LessByOffset
        <3> QED
            BY <2>2, <2>3, <3>1, <3>2
    <2>8. 1 + r \in DOMAIN blocks[1 + b].data
        BY <2>2, <2>6, <2>7
    <2> QED
        BY <2>4, <2>6, <2>8
<1>2. Content \in [1..PlainSize -> Values]
    <2>1. Content = [i \in 1..PlainSize |-> Content[i]]
        BY DEF Content
    <2> QED
        BY <1>1, <2>1
<1> QED
    BY <1>0, <1>2, FunctionIsSeq

-----------------------------------------------------------------------------
(* The changes that calls begin with                                       *)

\* Tuples are joined element by element (also the three lemmas that follow).
LEMMA OneAndOne ==
    \A a, b : <<a>> \o <<b>> = <<a, b>>
<1> SUFFICES ASSUME NEW a, NEW b PROVE <<a>> \o <<b>> = <<a, b>>
    OBVIOUS
<1> DEFINE T == {a, b}
<1>1. <<a>> \o <<b>> \in Seq(T) /\ Len(<<a>> \o <<b>>) = 2 /\ <<a, b>> \in Seq(T)
    OBVIOUS
<1>2. \A i \in 1..2 : (<<a>> \o <<b>>)[i] = <<a, b>>[i]
    OBVIOUS
<1> QED
    BY <1>1, <1>2, SeqEqual

\* One step, then two.
LEMMA OneAndTwo ==
    \A a, b, c : <<a>> \o <<b, c>> = <<a, b, c>>
<1> SUFFICES ASSUME NEW a, NEW b, NEW c PROVE <<a>> \o <<b, c>> = <<a, b, c>>
    OBVIOUS
<1> DEFINE T == {a, b, c}
<1>1. <<a>> \o <<b, c>> \in Seq(T) /\ Len(<<a>> \o <<b, c>>) = 3 /\ <<a, b, c>> \in Seq(T)
    OBVIOUS
<1>2. \A i \in 1..3 : (<<a>> \o <<b, c>>)[i] = <<a, b, c>>[i]
    OBVIOUS
<1> QED
    BY <1>1, <1>2, SeqEqual

\* Two steps, then one.
LEMMA TwoAndOne ==
    \A a, b, c : <<a, b>> \o <<c>> = <<a, b, c>>
<1> SUFFICES ASSUME NEW a, NEW b, NEW c PROVE <<a, b>> \o <<c>> = <<a, b, c>>
    OBVIOUS
<1> DEFINE T == {a, b, c}
<1>1. <<a, b>> \o <<c>> \in Seq(T) /\ Len(<<a, b>> \o <<c>>) = 3 /\ <<a, b, c>> \in Seq(T)
    OBVIOUS
<1>2. \A i \in 1..3 : (<<a, b>> \o <<c>>)[i] = <<a, b, c>>[i]
    OBVIOUS
<1> QED
    BY <1>1, <1>2, SeqEqual

\* Two steps, then two.
LEMMA TwoAndTwo ==
    \A a, b, c, d : <<a, b>> \o <<c, d>> = <<a, b, c, d>>
<1> SUFFICES ASSUME NEW a, NEW b, NEW c, NEW d PROVE <<a, b>> \o <<c, d>> = <<a, b, c, d>>
    OBVIOUS
<1> DEFINE T == {a, b, c, d}
<1>1. <<a, b>> \o <<c, d>> \in Seq(T) /\ Len(<<a, b>> \o <<c, d>>) = 4 /\ <<a, b, c, d>> \in Seq(T)
    OBVIOUS
<1>2. \A i \in 1..4 : (<<a, b>> \o <<c, d>>)[i] = <<a, b, c, d>>[i]
    OBVIOUS
<1> QED
    BY <1>1, <1>2, SeqEqual

\* Joining nothing.
LEMMA NothingJoined ==
    \A a, b : << >> \o <<a, b>> = <<a, b>> /\ << >> \o <<a>> = <<a>> /\ <<a>> \o << >> = <<a>>
OBVIOUS

\* One zero byte, what truncateGrowFile writes to force the padding, is a piece of data.
LEMMA OneByte ==
    ASSUME NEW m \in Nat \ {0}
    PROVE  <<Zero>> \in Pieces(m) /\ Len(<<Zero>>) = 1
<1>1. 1 \in 1..m /\ Zero \in Values /\ m \in Nat
    BY FileContentAssumption
<1>2. <<Zero>> \in [1..1 -> Values]
    BY <1>1
<1> QED
    BY <1>1, <1>2, PieceFrom

\* What a client of the model writes is a piece of data.
LEMMA SameBytes ==
    ASSUME NEW len \in 1..MaxSize, NEW v \in Values
    PROVE  [i \in 1..len |-> v] \in Pieces(MaxSize) /\ Len([i \in 1..len |-> v]) = len
<1>1. [i \in 1..len |-> v] \in [1..len -> Values]
    OBVIOUS
<1> QED
    BY <1>1, FileContentAssumption, PieceFrom

\* Bytes up to the end of a block stay within the bound if a later block begins below it.
LEMMA BlockEnd ==
    ASSUME NEW a \in Nat, NEW b \in Nat, BlockNo(a) < BlockNo(b)
    PROVE  /\ (BlockNo(a) + 1) * BlockSize \in Nat
           /\ a < (BlockNo(a) + 1) * BlockSize
           /\ (BlockNo(a) + 1) * BlockSize <= b
           /\ (BlockNo(a) + 1) * BlockSize = BlockNo(a) * BlockSize + BlockSize
<1>1. BlockNo(a) \in Nat /\ BlockNo(b) \in Nat /\ BlockNo(a) + 1 \in Nat /\ BlockNo(a) + 1 <= BlockNo(b)
    BY BlockOf
<1>2. (BlockNo(a) + 1) * BlockSize <= BlockNo(b) * BlockSize /\ BlockNo(b) * BlockSize \in Nat
      /\ (BlockNo(a) + 1) * BlockSize \in Nat
    BY <1>1, Times
<1>3. BlockNo(b) * BlockSize <= b
    BY BlockOf
<1>4. (BlockNo(a) + 1) * BlockSize <= b
    BY <1>2, <1>3
<1> QED
    BY <1>1, <1>2, <1>4, BlockOf, Times

\* From an offset to the end of its block.
LEMMA ToBlockEnd ==
    \A a, x, r, b \in Int : a = x + r => a + (b - r) = x + b
OBVIOUS

\* What is left to do when truncateGrowFile starts has one of the shapes of CallShape.
LEMMA GrowShape ==
    ASSUME blocks \in Seq(Block), Whole(blocks), EndsIn(blocks), blocks # << >> => header \in IDs,
           NEW new \in 1..MaxSize, new > PlainSize
    PROVE  /\ \/ PutLeft(TruncateGrowFile(PlainSize, new), blocks)
              \/ PadLeft(TruncateGrowFile(PlainSize, new), blocks)
              \/ StretchLeft(TruncateGrowFile(PlainSize, new), blocks, header)
           /\ ~(TruncateGrowFile(PlainSize, new) # << >> /\ Head(TruncateGrowFile(PlainSize, new)).do = "put")
<1> DEFINE old == PlainSize
           todo == TruncateGrowFile(PlainSize, new)
           end == new - 1
<1>0. MaxSize \in Nat \ {0} /\ BlockSize \in Nat \ {0} /\ old \in Nat /\ old < new
    BY FileContentAssumption, SizeIs
<1>1. end \in Nat /\ end \in 0..MaxSize /\ end < MaxSize /\ end + 1 <= MaxSize /\ new \in Nat
    BY <1>0
<1>2. old > 0 <=> blocks # << >>
    BY <1>0, SizeIs
<1>3. <<Zero>> \in Pieces(MaxSize) /\ Len(<<Zero>>) = 1
    BY <1>0, OneByte
<1> HIDE DEF old
<1>4. CASE old > 0 /\ BlockNo(old - 1) = BlockNo(new - 1)
    <2>1. todo = <<Header, PutData(end, <<Zero>>)>>
        BY <1>4 DEF TruncateGrowFile, DoWrite, old
    <2>2. BlockNo(end) = Len(blocks) - 1 /\ Len(blocks) \in Nat
        BY <1>2, <1>4, SizeIs DEF old
    <2>3. Gapless(blocks, end)
        BY <2>2 DEF Gapless
    <2> HIDE DEF todo, end
    <2>4. PutLeft(todo, blocks)
        BY <1>1, <1>3, <2>1, <2>3 DEF PutLeft
    <2> QED
        BY <2>1, <2>4 DEF todo, Header
<1>5. CASE ~(old > 0 /\ BlockNo(old - 1) = BlockNo(new - 1))
    <2> DEFINE n == new \div BlockSize
    <2>1. todo = ZeroPad(old) \o
                 IF new % BlockSize = 0
                 THEN (IF old = 0 THEN <<NewHeader>> ELSE << >>) \o <<Stretch(n)>>
                 ELSE DoWrite(end, <<Zero>>)
        BY <1>5 DEF TruncateGrowFile, old
    <2>2. new % BlockSize = 0 => n \in 1..MaxSize /\ n * BlockSize <= MaxSize
        <3>1. n \in Nat /\ new = n * BlockSize + (new % BlockSize)
            BY <1>1, BlockOf DEF BlockNo
        <3>2. n * BlockSize \in Nat /\ n <= n * BlockSize
            BY <3>1, Times
        <3>3. n = 0 => n * BlockSize = 0
            BY <1>0
        <3> HIDE DEF n
        <3> QED
            BY <1>0, <1>1, <3>1, <3>2, <3>3
    <2> HIDE DEF todo, n, end
    <2>3. CASE old % BlockSize = 0
        <3>1. ZeroPad(old) = << >>
            BY <2>3 DEF ZeroPad
        <3>2. AllFull(blocks)
            BY <2>3, SizeAndLast DEF old
        <3>3. CASE new % BlockSize = 0
            <4>1. todo \in {<<Stretch(n)>>, <<NewHeader, Stretch(n)>>}
                  /\ (old = 0 <=> todo = <<NewHeader, Stretch(n)>>)
                <5>1. old = 0 => todo = <<NewHeader, Stretch(n)>>
                    BY <2>1, <3>1, <3>3, NothingJoined, OneAndOne
                <5>2. old # 0 => todo = <<Stretch(n)>>
                    BY <2>1, <3>1, <3>3, NothingJoined, OneAndOne
                <5>3. <<Stretch(n)>> # <<NewHeader, Stretch(n)>>
                    OBVIOUS
                <5> QED
                    BY <5>1, <5>2, <5>3
            <4>2. old # 0 => header \in IDs
                BY <1>0, <1>2
            <4>3. old = 0 => blocks = << >>
                BY <1>0, <1>2
            <4>4. StretchLeft(todo, blocks, header)
                BY <2>2, <3>2, <3>3, <4>1, <4>2, <4>3 DEF StretchLeft
            <4> QED
                BY <4>1, <4>4 DEF todo, NewHeader, Stretch
        <3>4. CASE new % BlockSize # 0
            <4>1. todo = <<Header, PutData(end, <<Zero>>)>>
                BY <2>1, <3>1, <3>4, NothingJoined DEF DoWrite
            <4>2. PutLeft(todo, blocks)
                BY <1>1, <1>3, <3>2, <4>1 DEF PutLeft, Gapless
            <4> QED
                BY <4>1, <4>2 DEF todo, Header
        <3> QED
            BY <3>3, <3>4
    <2>4. CASE old % BlockSize # 0
        <3> DEFINE k == BlockSize - (old % BlockSize)
                   d == Zeros(k)
        <3>1. blocks # << >> /\ BlockNo(old) + 1 = Len(blocks) /\ old > 0
            BY <1>2, <2>4, SizeAndLast DEF old
        <3>2. old % BlockSize \in 0..(BlockSize - 1) /\ old = BlockNo(old) * BlockSize + (old % BlockSize)
              /\ BlockNo(old) \in Nat
            BY <1>0, BlockOf
        <3>3. k \in 1..BlockSize /\ k \in Nat
            BY <1>0, <2>4, <3>2
        <3>4. ZeroPad(old) = <<Header, PutData(old, d)>>
            BY <2>4 DEF ZeroPad, DoWrite
        <3>5. BlockNo(old) < BlockNo(end)
            <4>1. BlockNo(old - 1) = BlockNo(old)
                <5>1. BlockNo(old - 1) = Len(blocks) - 1 /\ Len(blocks) \in Nat
                    BY <3>1, SizeIs DEF old
                <5> QED
                    BY <3>1, <3>2, <5>1
            <4>2. old <= end
                BY <1>0, <1>1 DEF end
            <4>3. BlockNo(old) <= BlockNo(end) /\ BlockNo(old) # BlockNo(end) /\ BlockNo(end) \in Nat
                BY <1>0, <1>1, <1>5, <3>1, <4>1, <4>2, BlocksOrdered, BlockOf DEF end
            <4> QED
                BY <3>2, <4>3
        <3>6. (BlockNo(old) + 1) * BlockSize = BlockNo(old) * BlockSize + BlockSize
              /\ (BlockNo(old) + 1) * BlockSize <= end /\ BlockNo(old) * BlockSize \in Nat
              /\ (BlockNo(old) + 1) * BlockSize \in Nat
            BY <1>0, <1>1, <3>2, <3>5, BlockEnd, TimesNat
        <3>7. old + k = Len(blocks) * BlockSize /\ old + k <= MaxSize /\ k <= MaxSize /\ old \in 0..MaxSize
              /\ BlockSize <= MaxSize
            <4>1. old + k = (BlockNo(old) + 1) * BlockSize
                <5>1. old = BlockNo(old) * BlockSize + (old % BlockSize) /\ old % BlockSize \in Nat
                    BY <1>0, <3>2
                <5> QED
                    BY <1>0, <3>6, <5>1, ToBlockEnd
            <4>2. old + k <= end
                BY <3>6, <4>1
            <4>3. BlockSize <= (BlockNo(old) + 1) * BlockSize
                BY <1>0, <3>6
            <4> HIDE DEF k
            <4> QED
                BY <1>0, <1>1, <3>1, <3>3, <3>6, <4>1, <4>2, <4>3
        <3>8. d \in Pieces(MaxSize) /\ Len(d) = k
            BY <1>0, <3>3, <3>7, ZerosIs
        <3> HIDE DEF d, k
        <3>9. Padding(blocks, old, d)
            BY <3>1, <3>7, <3>8 DEF Padding
        <3>10. CASE new % BlockSize = 0
            <4>1. todo = <<Header, PutData(old, d), Stretch(n)>>
                <5>1. old # 0
                    BY <1>0, <3>1
                <5>2. todo = <<Header, PutData(old, d)>> \o (<< >> \o <<Stretch(n)>>)
                    BY <2>1, <3>4, <3>10, <5>1
                <5> QED
                    BY <5>2, NothingJoined, TwoAndOne
            <4>2. PadLeft(todo, blocks)
                BY <1>1, <2>2, <3>7, <3>8, <3>9, <3>10, <4>1 DEF PadLeft
            <4> QED
                BY <4>1, <4>2 DEF todo, Header
        <3>11. CASE new % BlockSize # 0
            <4>1. todo = <<Header, PutData(old, d), Header, PutData(end, <<Zero>>)>>
                BY <2>1, <3>4, <3>11, TwoAndTwo DEF DoWrite
            <4>2. 1 \in 1..MaxSize /\ 1 * BlockSize <= MaxSize
                BY <1>0, <3>7
            <4>3. PadLeft(todo, blocks)
                BY <1>1, <3>7, <3>8, <3>9, <4>1, <4>2 DEF PadLeft
            <4> QED
                BY <4>1, <4>3 DEF todo, Header
        <3> QED
            BY <3>10, <3>11
    <2> QED
        BY <2>3, <2>4
<1> QED
    BY <1>4, <1>5

\* What is left to do when a shrinking truncate starts has the shape of CallShape.
LEMMA ShrinkShape ==
    ASSUME blocks \in Seq(Block), Whole(blocks), EndsIn(blocks),
           NEW new \in 1..MaxSize, new < PlainSize
    PROVE  /\ CutLeft(TruncateShrink(new), blocks)
           /\ new % BlockSize = 0 => Len(TruncateShrink(new)) = 1
           /\ ~(TruncateShrink(new) # << >> /\ Head(TruncateShrink(new)).do = "put")
<1> DEFINE n == BlockNo(new)
           r == new % BlockSize
           o == BlockData(n)
           part == SubSeq(o, 1, r)
<1>0. MaxSize \in Nat /\ BlockSize \in Nat \ {0} /\ new \in Nat
    BY FileContentAssumption
<1>1. n \in Nat /\ r \in 0..(BlockSize - 1) /\ new = n * BlockSize + r
    BY <1>0, BlockOf
<1>2. n < Len(blocks) /\ n <= MaxSize
    <2>1. n < Len(blocks)
        BY <1>0, SizeAndLast
    <2>2. Len(blocks) <= MaxSize
        BY SizeIs
    <2> QED
        BY <1>0, <1>1, <2>1, <2>2
<1>3. o \in Seq(Values) /\ Len(o) \in 1..BlockSize /\ Len(o) = Len(blocks[n + 1].data)
    <2>1. /\ o \in Seq(Values) /\ Len(o) \in 0..BlockSize
          /\ n < Len(blocks) => Len(o) = Len(blocks[n + 1].data) /\ Len(o) > 0
        BY <1>1, BlockDataIs
    <2> HIDE DEF n, o
    <2> QED
        BY <1>0, <1>2, <2>1
<1>4. n * BlockSize + Len(o) <= MaxSize /\ n * BlockSize \in Nat
    <2>1. n + 1 \in DOMAIN blocks /\ (n + 1) - 1 = n
        BY <1>1, <1>2
    <2>2. ((n + 1) - 1) * BlockSize + Len(blocks[n + 1].data) <= MaxSize
        BY <2>1 DEF EndsIn
    <2> QED
        BY <1>1, <1>3, <2>1, <2>2, TimesNat
<1>5. TruncateShrink(new) = <<Cut(n)>> \o (IF part = << >> THEN << >> ELSE <<Header, PutData(n * BlockSize, part)>>)
    BY DEF TruncateShrink, DoWrite
<1>6. r < Len(o) \/ Len(o) <= r
    BY <1>1, <1>3
<1> HIDE DEF n, o, r
<1>7. r = 0 => part = << >>
    BY <1>3
<1>8. r # 0 => part # << >>
    BY <1>0, <1>1, <1>3
<1>9. CASE r = 0
    <2>1. TruncateShrink(new) = <<Cut(n)>>
        BY <1>5, <1>7, <1>9, NothingJoined
    <2>2. n > 0
        <3>1. n = 0 => n * BlockSize = 0
            BY <1>0
        <3> QED
            BY <1>0, <1>1, <1>9, <3>1
    <2>3. \E d \in Pieces(MaxSize) : n * BlockSize + Len(d) <= MaxSize
        <3>1. MaxSize \in Nat \ {0} /\ n * BlockSize + 1 <= MaxSize
            BY <1>0, <1>3, <1>4
        <3> QED
            BY <3>1, OneByte
    <2>4. n \in 0..MaxSize
        BY <1>0, <1>1, <1>2
    <2>5. CutLeft(TruncateShrink(new), blocks)
        BY <1>2, <2>1, <2>2, <2>3, <2>4 DEF CutLeft
    <2> QED
        BY <2>1, <2>5 DEF Cut
<1>10. CASE r # 0
    <2>1. TruncateShrink(new) = <<Cut(n), Header, PutData(n * BlockSize, part)>>
        BY <1>5, <1>8, <1>10, OneAndTwo
    <2>2. part \in Pieces(MaxSize) /\ n * BlockSize + Len(part) <= MaxSize
        <3>1. r <= Len(o)
            <4>1. CASE n + 1 < Len(blocks)
                <5>1. Len(o) = BlockSize
                    <6>1. n + 1 \in DOMAIN blocks
                        BY <1>1, <1>2
                    <6> QED
                        BY <1>3, <4>1, <6>1 DEF Whole
                <5> QED
                    BY <1>0, <1>1, <5>1
            <4>2. CASE n + 1 = Len(blocks)
                <5>1. PlainSize = n * BlockSize + Len(o)
                    <6>1. blocks # << >> /\ Len(blocks) - 1 = n
                        BY <1>1, <4>2
                    <6> QED
                        BY <1>3, <4>2, <6>1, SizeIs
                <5>2. n * BlockSize + r < n * BlockSize + Len(o)
                    BY <1>1, <5>1
                <5>3. r < Len(o)
                    <6>1. r \in Int /\ Len(o) \in Int /\ n * BlockSize \in Nat
                        BY <1>0, <1>1, <1>3, <1>4
                    <6> QED
                        BY <5>2, <6>1, LessByOffset
                <5> QED
                    BY <1>0, <1>1, <1>3, <5>3
            <4> QED
                BY <1>1, <1>2, <4>1, <4>2
        <3>2. part \in Seq(Values) /\ Len(part) = r
            BY <1>0, <1>1, <1>3, <3>1
        <3> HIDE DEF part
        <3>3. part \in [1..r -> Values] /\ r \in 1..MaxSize /\ n * BlockSize + r <= MaxSize
            BY <1>0, <1>1, <1>3, <1>4, <1>10, <3>1, <3>2, SMTT(20)
        <3> QED
            BY <1>0, <3>2, <3>3, PieceFrom
    <2> HIDE DEF part
    <2>3. n \in 0..MaxSize
        BY <1>0, <1>1, <1>2
    <2>4. CutLeft(TruncateShrink(new), blocks)
        BY <1>2, <2>1, <2>2, <2>3 DEF CutLeft
    <2> QED
        BY <1>10, <2>1, <2>4 DEF Cut, r
<1> QED
    BY <1>9, <1>10 DEF r

-----------------------------------------------------------------------------
(* What is left of a call                                                  *)

\* Steps of different kinds differ.
LEMMA StepKinds ==
    /\ Header.do = "header" /\ NewHeader.do = "newHeader" /\ CutAll.do = "cutAll"
    /\ \A n : Cut(n).do = "cut" /\ Cut(n).to = n /\ Stretch(n).do = "stretch" /\ Stretch(n).to = n
    /\ \A off, d : PutData(off, d).do = "put" /\ PutData(off, d).off = off /\ PutData(off, d).data = d
BY DEF Header, NewHeader, CutAll, Cut, Stretch, PutData

\* Length, head and tail of short tuples.
LEMMA Tuples ==
    \A a, b, c, d :
        /\ Len(<<a>>) = 1 /\ Head(<<a>>) = a /\ <<a>> # << >>
        /\ Len(<<a, b>>) = 2 /\ Head(<<a, b>>) = a /\ Tail(<<a, b>>) = <<b>> /\ <<a, b>> # << >>
        /\ Len(<<a, b, c>>) = 3 /\ Head(<<a, b, c>>) = a /\ Tail(<<a, b, c>>) = <<b, c>> /\ <<a, b, c>> # << >>
        /\ Len(<<a, b, c, d>>) = 4 /\ Head(<<a, b, c, d>>) = a /\ Tail(<<a, b, c, d>>) = <<b, c, d>>
        /\ <<a, b, c, d>> # << >>
OBVIOUS

\* The kinds of calls that can make each change, what the change is, and what comes after.
LEMMA HeaderNext ==
    ASSUME CallShape, call.op \in Calls, NextIs("header")
    PROVE  /\ call.op \in {"write", "grow", "shrink"} /\ Len(call.todo) # 1 /\ call.todo # << >>
           /\ Tail(call.todo) # << >> /\ Head(Tail(call.todo)).do = "put"
           /\ \/ PutLeft(Tail(call.todo), blocks) /\ Len(Tail(call.todo)) = 1
              \/ call.op = "grow" /\ PadLeft(Tail(call.todo), blocks) /\ blocks # << >>
<1>1. ASSUME PutLeft(call.todo, blocks)
      PROVE  /\ Len(call.todo) # 1 /\ Tail(call.todo) # << >> /\ Head(Tail(call.todo)).do = "put"
             /\ PutLeft(Tail(call.todo), blocks) /\ Len(Tail(call.todo)) = 1
    <2>1. PICK off \in 0..MaxSize, d \in Pieces(MaxSize) :
            /\ off + Len(d) <= MaxSize /\ Gapless(blocks, off)
            /\ call.todo \in {<<Header, PutData(off, d)>>, <<PutData(off, d)>>}
        BY <1>1 DEF PutLeft
    <2>2. call.todo = <<Header, PutData(off, d)>>
        BY <2>1, StepKinds, Tuples DEF NextIs
    <2>3. Tail(call.todo) = <<PutData(off, d)>>
        BY <2>2, Tuples
    <2>4. PutLeft(Tail(call.todo), blocks)
        BY <2>1, <2>3 DEF PutLeft
    <2> QED
        BY <2>2, <2>3, <2>4, StepKinds, Tuples
<1>2. ASSUME PadLeft(call.todo, blocks)
      PROVE  /\ Len(call.todo) # 1 /\ Tail(call.todo) # << >> /\ Head(Tail(call.todo)).do = "put"
             /\ PadLeft(Tail(call.todo), blocks) /\ blocks # << >>
    <2>1. PICK off \in 0..MaxSize, d \in Pieces(MaxSize), end \in 0..MaxSize, n \in 1..MaxSize :
            /\ Padding(blocks, off, d) /\ end < MaxSize /\ n * BlockSize <= MaxSize
            /\ call.todo \in {<<Header, PutData(off, d), Header, PutData(end, <<Zero>>)>>,
                              <<PutData(off, d), Header, PutData(end, <<Zero>>)>>,
                              <<Header, PutData(off, d), Stretch(n)>>,
                              <<PutData(off, d), Stretch(n)>>}
        BY <1>2 DEF PadLeft
    <2>2. call.todo \in {<<Header, PutData(off, d), Header, PutData(end, <<Zero>>)>>,
                         <<Header, PutData(off, d), Stretch(n)>>}
        BY <2>1, StepKinds, Tuples DEF NextIs
    <2>3. /\ Tail(call.todo) \in {<<PutData(off, d), Header, PutData(end, <<Zero>>)>>,
                                  <<PutData(off, d), Stretch(n)>>}
          /\ Len(call.todo) # 1 /\ Tail(call.todo) # << >> /\ Head(Tail(call.todo)).do = "put"
        <3>1. CASE call.todo = <<Header, PutData(off, d), Header, PutData(end, <<Zero>>)>>
            BY <3>1, StepKinds, Tuples
        <3>2. CASE call.todo = <<Header, PutData(off, d), Stretch(n)>>
            BY <3>2, StepKinds, Tuples
        <3> QED
            BY <2>2, <3>1, <3>2
    <2>4. PadLeft(Tail(call.todo), blocks)
        BY <2>1, <2>3 DEF PadLeft
    <2>5. blocks # << >>
        <3>1. off \in Nat
            BY FileContentAssumption
        <3>2. BlockNo(off) \in Nat
            BY <3>1, BlockOf
        <3> QED
            BY <2>1, <3>2 DEF Padding
    <2> QED
        BY <2>3, <2>4, <2>5
<1>3. ~StretchLeft(call.todo, blocks, header) /\ ~CutLeft(call.todo, blocks) /\ call.op # "empty"
    BY StepKinds, Tuples DEF NextIs, StretchLeft, CutLeft, CallShape
<1> QED
    BY <1>1, <1>2, <1>3 DEF CallShape, Calls, NextIs

\* When data is to be put next: it fits, leaves no gap, and what follows is not another put.
LEMMA PutNext ==
    ASSUME CallShape, call.op \in Calls, NextIs("put")
    PROVE  \E off \in 0..MaxSize, d \in Pieces(MaxSize) :
            /\ Head(call.todo) = PutData(off, d) /\ off + Len(d) <= MaxSize /\ Gapless(blocks, off)
            /\ call.op \in {"write", "grow", "shrink"}
            /\ \/ Len(call.todo) = 1
               \/ /\ call.op = "grow" /\ Padding(blocks, off, d) /\ blocks # << >> /\ Len(call.todo) # 1
                  /\ Tail(call.todo) # << >> /\ Head(Tail(call.todo)).do # "put"
                  /\ \A bs : AllFull(bs) /\ header \in IDs =>
                        PutLeft(Tail(call.todo), bs) \/ StretchLeft(Tail(call.todo), bs, header)
<1>1. ASSUME PutLeft(call.todo, blocks)
      PROVE  \E off \in 0..MaxSize, d \in Pieces(MaxSize) :
                /\ Head(call.todo) = PutData(off, d) /\ off + Len(d) <= MaxSize /\ Gapless(blocks, off)
                /\ Len(call.todo) = 1
    <2>1. PICK off \in 0..MaxSize, d \in Pieces(MaxSize) :
            /\ off + Len(d) <= MaxSize /\ Gapless(blocks, off)
            /\ call.todo \in {<<Header, PutData(off, d)>>, <<PutData(off, d)>>}
        BY <1>1 DEF PutLeft
    <2>2. call.todo = <<PutData(off, d)>>
        BY <2>1, StepKinds, Tuples DEF NextIs
    <2> QED
        BY <2>1, <2>2, Tuples
<1>2. ASSUME PadLeft(call.todo, blocks), call.op = "grow"
      PROVE  \E off \in 0..MaxSize, d \in Pieces(MaxSize) :
                /\ Head(call.todo) = PutData(off, d) /\ off + Len(d) <= MaxSize /\ Gapless(blocks, off)
                /\ Padding(blocks, off, d) /\ blocks # << >> /\ Len(call.todo) # 1
                /\ Tail(call.todo) # << >> /\ Head(Tail(call.todo)).do # "put"
                /\ \A bs : AllFull(bs) /\ header \in IDs =>
                      PutLeft(Tail(call.todo), bs) \/ StretchLeft(Tail(call.todo), bs, header)
    <2>1. PICK off \in 0..MaxSize, d \in Pieces(MaxSize), end \in 0..MaxSize, n \in 1..MaxSize :
            /\ Padding(blocks, off, d) /\ end < MaxSize /\ n * BlockSize <= MaxSize
            /\ call.todo \in {<<Header, PutData(off, d), Header, PutData(end, <<Zero>>)>>,
                              <<PutData(off, d), Header, PutData(end, <<Zero>>)>>,
                              <<Header, PutData(off, d), Stretch(n)>>,
                              <<PutData(off, d), Stretch(n)>>}
        BY <1>2 DEF PadLeft
    <2>2. call.todo \in {<<PutData(off, d), Header, PutData(end, <<Zero>>)>>,
                         <<PutData(off, d), Stretch(n)>>}
        BY <2>1, StepKinds, Tuples DEF NextIs
    <2>3. /\ Tail(call.todo) \in {<<Header, PutData(end, <<Zero>>)>>, <<Stretch(n)>>}
          /\ Len(call.todo) # 1 /\ Head(call.todo) = PutData(off, d)
          /\ Tail(call.todo) # << >> /\ Head(Tail(call.todo)).do # "put"
        <3>1. CASE call.todo = <<PutData(off, d), Header, PutData(end, <<Zero>>)>>
            BY <3>1, StepKinds, Tuples
        <3>2. CASE call.todo = <<PutData(off, d), Stretch(n)>>
            BY <3>2, StepKinds, Tuples
        <3> QED
            BY <2>2, <3>1, <3>2
    <2>4. BlockNo(off) \in Nat
        <3>1. off \in Nat
            BY FileContentAssumption
        <3> QED
            BY <3>1, BlockOf
    <2>5. blocks # << >> /\ Gapless(blocks, off) /\ off + Len(d) <= MaxSize
        BY <2>1, <2>4 DEF Padding, Gapless
    <2>6. ASSUME NEW bs, AllFull(bs), header \in IDs
          PROVE  PutLeft(Tail(call.todo), bs) \/ StretchLeft(Tail(call.todo), bs, header)
        <3>1. CASE Tail(call.todo) = <<Header, PutData(end, <<Zero>>)>>
            <4>1. <<Zero>> \in Pieces(MaxSize) /\ end + Len(<<Zero>>) <= MaxSize
                <5>1. MaxSize \in Nat \ {0} /\ end + 1 <= MaxSize
                    BY <2>1, FileContentAssumption
                <5> QED
                    BY <5>1, OneByte
            <4> QED
                BY <2>6, <3>1, <4>1 DEF PutLeft, Gapless
        <3>2. CASE Tail(call.todo) = <<Stretch(n)>>
            BY <2>1, <2>6, <3>2 DEF StretchLeft
        <3> QED
            BY <2>3, <3>1, <3>2
    <2> QED
        BY <2>1, <2>3, <2>5, <2>6
<1>3. ~StretchLeft(call.todo, blocks, header) /\ ~CutLeft(call.todo, blocks) /\ call.op # "empty"
    BY StepKinds, Tuples DEF NextIs, StretchLeft, CutLeft, CallShape
<1>4. CASE PutLeft(call.todo, blocks)
    BY <1>1, <1>3, <1>4 DEF Calls
<1>5. CASE PadLeft(call.todo, blocks) /\ call.op = "grow"
    BY <1>2, <1>5
<1> QED
    BY <1>3, <1>4, <1>5 DEF CallShape, Calls, NextIs

\* When a header is to be made next: the file is empty and is stretched afterwards.
LEMMA NewHeaderNext ==
    ASSUME CallShape, call.op \in Calls, NextIs("newHeader")
    PROVE  /\ call.op = "grow" /\ blocks = << >> /\ Len(call.todo) = 2
           /\ Tail(call.todo) # << >> /\ Head(Tail(call.todo)).do = "stretch"
           /\ \A id \in IDs : StretchLeft(Tail(call.todo), blocks, id)
<1>1. ~PutLeft(call.todo, blocks) /\ ~PadLeft(call.todo, blocks) /\ ~CutLeft(call.todo, blocks)
      /\ call.op # "empty"
    BY StepKinds, Tuples DEF NextIs, PutLeft, PadLeft, CutLeft, CallShape
<1>2. call.op = "grow" /\ StretchLeft(call.todo, blocks, header)
    BY <1>1 DEF CallShape, Calls
<1>3. PICK n \in 1..MaxSize :
        /\ n * BlockSize <= MaxSize /\ AllFull(blocks)
        /\ \/ call.todo = <<Stretch(n)>> /\ header \in IDs
           \/ call.todo = <<NewHeader, Stretch(n)>> /\ blocks = << >>
    BY <1>2 DEF StretchLeft
<1>4. call.todo = <<NewHeader, Stretch(n)>> /\ blocks = << >>
    BY <1>3, StepKinds, Tuples DEF NextIs
<1>5. Tail(call.todo) = <<Stretch(n)>> /\ Len(call.todo) = 2
    BY <1>4, Tuples
<1>6. ASSUME NEW id \in IDs PROVE StretchLeft(Tail(call.todo), blocks, id)
    BY <1>3, <1>5 DEF StretchLeft
<1> QED
    BY <1>2, <1>4, <1>5, <1>6, StepKinds, Tuples

\* When the file is to be stretched next: it has a header and its blocks are full.
LEMMA StretchNext ==
    ASSUME CallShape, call.op \in Calls, NextIs("stretch")
    PROVE  /\ call.op = "grow" /\ Len(call.todo) = 1 /\ header \in IDs /\ AllFull(blocks)
           /\ \E n \in 1..MaxSize : n * BlockSize <= MaxSize /\ Head(call.todo).to = n
<1>1. ~PutLeft(call.todo, blocks) /\ ~PadLeft(call.todo, blocks) /\ ~CutLeft(call.todo, blocks)
      /\ call.op # "empty"
    BY StepKinds, Tuples DEF NextIs, PutLeft, PadLeft, CutLeft, CallShape
<1>2. call.op = "grow" /\ StretchLeft(call.todo, blocks, header)
    BY <1>1 DEF CallShape, Calls
<1>3. PICK n \in 1..MaxSize :
        /\ n * BlockSize <= MaxSize /\ AllFull(blocks)
        /\ \/ call.todo = <<Stretch(n)>> /\ header \in IDs
           \/ call.todo = <<NewHeader, Stretch(n)>> /\ blocks = << >>
    BY <1>2 DEF StretchLeft
<1>4. call.todo = <<Stretch(n)>> /\ header \in IDs
    BY <1>3, StepKinds, Tuples DEF NextIs
<1> QED
    BY <1>2, <1>3, <1>4, StepKinds, Tuples

\* When blocks are to be cut next: there are some, and a rest is read and written back.
LEMMA CutNext ==
    ASSUME CallShape, call.op \in Calls, NextIs("cut")
    PROVE  /\ call.op = "shrink" /\ header \in IDs
           /\ \E n \in 0..MaxSize :
                /\ n < Len(blocks) /\ Head(call.todo).to = n
                /\ \/ n > 0 /\ Len(call.todo) = 1
                   \/ /\ Len(call.todo) = 3 /\ files[call.h].id = header
                      /\ Len(Tail(call.todo)) = 2 /\ Tail(call.todo) # << >> /\ Head(Tail(call.todo)).do = "header"
                      /\ \A bs : AllFull(bs) => PutLeft(Tail(call.todo), bs)
<1>1. ~PutLeft(call.todo, blocks) /\ ~PadLeft(call.todo, blocks) /\ ~StretchLeft(call.todo, blocks, header)
      /\ call.op # "empty"
    BY StepKinds, Tuples DEF NextIs, PutLeft, PadLeft, StretchLeft, CallShape
<1>2. /\ call.op = "shrink" /\ CutLeft(call.todo, blocks) /\ header \in IDs
      /\ Len(call.todo) # 1 => files[call.h].id = header
    BY <1>1 DEF CallShape, Calls
<1>3. PICK n \in 0..MaxSize, d \in Pieces(MaxSize) :
        /\ n < Len(blocks) /\ n * BlockSize + Len(d) <= MaxSize
        /\ \/ n > 0 /\ call.todo = <<Cut(n)>>
           \/ call.todo = <<Cut(n), Header, PutData(n * BlockSize, d)>>
    BY <1>2 DEF CutLeft
<1>4. CASE n > 0 /\ call.todo = <<Cut(n)>>
    BY <1>2, <1>3, <1>4, StepKinds, Tuples
<1>5. CASE call.todo = <<Cut(n), Header, PutData(n * BlockSize, d)>>
    <2>1. Tail(call.todo) = <<Header, PutData(n * BlockSize, d)>> /\ Len(call.todo) = 3
          /\ Head(call.todo).to = n /\ Len(Tail(call.todo)) = 2 /\ Head(Tail(call.todo)) = Header
          /\ Tail(call.todo) # << >>
        BY <1>5, StepKinds, Tuples
    <2>2. n * BlockSize \in 0..MaxSize
        <3>1. n \in Nat /\ MaxSize \in Nat /\ n * BlockSize \in Nat /\ Len(d) \in Nat
            BY FileContentAssumption, TimesNat, PieceIs
        <3> QED
            BY <1>3, <3>1
    <2>3. ASSUME NEW bs, AllFull(bs) PROVE PutLeft(Tail(call.todo), bs)
        BY <1>3, <2>1, <2>2, <2>3 DEF PutLeft, Gapless
    <2> QED
        BY <1>2, <1>3, <2>1, <2>3, StepKinds, SMTT(20)
<1> QED
    BY <1>2, <1>3, <1>4, <1>5

-----------------------------------------------------------------------------
(* Every step keeps the invariant                                          *)

FilesType == [Handles -> [mode : {"closed", "read", "write"}, id : IDs \cup {None}]]

\* None and Blank are not file IDs.
LEMMA NoneIsNoID == None \notin IDs /\ Blank \notin IDs /\ Blank # None /\ None = 0
BY FileContentAssumption DEF None, IDs, Blank

\* The file when a call is over.
LEMMA EndsCall ==
    ASSUME header' \in IDs \cup {None}, blocks' \in Seq(Block), files' \in FilesType, alive' = TRUE,
           Whole(blocks'), EndsIn(blocks'), blocks' # << >> => header' \in IDs,
           \A i \in DOMAIN blocks' : blocks'[i].id \in {header', Hole},
           \A h \in Handles : files'[h].id \in {None, header'},
           blocks' = << >> => \A h \in Handles : files'[h].id = None,
           NEW r \in {"ok", "failed"}, call' = Done(r)
    PROVE  IInv'
<1>1. /\ call'.h = None /\ call'.op = "none" /\ call'.todo = << >> /\ call'.empty = FALSE
      /\ call'.old = << >> /\ call'.result = r
      /\ DOMAIN call' = {"h", "op", "todo", "empty", "old", "result"}
    BY DEF Done
<1>2. Shaped'
    <2>1. << >> \in Seq(Values) /\ Len(<< >>) = 0 /\ 0 <= MaxSize
        BY FileContentAssumption
    <2> QED
        BY <1>1, <2>1 DEF Shaped, FilesType
<1>3. CallShape'
    BY <1>1 DEF CallShape, Calls
<1>4. IdInv'
    BY <1>1 DEF IdInv, NextIs
<1> QED
    BY <1>2, <1>3, <1>4 DEF IInv

\* A call that fails, and changes nothing.
LEMMA FailsCleanly ==
    ASSUME IInv, Fail, call.op # "stuck", UNCHANGED <<header, blocks, files, alive>>,
           blocks = << >> => \A h \in Handles : files[h].id = None
    PROVE  IInv'
<1>1. call' = Done("failed") /\ header' = header /\ blocks' = blocks /\ files' = files /\ alive' = alive
    BY DEF Fail, End
<1> QED
    BY <1>1, EndsCall DEF IInv, Shaped, IdInv, FilesType

\* What every step of a call in progress knows.
LEMMA InCall ==
    ASSUME IInv, call.todo # << >>
    PROVE  call.op \in Calls /\ call.op \notin {"none", "stuck"} /\ call.h \in Handles
BY DEF IInv, Shaped, CallShape, Calls

\* Between calls every cached ID is the one in the header, and an empty file has none cached.
LEMMA IdleFacts ==
    ASSUME IInv, Idle
    PROVE  /\ call.todo = << >> /\ ~call.empty
           /\ \A h \in Handles : files[h].id \in {None, header}
           /\ blocks = << >> => \A h \in Handles : files[h].id = None
BY DEF IInv, Idle, CallShape, IdInv, NextIs

\* The ID a call works with, FileID, is the one in the header.
LEMMA CachedIs ==
    ASSUME IInv, NEW h \in Handles
    PROVE  /\ files[h].id \in IDs \cup {None} /\ files[h].mode \in {"closed", "read", "write"}
           /\ FileID(h) \in IDs /\ call.op # "stuck" => FileID(h) = header
           /\ FileID(h) # Blank
           /\ FileID(h) \in IDs => files[h].id \in IDs \/ blocks # << >>
           /\ FileID(h) = None => files[h].id = None /\ blocks = << >>
<1>1. files[h].id \in IDs \cup {None} /\ files[h].mode \in {"closed", "read", "write"}
    BY DEF IInv, Shaped
<1>2. header \in IDs \cup {None} /\ (blocks # << >> => header \in IDs)
      /\ (call.op # "stuck" => files[h].id \in {None, header})
    BY DEF IInv, Shaped, IdInv
<1> QED
    BY <1>1, <1>2, NoneIsNoID DEF FileID

\* Caching an ID in one handle leaves the others alone.
LEMMA SetID ==
    ASSUME files \in FilesType, NEW h \in Handles, NEW id \in IDs, files' = [files EXCEPT ![h].id = id]
    PROVE  files' \in FilesType /\ files'[h].id = id /\ \A g \in Handles \ {h} : files'[g] = files[g]
BY DEF FilesType

\* A call that begins keeps the invariant if what is left to do has the right shape.
LEMMA BeginIs ==
    ASSUME IInv, Ready, NEW h \in Handles, NEW op \in Calls, NEW r, NEW todo, Begin(h, op, r, todo),
           UNCHANGED <<header, blocks, alive>>, files' \in FilesType,
           \A g \in Handles : files'[g].id \in {None, header},
           blocks = << >> => \A g \in Handles : files'[g].id = None,
           ~(todo # << >> /\ Head(todo).do = "put")
    PROVE  /\ call'.op = op /\ call'.h = h /\ call'.todo = todo /\ ~NextIs("put")'
           /\ CallShape' => IInv'
<1>1. /\ call'.op = op /\ call'.h = h /\ call'.todo = todo /\ call'.old = Content
      /\ call'.empty = call.empty /\ call'.result = call.result /\ DOMAIN call' = DOMAIN call
    BY DEF Begin, IInv, Shaped
<1>2. ~NextIs("put")'
    BY <1>1 DEF NextIs
<1>3. Content \in Seq(Values) /\ Len(Content) <= MaxSize
    <2>1. PlainSize \in 0..MaxSize /\ MaxSize \in Nat
        BY SizeIs, FileContentAssumption DEF IInv, Shaped
    <2> QED
        BY <2>1, ContentIs DEF IInv, Shaped
<1>4. Shaped'
    BY <1>1, <1>3 DEF IInv, Shaped, FilesType
<1>5. ~call.empty
    BY IdleFacts DEF Ready
<1>6. IdInv'
    BY <1>1, <1>2, <1>5 DEF IInv, IdInv, Calls
<1>7. Whole(blocks)' /\ EndsIn(blocks)'
    BY DEF IInv, Whole, EndsIn
<1> QED
    BY <1>1, <1>2, <1>4, <1>6, <1>7 DEF IInv

-----------------------------------------------------------------------------
(* The beginning of calls                                                  *)

\* gcf_open_read_mode and gcf_open_write_mode keep the invariant.
LEMMA OpenKeeps ==
    ASSUME IInv, NEW h \in Handles, NEW mode \in {"read", "write"}, Open(h, mode)
    PROVE  IInv'
<1>1. files' \in FilesType /\ \A g \in Handles : files'[g].id = files[g].id
    BY DEF Open, IInv, Shaped, FilesType
<1>2. header' = header /\ blocks' = blocks /\ call' = call /\ alive' = alive
    BY DEF Open
<1>3. CallShape'
    BY <1>1, <1>2, IdleFacts DEF IInv, CallShape, Open, Ready, Idle, Calls
<1> QED
    BY <1>1, <1>2, <1>3 DEF IInv, Shaped, FilesType, IdInv, NextIs, Open, Ready, Idle

\* gcf_close_file keeps the invariant.
LEMMA CloseKeeps ==
    ASSUME IInv, NEW h \in Handles, Close(h)
    PROVE  IInv'
<1>1. files' \in FilesType /\ files'[h].id = None /\ \A g \in Handles \ {h} : files'[g].id = files[g].id
    BY DEF Close, IInv, Shaped, FilesType, Closed
<1>2. header' = header /\ blocks' = blocks /\ call' = call /\ alive' = alive
    BY DEF Close
<1>3. CallShape'
    BY <1>1, <1>2, IdleFacts DEF IInv, CallShape, Close, Ready, Idle, Calls
<1>4. /\ \A g \in Handles : files'[g].id \in {None, header}
      /\ blocks = << >> => \A g \in Handles : files'[g].id = None
    BY <1>1, IdleFacts DEF Close, Ready
<1>5. IdInv'
    BY <1>2, <1>4, IdleFacts DEF IInv, IdInv, NextIs, Close, Ready, Idle
<1>6. Shaped' /\ Whole(blocks') /\ EndsIn(blocks')
    BY <1>1, <1>2 DEF IInv, Shaped, FilesType
<1> QED
    BY <1>3, <1>5, <1>6 DEF IInv

\* doRead keeps the invariant; it may cache the ID in the header.
LEMMA ReadKeeps ==
    ASSUME IInv, NEW h \in Handles, Read(h)
    PROVE  IInv'
<1>1. Idle /\ FileID(h) \in IDs /\ files' = [files EXCEPT ![h].id = FileID(h)]
      /\ header' = header /\ blocks' = blocks /\ call' = call /\ alive' = alive
    BY DEF Read, Ready
<1>2. FileID(h) = header /\ blocks # << >>
    <2>1. files[h].id \in IDs => blocks # << >>
        BY <1>1, IdleFacts, NoneIsNoID
    <2> QED
        BY <1>1, <2>1, CachedIs DEF Idle
<1>3. files' \in FilesType /\ files'[h].id = header /\ \A g \in Handles \ {h} : files'[g] = files[g]
    BY <1>1, <1>2, SetID DEF IInv, Shaped, FilesType
<1>4. CallShape'
    BY <1>1, IdleFacts DEF IInv, CallShape, Idle, Calls
<1> QED
    BY <1>1, <1>2, <1>3, <1>4 DEF IInv, Shaped, FilesType, IdInv, NextIs, Idle

\* gcf_write_file begins.
LEMMA WriteKeeps ==
    ASSUME IInv, Careful, NEW h \in Handles, NEW off \in 0..MaxSize, NEW len \in MinBytes..MaxSize,
           NEW v \in Values, Write(h, off, [i \in 1..len |-> v])
    PROVE  IInv'
<1> DEFINE d == [i \in 1..len |-> v]
<1>1. len \in 1..MaxSize
    BY DEF Careful
<1>2. d \in Pieces(MaxSize)
    BY <1>1, SameBytes
<1> HIDE DEF d
<1>3. Ready /\ off + Len(d) <= MaxSize /\ Begin(h, "write", Request("write", off, d), DoWrite(off, d))
      /\ header' = header /\ blocks' = blocks /\ files' = files /\ alive' = alive
    BY DEF Write, d
<1>4. Gapless(blocks, off)
    <2>1. PlainSize % BlockSize = 0 \/ BlockNo(off) < Len(blocks)
        BY DEF Write, Careful
    <2> QED
        BY <2>1, SizeAndLast DEF Gapless, IInv, Shaped
<1>5. ~(DoWrite(off, d) # << >> /\ Head(DoWrite(off, d)).do = "put")
    BY StepKinds, Tuples DEF DoWrite
<1>6. /\ call'.op = "write" /\ call'.h = h /\ call'.todo = DoWrite(off, d) /\ ~NextIs("put")'
      /\ CallShape' => IInv'
    <2>1. files' \in FilesType /\ \A g \in Handles : files'[g].id \in {None, header}
        BY <1>3, IdleFacts DEF Ready, IInv, Shaped, FilesType
    <2>2. blocks = << >> => \A g \in Handles : files'[g].id = None
        BY <1>3, IdleFacts DEF Ready
    <2>3. "write" \in Calls
        BY DEF Calls
    <2> QED
        BY <1>3, <1>5, <2>1, <2>2, <2>3, BeginIs
<1>7. PutLeft(call'.todo, blocks')
    BY <1>2, <1>3, <1>4, <1>6 DEF PutLeft, DoWrite
<1>8. CallShape'
    BY <1>6, <1>7 DEF CallShape
<1> QED
    BY <1>6, <1>8

\* gcf_truncate to zero begins.
LEMMA TruncateToZeroKeeps ==
    ASSUME IInv, Careful, NEW h \in Handles, TruncateToZero(h)
    PROVE  IInv'
<1>1. Ready /\ (\A i \in Handles : files[i].id = None) /\ Begin(h, "empty", Request("resize", 0, << >>), <<CutAll>>)
      /\ header' = header /\ blocks' = blocks /\ files' = files /\ alive' = alive
    BY DEF TruncateToZero, Careful
<1>2. ~(<<CutAll>> # << >> /\ Head(<<CutAll>>).do = "put") /\ "empty" \in Calls
    BY StepKinds, Tuples DEF Calls
<1>3. call'.op = "empty" /\ call'.h = h /\ call'.todo = <<CutAll>> /\ (CallShape' => IInv')
    BY <1>1, <1>2, BeginIs DEF IInv, Shaped, FilesType
<1>4. CallShape'
    BY <1>1, <1>3 DEF CallShape
<1> QED
    BY <1>3, <1>4

\* gcf_truncate to a larger size begins.
LEMMA TruncateUpKeeps ==
    ASSUME IInv, Careful, NEW h \in Handles, NEW n \in 1..MaxSize, TruncateUp(h, n)
    PROVE  IInv'
<1> DEFINE todo == TruncateGrowFile(PlainSize, n)
<1>1. Ready /\ n > PlainSize /\ Begin(h, "grow", Request("resize", n, << >>), todo)
      /\ header' = header /\ blocks' = blocks /\ files' = files /\ alive' = alive
    BY DEF TruncateUp
<1>2. /\ PutLeft(todo, blocks) \/ PadLeft(todo, blocks) \/ StretchLeft(todo, blocks, header)
      /\ ~(todo # << >> /\ Head(todo).do = "put")
    <2>1. blocks \in Seq(Block) /\ Whole(blocks) /\ EndsIn(blocks) /\ (blocks # << >> => header \in IDs)
        BY DEF IInv, Shaped, IdInv
    <2> QED
        BY <1>1, <2>1, GrowShape
<1> HIDE DEF todo
<1>3. call'.op = "grow" /\ call'.h = h /\ call'.todo = todo /\ (CallShape' => IInv')
    <2>1. files' \in FilesType /\ \A g \in Handles : files'[g].id \in {None, header}
        BY <1>1, IdleFacts DEF Ready, IInv, Shaped, FilesType
    <2>2. blocks = << >> => \A g \in Handles : files'[g].id = None
        BY <1>1, IdleFacts DEF Ready
    <2>3. "grow" \in Calls
        BY DEF Calls
    <2> QED
        BY <1>1, <1>2, <2>1, <2>2, <2>3, BeginIs
<1>4. CallShape'
    BY <1>1, <1>2, <1>3 DEF CallShape
<1> QED
    BY <1>3, <1>4

\* gcf_truncate to a smaller size begins.
LEMMA TruncateDownKeeps ==
    ASSUME IInv, Careful, NEW h \in Handles, NEW n \in 1..MaxSize, TruncateDown(h, n)
    PROVE  IInv'
<1> DEFINE todo == TruncateShrink(n)
<1>1. /\ Ready /\ n < PlainSize /\ Begin(h, "shrink", Request("resize", n, << >>), todo)
      /\ header' = header /\ blocks' = blocks /\ alive' = alive
      /\ IF n % BlockSize = 0 THEN files' = files
         ELSE FileID(h) \in IDs /\ files' = [files EXCEPT ![h].id = FileID(h)]
    BY DEF TruncateDown
<1>2. CutLeft(todo, blocks) /\ (n % BlockSize = 0 => Len(todo) = 1) /\ ~(todo # << >> /\ Head(todo).do = "put")
    BY <1>1, ShrinkShape DEF IInv, Shaped
<1> HIDE DEF todo
<1>3. blocks # << >> /\ header \in IDs
    <2>1. PlainSize # 0
        <3>1. PlainSize \in Nat /\ n \in Nat /\ n > 0
            BY SizeIs, FileContentAssumption DEF IInv, Shaped
        <3> QED
            BY <1>1, <3>1
    <2> QED
        BY <2>1, SizeIs DEF IInv, Shaped, IdInv
<1>4. /\ files' \in FilesType /\ \A g \in Handles : files'[g].id \in {None, header}
      /\ n % BlockSize # 0 => files'[h].id = header
    <2>1. \A g \in Handles : files[g].id \in {None, header}
        BY <1>1, IdleFacts DEF Ready
    <2>2. CASE n % BlockSize = 0
        BY <1>1, <2>1, <2>2 DEF IInv, Shaped, FilesType
    <2>3. CASE n % BlockSize # 0
        <3>1. FileID(h) = header
            BY <1>1, <2>3, CachedIs DEF Ready, Idle
        <3>2. files' = [files EXCEPT ![h].id = header]
            BY <1>1, <2>3, <3>1
        <3>3. files' \in FilesType /\ files'[h].id = header /\ \A g \in Handles \ {h} : files'[g] = files[g]
            BY <1>3, <3>2, SetID DEF IInv, Shaped, FilesType
        <3> QED
            BY <2>1, <3>3
    <2> QED
        BY <2>2, <2>3
<1>5. call'.op = "shrink" /\ call'.h = h /\ call'.todo = todo /\ ~NextIs("put")' /\ (CallShape' => IInv')
    BY <1>1, <1>2, <1>3, <1>4, BeginIs DEF Calls
<1>6. CallShape'
    BY <1>1, <1>2, <1>3, <1>4, <1>5 DEF CallShape
<1> QED
    BY <1>5, <1>6

-----------------------------------------------------------------------------
(* The steps of calls                                                      *)

\* Advance leaves the rest of the steps, or ends the call.
LEMMA AdvanceIs ==
    ASSUME IInv, call.todo # << >>, Advance
    PROVE  /\ Len(call.todo) = 1 => call' = Done("ok") /\ request' = NoRequest
           /\ Len(call.todo) # 1 =>
                /\ call'.op = call.op /\ call'.h = call.h /\ call'.todo = Tail(call.todo)
                /\ call'.empty = call.empty /\ call'.old = call.old /\ call'.result = call.result
                /\ DOMAIN call' = DOMAIN call /\ request' = request
BY DEF Advance, End, IInv, Shaped

\* A call that goes on, to a change that is not a write.
LEMMA GoesOn ==
    ASSUME IInv, call.todo # << >>, header' \in IDs \cup {None}, blocks' \in Seq(Block),
           files' \in FilesType, alive' = TRUE, Whole(blocks'), EndsIn(blocks'),
           blocks' # << >> => header' \in IDs,
           \A i \in DOMAIN blocks' : blocks'[i].id \in {header', Hole},
           \A h \in Handles : files'[h].id \in {None, header'},
           call'.op = call.op, call'.h = call.h, call'.todo = Tail(call.todo),
           call'.old = call.old, call'.result = call.result, call'.empty \in BOOLEAN,
           DOMAIN call' = DOMAIN call
    PROVE  Shaped' /\ (CallShape' /\ IdInv' => IInv')
<1>1. Shaped'
    BY DEF IInv, Shaped, FilesType
<1> QED
    BY <1>1 DEF IInv

\* doWrite finds the ID cached or in the header.
LEMMA UseFileIDKeeps ==
    ASSUME IInv, UseFileID
    PROVE  IInv'
<1>1. /\ NextIs("header") /\ call.todo # << >> /\ FileID(call.h) \in IDs /\ Advance
      /\ files' = [files EXCEPT ![call.h].id = FileID(call.h)]
      /\ header' = header /\ blocks' = blocks /\ alive' = alive
    BY DEF UseFileID, Doing, CacheID, NextIs
<1>2. call.op \in Calls /\ call.op # "stuck" /\ call.h \in Handles
    BY <1>1, InCall
<1>3. /\ call.op \in {"write", "grow", "shrink"} /\ Len(call.todo) # 1
      /\ Tail(call.todo) # << >> /\ Head(Tail(call.todo)).do = "put"
      /\ \/ PutLeft(Tail(call.todo), blocks) /\ Len(Tail(call.todo)) = 1
         \/ call.op = "grow" /\ PadLeft(Tail(call.todo), blocks) /\ blocks # << >>
    BY <1>1, <1>2, HeaderNext DEF IInv
<1>4. FileID(call.h) = header /\ header \in IDs
    BY <1>1, <1>2, CachedIs
<1>5. files' \in FilesType /\ files'[call.h].id = header /\ \A g \in Handles \ {call.h} : files'[g] = files[g]
    BY <1>1, <1>2, <1>4, SetID DEF IInv, Shaped, FilesType
<1>6. \A g \in Handles : files'[g].id \in {None, header}
    BY <1>2, <1>5 DEF IInv, IdInv
<1>7. ~call.empty
    BY <1>1, <1>2 DEF IInv, IdInv, NextIs
<1>8. blocks # << >> \/ call.op = "shrink"
    <2> SUFFICES ASSUME blocks = << >>, call.op # "shrink" PROVE FALSE
        OBVIOUS
    <2>1. files[call.h].id = None
        BY <1>1, <1>2 DEF IInv, IdInv, NextIs
    <2> QED
        BY <1>1, <2>1, NoneIsNoID DEF FileID
<1>9. /\ call'.op = call.op /\ call'.h = call.h /\ call'.todo = Tail(call.todo)
      /\ call'.empty = call.empty /\ call'.old = call.old /\ call'.result = call.result
      /\ DOMAIN call' = DOMAIN call
    BY <1>1, <1>3, AdvanceIs
<1>10. Shaped' /\ (CallShape' /\ IdInv' => IInv')
    <2>1. call'.empty \in BOOLEAN
        BY <1>9 DEF IInv, Shaped
    <2> QED
        BY <1>1, <1>4, <1>5, <1>6, <1>9, <2>1, GoesOn DEF IInv, Shaped, IdInv
<1>11. CallShape'
    BY <1>1, <1>2, <1>3, <1>4, <1>5, <1>9 DEF IInv, CallShape, Calls
<1>12. IdInv'
    BY <1>1, <1>2, <1>3, <1>4, <1>5, <1>6, <1>7, <1>8, <1>9 DEF IInv, IdInv, NextIs
<1> QED
    BY <1>10, <1>11, <1>12

\* doWrite never meets a header that is all zero.
LEMMA BadHeaderNever ==
    ASSUME IInv, BadHeader
    PROVE  FALSE
<1>1. NextIs("header") /\ call.todo # << >> /\ FileID(call.h) = Blank
    BY DEF BadHeader, Doing, NextIs
<1> QED
    BY <1>1, InCall, CachedIs

\* A header is made for an empty file, whose ID no handle has.
LEMMA HeaderNeeded ==
    ASSUME IInv, NeedsHeader
    PROVE  /\ call.todo # << >> /\ call.op \in Calls /\ call.op # "stuck" /\ call.op # "shrink" /\ call.h \in Handles
           /\ blocks = << >> /\ \A h \in Handles : files[h].id = None
           /\ ~call.empty /\ (NextIs("newHeader") \/ NextIs("header")) /\ alive = TRUE
           /\ Doing("header") <=> NextIs("header")
<1>1. call.todo # << >> /\ (NextIs("newHeader") \/ (NextIs("header") /\ FileID(call.h) = None)) /\ alive = TRUE
      /\ (Doing("header") <=> NextIs("header"))
    BY DEF NeedsHeader, Doing, NextIs, IInv, Shaped
<1>2. call.op \in Calls /\ call.op # "stuck" /\ call.h \in Handles
    BY <1>1, InCall
<1>3. blocks = << >>
    <2>1. CASE NextIs("newHeader")
        BY <1>2, <2>1, NewHeaderNext DEF IInv
    <2>2. CASE NextIs("header") /\ FileID(call.h) = None
        BY <1>2, <2>2, CachedIs
    <2> QED
        BY <1>1, <2>1, <2>2
<1>4. call.op # "shrink"
    <2>1. CASE NextIs("newHeader")
        BY <1>2, <2>1, NewHeaderNext DEF IInv
    <2>2. CASE NextIs("header") /\ FileID(call.h) = None
        <3> SUFFICES ASSUME call.op = "shrink" PROVE FALSE
            OBVIOUS
        <3>1. Len(call.todo) # 1
            BY <1>2, <2>2, HeaderNext DEF IInv
        <3>2. files[call.h].id = header /\ header \in IDs
            BY <3>1 DEF IInv, CallShape
        <3> QED
            BY <1>2, <2>2, <3>2, CachedIs, NoneIsNoID
    <2> QED
        BY <1>1, <2>1, <2>2
<1>5. \A h \in Handles : files[h].id = None
    BY <1>1, <1>2, <1>3, <1>4 DEF IInv, IdInv, NextIs
<1>6. ~call.empty
    BY <1>1, <1>2 DEF IInv, IdInv, NextIs
<1> QED
    BY <1>1, <1>2, <1>3, <1>4, <1>5, <1>6

\* createHeader writes a header into an empty file.
LEMMA CreateHeaderKeeps ==
    ASSUME IInv, CreateHeader
    PROVE  IInv'
<1>1. PICK id \in IDs \ UsedIDs : header' = id /\ files' = [files EXCEPT ![call.h].id = id]
    BY DEF CreateHeader, CacheID
<1>2. NeedsHeader /\ blocks' = blocks /\ alive' = alive
      /\ call' = [call EXCEPT !.todo = Tail(@), !.empty = Doing("header")]
    BY DEF CreateHeader
<1>3. /\ call.todo # << >> /\ call.op \in Calls /\ call.op # "stuck" /\ call.op # "shrink" /\ call.h \in Handles
      /\ blocks = << >> /\ \A h \in Handles : files[h].id = None
      /\ NextIs("newHeader") \/ NextIs("header")
      /\ alive = TRUE /\ (Doing("header") <=> NextIs("header"))
    BY <1>2, HeaderNeeded
<1>4. /\ call'.op = call.op /\ call'.h = call.h /\ call'.todo = Tail(call.todo)
      /\ call'.empty = Doing("header") /\ call'.old = call.old /\ call'.result = call.result
      /\ DOMAIN call' = DOMAIN call
    BY <1>2 DEF IInv, Shaped
<1>5. files' \in FilesType /\ files'[call.h].id = id /\ \A g \in Handles \ {call.h} : files'[g] = files[g]
    BY <1>1, <1>3, SetID DEF IInv, Shaped, FilesType
<1>6. \A g \in Handles : files'[g].id \in {None, header'}
    BY <1>1, <1>3, <1>5
<1>7. Shaped' /\ (CallShape' /\ IdInv' => IInv')
    <2>1. call'.empty \in BOOLEAN
        BY <1>4 DEF Doing
    <2>2. Whole(blocks') /\ EndsIn(blocks') /\ blocks' \in Seq(Block) /\ alive' = TRUE /\ header' \in IDs
          /\ \A i \in DOMAIN blocks' : blocks'[i].id \in {header', Hole}
        BY <1>1, <1>2, <1>3 DEF IInv, Shaped
    <2> QED
        BY <1>3, <1>4, <1>5, <1>6, <2>1, <2>2, GoesOn
<1>8. CASE NextIs("header")
    <2>1. /\ call.op \in {"write", "grow"}
          /\ Tail(call.todo) # << >> /\ Head(Tail(call.todo)).do = "put"
          /\ PutLeft(Tail(call.todo), blocks) /\ Len(Tail(call.todo)) = 1
        BY <1>3, <1>8, HeaderNext DEF IInv
    <2>2. CallShape'
        BY <1>2, <1>3, <1>4, <2>1 DEF CallShape
    <2>3. IdInv'
        BY <1>1, <1>2, <1>3, <1>4, <1>5, <1>6, <1>8, <2>1 DEF IdInv, NextIs
    <2> QED
        BY <1>7, <2>2, <2>3
<1>9. CASE NextIs("newHeader")
    <2>1. /\ call.op = "grow" /\ Tail(call.todo) # << >> /\ Head(Tail(call.todo)).do = "stretch"
          /\ StretchLeft(Tail(call.todo), blocks, id)
        BY <1>1, <1>3, <1>9, NewHeaderNext DEF IInv
    <2>2. ~NextIs("header")
        BY <1>9 DEF NextIs
    <2>3. CallShape'
        BY <1>1, <1>2, <1>3, <1>4, <2>1 DEF CallShape
    <2>4. IdInv'
        BY <1>1, <1>2, <1>3, <1>4, <1>5, <1>6, <2>1, <2>2 DEF IdInv, NextIs
    <2> QED
        BY <1>7, <2>3, <2>4
<1> QED
    BY <1>3, <1>8, <1>9

\* createHeader finds the disk full.
LEMMA HeaderNoSpaceKeeps ==
    ASSUME IInv, HeaderNoSpace
    PROVE  IInv'
BY HeaderNeeded, FailsCleanly DEF HeaderNoSpace

\* What a step that puts data knows.
LEMMA PutFacts ==
    ASSUME IInv, Doing("put")
    PROVE  /\ NextIs("put") /\ call.todo # << >> /\ call.op \in Calls /\ call.op # "stuck" /\ call.h \in Handles
           /\ header \in IDs /\ files[call.h].id = header
           /\ blocks \in Seq(Block) /\ Whole(blocks) /\ EndsIn(blocks)
           /\ \A i \in DOMAIN blocks : blocks[i].id \in {header, Hole}
           /\ \A h \in Handles : files[h].id \in {None, header}
           /\ alive = TRUE /\ files \in FilesType
<1>1. NextIs("put") /\ call.todo # << >>
    BY DEF Doing, NextIs
<1> QED
    BY <1>1, InCall DEF IInv, Shaped, IdInv, FilesType

\* doWrite writes the blocks it has merged and encrypted.
LEMMA WriteBlocksKeeps ==
    ASSUME IInv, WriteBlocks
    PROVE  IInv'
<1>1. /\ NextIs("put") /\ call.todo # << >> /\ call.op \in Calls /\ call.op # "stuck" /\ call.h \in Handles
      /\ header \in IDs /\ files[call.h].id = header
      /\ blocks \in Seq(Block) /\ Whole(blocks) /\ EndsIn(blocks)
      /\ \A i \in DOMAIN blocks : blocks[i].id \in {header, Hole}
      /\ \A h \in Handles : files[h].id \in {None, header}
      /\ alive = TRUE /\ files \in FilesType
    BY PutFacts DEF WriteBlocks
<1>2. PICK off \in 0..MaxSize, d \in Pieces(MaxSize) :
        /\ Head(call.todo) = PutData(off, d) /\ off + Len(d) <= MaxSize /\ Gapless(blocks, off)
        /\ \/ Len(call.todo) = 1
           \/ /\ call.op = "grow" /\ Padding(blocks, off, d) /\ blocks # << >> /\ Len(call.todo) # 1
              /\ Tail(call.todo) # << >> /\ Head(Tail(call.todo)).do # "put"
              /\ \A bs : AllFull(bs) /\ header \in IDs =>
                    PutLeft(Tail(call.todo), bs) \/ StretchLeft(Tail(call.todo), bs, header)
    BY <1>1, PutNext DEF IInv
<1>3. /\ blocks' = Written(off, d, header) /\ header' = header /\ files' = files /\ alive' = alive /\ Advance
    BY <1>1, <1>2, NoneIsNoID, StepKinds DEF WriteBlocks, Step
<1>4. /\ blocks' \in Seq(Block) /\ blocks' # << >> /\ Whole(blocks') /\ EndsIn(blocks')
      /\ \A i \in DOMAIN blocks' : blocks'[i].id \in {header, Hole}
      /\ Padding(blocks, off, d) => AllFull(blocks')
    BY <1>1, <1>2, <1>3, WrittenIs
<1>5. CASE Len(call.todo) = 1
    <2>1. call' = Done("ok")
        BY <1>1, <1>3, <1>5, AdvanceIs
    <2> QED
        BY <1>1, <1>3, <1>4, <2>1, EndsCall
<1>6. CASE Len(call.todo) # 1
    <2>1. /\ call.op = "grow" /\ Padding(blocks, off, d) /\ blocks # << >>
          /\ Tail(call.todo) # << >> /\ Head(Tail(call.todo)).do # "put"
          /\ PutLeft(Tail(call.todo), blocks') \/ StretchLeft(Tail(call.todo), blocks', header)
        BY <1>1, <1>2, <1>4, <1>6
    <2>2. /\ call'.op = call.op /\ call'.h = call.h /\ call'.todo = Tail(call.todo)
          /\ call'.empty = call.empty /\ call'.old = call.old /\ call'.result = call.result
          /\ DOMAIN call' = DOMAIN call
        BY <1>1, <1>3, <1>6, AdvanceIs
    <2>3. Shaped' /\ (CallShape' /\ IdInv' => IInv')
        <3>1. call'.empty \in BOOLEAN
            BY <2>2 DEF IInv, Shaped
        <3> QED
            BY <1>1, <1>3, <1>4, <2>2, <3>1, GoesOn
    <2>4. CallShape'
        BY <1>1, <1>3, <2>1, <2>2 DEF CallShape
    <2>5. ~call.empty
        BY <1>1, <2>1 DEF IInv, IdInv
    <2>6. IdInv'
        BY <1>1, <1>3, <1>4, <2>1, <2>2, <2>5 DEF IdInv, NextIs
    <2> QED
        BY <2>3, <2>4, <2>6
<1> QED
    BY <1>5, <1>6

\* There is always something to merge with that opens, or nothing.
LEMMA AlwaysMergeable ==
    ASSUME IInv, Doing("put")
    PROVE  Mergeable
<1>1. /\ header \in IDs /\ files[call.h].id = header /\ blocks \in Seq(Block)
      /\ \A i \in DOMAIN blocks : blocks[i].id \in {header, Hole}
      /\ call.todo # << >> /\ call.op \in Calls /\ NextIs("put")
    BY PutFacts
<1>2. PICK off \in 0..MaxSize, d \in Pieces(MaxSize) : Head(call.todo) = PutData(off, d)
    BY <1>1, PutNext DEF IInv
<1>3. ASSUME NEW n \in Touched(Step.off, Step.data) PROVE Readable(n, files[call.h].id)
    <2>1. Step.off = off /\ Step.data = d
        BY <1>2, StepKinds DEF Step
    <2>2. n \in Nat
        <3>1. d \in Seq(Values) /\ Len(d) > 0 /\ off \in Nat
            BY FileContentAssumption, PieceIs
        <3> QED
            BY <1>3, <2>1, <3>1, PieceFits
    <2>3. n < Len(blocks) => n + 1 \in DOMAIN blocks
        BY <1>1, <2>2
    <2> QED
        BY <1>1, <2>3 DEF Readable, Opens
<1> QED
    BY <1>3 DEF Mergeable

\* doWrite is never called without data, so it does not index an empty slice.
LEMMA PutHasData ==
    ASSUME IInv, Doing("put")
    PROVE  Step.data # << >>
<1>1. call.todo # << >> /\ call.op \in Calls /\ NextIs("put")
    BY PutFacts
<1>2. PICK off \in 0..MaxSize, d \in Pieces(MaxSize) : Head(call.todo) = PutData(off, d)
    BY <1>1, PutNext DEF IInv
<1>3. Len(d) \in 1..MaxSize
    BY FileContentAssumption, PieceIs
<1>4. Step.data = d
    BY <1>2, StepKinds DEF Step
<1> QED
    BY <1>3, <1>4

\* doWrite finds the disk full.
LEMMA WriteNoSpaceKeeps ==
    ASSUME IInv, Careful, WriteNoSpace
    PROVE  IInv'
<1>1. /\ NextIs("put") /\ call.todo # << >> /\ call.op \in Calls /\ call.op # "stuck" /\ call.h \in Handles
      /\ header \in IDs /\ files[call.h].id = header
      /\ blocks \in Seq(Block) /\ Whole(blocks) /\ EndsIn(blocks)
      /\ \A i \in DOMAIN blocks : blocks[i].id \in {header, Hole}
      /\ \A h \in Handles : files[h].id \in {None, header}
      /\ alive = TRUE /\ files \in FilesType
    BY PutFacts DEF WriteNoSpace
<1>2. call.op # "shrink" /\ alive' = alive
    BY DEF WriteNoSpace, DiskFull, Careful
<1>3. CASE ~call.empty
    <2>1. Fail /\ header' = header /\ blocks' = blocks /\ files' = files
        BY <1>3 DEF WriteNoSpace
    <2>2. blocks # << >>
        BY <1>1, <1>2, <1>3 DEF IInv, IdInv
    <2> QED
        BY <1>1, <1>2, <2>1, <2>2, FailsCleanly
<1>4. CASE call.empty
    <2>1. header' = None /\ blocks' = << >> /\ blocks = << >>
        BY <1>1, <1>4 DEF WriteNoSpace, IInv, IdInv
    <2>2. \A h \in Handles : files[h].id # None => h = call.h
        BY <1>1, <1>2, <2>1 DEF IInv, IdInv
    <2>3. header' \in IDs \cup {None} /\ blocks' \in Seq(Block) /\ Whole(blocks') /\ EndsIn(blocks')
          /\ DOMAIN blocks' = {}
        BY <2>1 DEF Whole, EndsIn
    <2>4. CASE call.op = "write"
        <3>1. call' = [call EXCEPT !.op = "stuck", !.todo = << >>] /\ files' = files
            BY <1>4, <2>4 DEF WriteNoSpace
        <3>2. /\ call'.op = "stuck" /\ call'.todo = << >> /\ call'.h = call.h
              /\ call'.empty = call.empty /\ call'.old = call.old /\ call'.result = call.result
              /\ DOMAIN call' = DOMAIN call
            BY <3>1 DEF IInv, Shaped
        <3>3. Shaped'
            BY <1>1, <1>2, <2>1, <2>3, <3>1, <3>2 DEF IInv, Shaped
        <3>4. CallShape'
            BY <3>2 DEF CallShape, Calls
        <3>5. IdInv'
            BY <2>1, <2>3, <3>2 DEF IdInv, NextIs
        <3> QED
            BY <2>3, <3>3, <3>4, <3>5 DEF IInv
    <2>5. CASE call.op # "write"
        <3>1. call' = Done("failed") /\ files' = [files EXCEPT ![call.h] = Closed]
            BY <1>4, <2>5 DEF WriteNoSpace, Fail, End
        <3>2. files' \in FilesType /\ \A h \in Handles : files'[h].id = None
            BY <1>1, <2>2, <3>1 DEF FilesType, Closed
        <3> QED
            BY <1>1, <1>2, <2>1, <2>3, <3>1, <3>2, EndsCall
    <2> QED
        BY <2>4, <2>5
<1> QED
    BY <1>1, <1>3, <1>4

\* What is left of the blocks after a cut.
LEMMA CutIs ==
    ASSUME NEW bs \in Seq(Block), Whole(bs), EndsIn(bs), NEW n \in Nat, n < Len(bs)
    PROVE  LET s == SubSeq(bs, 1, n)
           IN  /\ s \in Seq(Block) /\ Len(s) = n /\ DOMAIN s \subseteq DOMAIN bs
               /\ \A i \in DOMAIN s : s[i] = bs[i]
               /\ AllFull(s) /\ Whole(s) /\ EndsIn(s)
<1> DEFINE s == SubSeq(bs, 1, n)
<1>1. s \in Seq(Block) /\ Len(s) = n /\ DOMAIN s = 1..n /\ \A i \in 1..n : s[i] = bs[i]
    OBVIOUS
<1>2. DOMAIN s \subseteq DOMAIN bs
    BY <1>1
<1> HIDE DEF s
<1>3. AllFull(s)
    BY <1>1, <1>2 DEF AllFull, Whole
<1> QED
    BY <1>1, <1>2, <1>3 DEF s, AllFull, Whole, EndsIn

\* A shrinking truncate cuts the file at a block.
LEMMA CutBlocksKeeps ==
    ASSUME IInv, CutBlocks
    PROVE  IInv'
<1>1. NextIs("cut") /\ call.todo # << >> /\ blocks' = SubSeq(blocks, 1, Step.to) /\ Advance
      /\ header' = header /\ files' = files /\ alive' = alive
    BY DEF CutBlocks, Doing, NextIs
<1>2. call.op \in Calls /\ call.op # "stuck" /\ call.h \in Handles
    BY <1>1, InCall
<1>3. call.op = "shrink" /\ header \in IDs
    BY <1>1, <1>2, CutNext DEF IInv
<1>4. PICK n \in 0..MaxSize :
        /\ n < Len(blocks) /\ Head(call.todo).to = n
        /\ \/ n > 0 /\ Len(call.todo) = 1
           \/ /\ Len(call.todo) = 3 /\ files[call.h].id = header
              /\ Len(Tail(call.todo)) = 2 /\ Tail(call.todo) # << >> /\ Head(Tail(call.todo)).do = "header"
              /\ \A bs : AllFull(bs) => PutLeft(Tail(call.todo), bs)
    BY <1>1, <1>2, CutNext DEF IInv
<1>5. n \in Nat /\ blocks \in Seq(Block) /\ Whole(blocks) /\ EndsIn(blocks) /\ blocks' = SubSeq(blocks, 1, n)
    BY <1>1, <1>4, FileContentAssumption DEF Step, IInv, Shaped
<1>6. /\ blocks' \in Seq(Block) /\ Len(blocks') = n /\ AllFull(blocks') /\ Whole(blocks') /\ EndsIn(blocks')
      /\ \A i \in DOMAIN blocks' : blocks'[i].id \in {header, Hole}
    <2>1. \A i \in DOMAIN blocks : blocks[i].id \in {header, Hole}
        BY DEF IInv, IdInv
    <2> QED
        BY <1>4, <1>5, <2>1, CutIs
<1>7. (\A h \in Handles : files'[h].id \in {None, header'}) /\ files' \in FilesType /\ alive' = TRUE
    BY <1>1, <1>2 DEF IInv, IdInv, Shaped, FilesType
<1>8. CASE Len(call.todo) = 1
    <2>1. call' = Done("ok") /\ n > 0
        BY <1>1, <1>4, <1>8, AdvanceIs
    <2>2. blocks' # << >>
        BY <1>6, <2>1
    <2> QED
        BY <1>1, <1>3, <1>6, <1>7, <2>1, <2>2, EndsCall
<1>9. CASE Len(call.todo) # 1
    <2>1. /\ call'.op = call.op /\ call'.h = call.h /\ call'.todo = Tail(call.todo)
          /\ call'.empty = call.empty /\ call'.old = call.old /\ call'.result = call.result
          /\ DOMAIN call' = DOMAIN call
        BY <1>1, <1>9, AdvanceIs
    <2>2. /\ files[call.h].id = header /\ PutLeft(Tail(call.todo), blocks')
          /\ Len(Tail(call.todo)) = 2 /\ Tail(call.todo) # << >> /\ Head(Tail(call.todo)).do = "header"
        BY <1>4, <1>6, <1>9
    <2>3. Shaped' /\ (CallShape' /\ IdInv' => IInv')
        <3>1. call'.empty \in BOOLEAN
            BY <2>1 DEF IInv, Shaped
        <3> QED
            BY <1>1, <1>3, <1>6, <1>7, <2>1, <3>1, GoesOn
    <2>4. CallShape'
        BY <1>1, <1>2, <1>3, <2>1, <2>2 DEF CallShape
    <2>5. ~call.empty
        BY <1>3 DEF IInv, IdInv
    <2>6. IdInv'
        BY <1>1, <1>3, <1>6, <1>7, <2>1, <2>2, <2>5 DEF IdInv, NextIs
    <2> QED
        BY <2>3, <2>4, <2>6
<1> QED
    BY <1>8, <1>9

\* A truncate to zero cuts the whole file, header included.
LEMMA CutFileKeeps ==
    ASSUME IInv, CutFile
    PROVE  IInv'
<1>1. NextIs("cutAll") /\ call.todo # << >> /\ header' = None /\ blocks' = << >> /\ Advance
      /\ files' = files /\ alive' = alive
    BY DEF CutFile, Doing, NextIs
<1>2. call.op \in Calls /\ call.op # "stuck"
    BY <1>1, InCall
<1>3. ~PutLeft(call.todo, blocks) /\ ~PadLeft(call.todo, blocks) /\ ~CutLeft(call.todo, blocks)
      /\ ~StretchLeft(call.todo, blocks, header)
    BY <1>1, StepKinds, Tuples DEF NextIs, PutLeft, PadLeft, CutLeft, StretchLeft
<1>4. call.todo = <<CutAll>> /\ \A h \in Handles : files[h].id = None
    BY <1>2, <1>3 DEF IInv, CallShape, Calls
<1>5. call' = Done("ok")
    BY <1>1, <1>4, AdvanceIs, Tuples
<1>6. blocks' \in Seq(Block) /\ Whole(blocks') /\ EndsIn(blocks') /\ DOMAIN blocks' = {}
      /\ header' \in IDs \cup {None} /\ files' \in FilesType /\ alive' = TRUE
    BY <1>1 DEF Whole, EndsIn, IInv, Shaped, FilesType
<1> QED
    BY <1>1, <1>4, <1>5, <1>6, EndsCall

\* truncateGrowFile stretches the file with ftruncate.
LEMMA StretchFileKeeps ==
    ASSUME IInv, StretchFile
    PROVE  IInv'
<1>1. NextIs("stretch") /\ call.todo # << >> /\ blocks' = Stretched(Step.to) /\ Advance
      /\ files' = files /\ alive' = alive /\ header' = (IF header = None THEN Blank ELSE header)
    BY DEF StretchFile, Doing, NextIs
<1>2. call.op \in Calls /\ call.op # "stuck"
    BY <1>1, InCall
<1>3. Len(call.todo) = 1 /\ header \in IDs /\ AllFull(blocks)
    BY <1>1, <1>2, StretchNext DEF IInv
<1>4. PICK n \in 1..MaxSize : n * BlockSize <= MaxSize /\ Step.to = n
    BY <1>1, <1>2, StretchNext DEF IInv, Step
<1>5. header' = header /\ blocks' = Stretched(n)
    BY <1>1, <1>3, <1>4, NoneIsNoID
<1>6. \A i \in DOMAIN blocks : blocks[i].id \in {header, Hole}
    BY DEF IInv, IdInv
<1>7. /\ blocks' \in Seq(Block) /\ blocks' # << >> /\ Whole(blocks') /\ EndsIn(blocks')
      /\ \A i \in DOMAIN blocks' : blocks'[i].id \in {header, Hole}
    BY <1>3, <1>4, <1>5, <1>6, StretchKeeps DEF IInv, Shaped
<1>8. call' = Done("ok")
    BY <1>1, <1>3, AdvanceIs
<1>9. \A h \in Handles : files[h].id \in {None, header}
    BY <1>2 DEF IInv, IdInv
<1> QED
    BY <1>1, <1>3, <1>5, <1>7, <1>8, <1>9, EndsCall DEF IInv, Shaped, FilesType

\* A kill between any two system calls.
LEMMA DieKeeps ==
    ASSUME IInv, Die
    PROVE  IInv'
<1>1. /\ files' = [h \in Handles |-> Closed] /\ alive' = TRUE /\ header' = header /\ blocks' = blocks
      /\ call' = IF Idle THEN call ELSE Done("failed")
    BY DEF Die, Fail, End
<1>2. files' \in FilesType /\ \A h \in Handles : files'[h].id = None
    BY <1>1 DEF FilesType, Closed
<1>3. CASE ~Idle
    BY <1>1, <1>2, <1>3, EndsCall DEF IInv, Shaped, IdInv
<1>4. CASE Idle
    <2>1. CallShape'
        BY <1>1, <1>4 DEF IInv, CallShape, Idle, Calls
    <2>2. IdInv'
        BY <1>1, <1>2, <1>4, IdleFacts DEF IInv, IdInv, NextIs
    <2>3. Shaped' /\ Whole(blocks)' /\ EndsIn(blocks)'
        BY <1>1, <1>2, <1>4 DEF IInv, Shaped, FilesType, Whole, EndsIn
    <2> QED
        BY <2>1, <2>2, <2>3 DEF IInv
<1> QED
    BY <1>3, <1>4

-----------------------------------------------------------------------------
(* The invariant and what follows from it                                  *)

\* The invariant holds of an empty file.
LEMMA InitHolds == Init => IInv
<1> SUFFICES ASSUME Init PROVE IInv
    OBVIOUS
<1>1. /\ call.h = None /\ call.op = "none" /\ call.todo = << >> /\ call.empty = FALSE
      /\ call.old = << >> /\ call.result = "ok"
      /\ DOMAIN call = {"h", "op", "todo", "empty", "old", "result"}
    BY DEF Init, Done
<1>2. Shaped
    <2>1. << >> \in Seq(Values) /\ Len(<< >>) = 0 /\ 0 <= MaxSize
        BY FileContentAssumption
    <2>2. files \in [Handles -> [mode : {"closed", "read", "write"}, id : IDs \cup {None}]]
        BY DEF Init, Closed
    <2>3. header \in IDs \cup {None} /\ blocks \in Seq(Block) /\ alive = TRUE
        BY DEF Init
    <2> QED
        BY <1>1, <2>1, <2>2, <2>3 DEF Shaped
<1>3. CallShape
    BY <1>1 DEF CallShape, Calls
<1>4. IdInv
    BY <1>1 DEF Init, IdInv, NextIs, Closed
<1>5. Whole(blocks) /\ EndsIn(blocks)
    BY DEF Init, Whole, EndsIn
<1> QED
    BY <1>2, <1>3, <1>4, <1>5 DEF IInv

\* One case per action.
LEMMA StepKeeps ==
    ASSUME Careful, IInv, [Next]_vars
    PROVE  IInv'
<1>1. CASE UNCHANGED vars
    BY <1>1 DEF vars, IInv, Shaped, CallShape, IdInv, NextIs, Whole, EndsIn
<1>2. ASSUME NEW h \in Handles, NEW mode \in {"read", "write"}, Open(h, mode) PROVE IInv'
    BY <1>2, OpenKeeps
<1>3. ASSUME NEW h \in Handles, Close(h) PROVE IInv'
    BY <1>3, CloseKeeps
<1>4. ASSUME NEW h \in Handles, Read(h) PROVE IInv'
    BY <1>4, ReadKeeps
<1>11. ASSUME NEW h \in Handles, ReadNothing(h) PROVE FALSE
    BY <1>11 DEF ReadNothing, Careful
<1>5. ASSUME NEW h \in Handles, NEW off \in 0..MaxSize, NEW len \in MinBytes..MaxSize,
             NEW v \in Values \ {Zero}, Write(h, off, [i \in 1..len |-> v])
      PROVE  IInv'
    BY <1>5, WriteKeeps
<1>6. ASSUME NEW h \in Handles, TruncateToZero(h) PROVE IInv'
    BY <1>6, TruncateToZeroKeeps
<1>7. ASSUME NEW h \in Handles, NEW n \in 1..MaxSize, TruncateUp(h, n) \/ TruncateDown(h, n) PROVE IInv'
    BY <1>7, TruncateUpKeeps, TruncateDownKeeps
<1>8. CASE UseFileID \/ BadHeader \/ CreateHeader \/ HeaderNoSpace
    BY <1>8, UseFileIDKeeps, BadHeaderNever, CreateHeaderKeeps, HeaderNoSpaceKeeps
<1>9. CASE WriteBlocks \/ ReadBackFails \/ NoBlocks \/ WriteNoSpace
    BY <1>9, WriteBlocksKeeps, AlwaysMergeable, PutHasData, WriteNoSpaceKeeps DEF ReadBackFails, NoBlocks
<1>10. CASE CutBlocks \/ CutFile \/ StretchFile \/ Die
    BY <1>10, CutBlocksKeeps, CutFileKeeps, StretchFileKeeps, DieKeeps
<1> QED
    BY <1>1, <1>2, <1>3, <1>4, <1>5, <1>6, <1>7, <1>8, <1>9, <1>10, <1>11 DEF Next

\* The inductive invariant holds in every state a careful client reaches.
LEMMA Invariant ==
    ASSUME Careful
    PROVE  Spec => []IInv
<1>1. Init => IInv
    BY InitHolds
<1>2. IInv /\ [Next]_vars => IInv'
    BY StepKeeps
<1> QED
    BY <1>1, <1>2, PTL DEF Spec

\* What a call is for stays within the bound.
RequestFits ==
    /\ request.do \in {"none", "write", "resize"} /\ request.at \in 0..MaxSize
    /\ Len(request.data) <= MaxSize - request.at

\* A call that begins is for something that fits.
LEMMA BeginFits ==
    ASSUME NEW do \in {"none", "write", "resize"}, NEW at \in 0..MaxSize, NEW data \in Seq(Values),
           at + Len(data) <= MaxSize, request' = Request(do, at, data)
    PROVE  RequestFits'
<1>1. request'.do = do /\ request'.at = at /\ request'.data = data
    BY DEF Request
<1>2. Len(data) \in Nat /\ at \in Nat /\ MaxSize \in Nat
    BY FileContentAssumption
<1>3. Len(data) <= MaxSize - at
    BY <1>2
<1> QED
    BY <1>1, <1>3 DEF RequestFits

\* A call that is over is for nothing.
LEMMA NoRequestFits ==
    ASSUME request' = NoRequest
    PROVE  RequestFits'
<1>1. << >> \in Seq(Values) /\ Len(<< >>) = 0 /\ 0 \in 0..MaxSize /\ 0 + 0 <= MaxSize
    BY FileContentAssumption
<1> QED
    BY <1>1, BeginFits DEF NoRequest

\* No step makes it outgrow the bound.
LEMMA RequestsFit ==
    ASSUME Careful
    PROVE  Spec => []RequestFits
<1>1. Init => RequestFits
    BY FileContentAssumption DEF Init, RequestFits, NoRequest, Request
<1>2. ASSUME RequestFits, [Next]_vars PROVE RequestFits'
    <2>1. CASE UNCHANGED request
        BY <1>2, <2>1 DEF RequestFits
    <2>2. CASE request' = NoRequest
        BY <2>2, NoRequestFits
    <2>3. ASSUME NEW h \in Handles, NEW off \in 0..MaxSize, NEW len \in MinBytes..MaxSize,
                 NEW v \in Values \ {Zero}, Write(h, off, [i \in 1..len |-> v])
          PROVE  RequestFits'
        <3>1. PICK d \in Seq(Values) : d = [i \in 1..len |-> v]
            BY SameBytes, FileContentAssumption, PieceIs DEF Careful
        <3>2. off + Len(d) <= MaxSize /\ request' = Request("write", off, d)
            BY <2>3, <3>1 DEF Write, Begin
        <3> QED
            BY <3>2, BeginFits
    <2>4. ASSUME NEW h \in Handles, NEW n \in 0..MaxSize, request' = Request("resize", n, << >>)
          PROVE  RequestFits'
        <3>1. << >> \in Seq(Values) /\ n + Len(<< >>) <= MaxSize
            BY FileContentAssumption
        <3> QED
            BY <2>4, <3>1, BeginFits
    <2>5. ASSUME NEW h \in Handles, TruncateToZero(h) PROVE RequestFits'
        BY <2>4, <2>5, FileContentAssumption DEF TruncateToZero, Begin
    <2>6. ASSUME NEW h \in Handles, NEW n \in 1..MaxSize, TruncateUp(h, n) \/ TruncateDown(h, n)
          PROVE  RequestFits'
        <3>1. n \in 0..MaxSize
            OBVIOUS
        <3> QED
            BY <2>4, <2>6, <3>1 DEF TruncateUp, TruncateDown, Begin
    <2>7. CASE UNCHANGED vars
        BY <2>1, <2>7 DEF vars
    <2>8. ASSUME NEW h \in Handles,
                 Close(h) \/ Read(h) \/ ReadNothing(h) \/ \E mode \in {"read", "write"} : Open(h, mode)
          PROVE  RequestFits'
        BY <2>1, <2>8 DEF Open, Close, Read, ReadNothing
    <2>9. CASE UseFileID \/ BadHeader \/ CreateHeader \/ HeaderNoSpace \/ WriteBlocks \/ ReadBackFails \/ NoBlocks
               \/ WriteNoSpace \/ CutBlocks \/ CutFile \/ StretchFile \/ Die
        BY <2>1, <2>2, <2>9 DEF UseFileID, BadHeader, CreateHeader, HeaderNoSpace, WriteBlocks, ReadBackFails,
           NoBlocks, WriteNoSpace, CutBlocks, CutFile, StretchFile, Die, Advance, Fail, End
    <2> QED
        BY <1>2, <2>3, <2>5, <2>6, <2>7, <2>8, <2>9 DEF Next
<1> QED
    BY <1>1, <1>2, PTL DEF Spec

\* The types; the file never outgrows the bound, and only its last block may be incomplete.
THEOREM Types ==
    ASSUME Careful
    PROVE  Spec => []TypeOK
<1>1. IInv /\ RequestFits => TypeOK
    <2> SUFFICES ASSUME IInv, RequestFits PROVE TypeOK
        OBVIOUS
    <2>1. Len(blocks) <= MaxSize
        BY SizeIs DEF IInv, Shaped
    <2>2. \A i \in 1..Len(blocks) - 1 : Len(blocks[i].data) = BlockSize
        <3> SUFFICES ASSUME NEW i \in 1..Len(blocks) - 1 PROVE Len(blocks[i].data) = BlockSize
            OBVIOUS
        <3>1. i \in DOMAIN blocks /\ i < Len(blocks)
            BY DEF IInv, Shaped
        <3> QED
            BY <3>1 DEF IInv, Whole
    <2> QED
        BY <2>1, <2>2 DEF IInv, Shaped, TypeOK, RequestFits
<1> QED
    BY <1>1, Invariant, RequestsFit, PTL

\* Every block left on disk opens under the ID in the header, after any writes, truncations, full
\* disks and kills of a careful client (doWrite, truncate, createHeader).
THEOREM BlocksAlwaysOpen ==
    ASSUME Careful
    PROVE  Spec => []BlocksOpen
<1>1. IInv => BlocksOpen
    BY DEF IInv, IdInv, BlocksOpen, HeaderOnNonEmptyFile, Opens
<1> QED
    BY <1>1, Invariant, PTL

\* A handle's cached ID, which doWrite never checks again, is the one in the header.
THEOREM CachedIDs ==
    ASSUME Careful
    PROVE  Spec => []CachedIDIsHeader
<1>1. IInv => CachedIDIsHeader
    BY DEF IInv, IdInv, CachedIDIsHeader
<1> QED
    BY <1>1, Invariant, PTL

\* No call of a careful client panics: doWrite always has data, and what it must merge with opens.
THEOREM NeverPanics ==
    ASSUME Careful
    PROVE  Spec => [](alive = TRUE)
<1>1. IInv => alive = TRUE
    BY DEF IInv, Shaped
<1> QED
    BY <1>1, Invariant, PTL

-----------------------------------------------------------------------------
(* The bytes of a file                                                     *)

\* Blocks as a file that no call has broken has them; their size and bytes, as PlainSize and Content.
Good(bs) == bs \in Seq(Block) /\ Whole(bs) /\ EndsIn(bs)

SizeOf(bs) ==
    IF bs = << >> THEN 0 ELSE (Len(bs) - 1) * BlockSize + Len(bs[Len(bs)].data)

ContentOf(bs) ==
    [i \in 1..SizeOf(bs) |-> bs[1 + BlockNo(i - 1)].data[1 + ((i - 1) % BlockSize)]]

\* A plain file of n bytes that begins with c and goes on with zeros, or stops before.
Ext(c, n) == [i \in 1..n |-> IF i <= Len(c) THEN c[i] ELSE Zero]

\* A plain file with d written at off.
PutIn(c, off, d) ==
    [i \in 1..MaxOf(Len(c), off + Len(d)) |->
        IF i \in off + 1..off + Len(d) THEN d[i - off] ELSE IF i <= Len(c) THEN c[i] ELSE Zero]

\* The size of blocks that are full except the last one.
LEMMA SizeOfIs ==
    ASSUME NEW bs, Good(bs)
    PROVE  /\ SizeOf(bs) \in 0..MaxSize /\ SizeOf(bs) \in Nat /\ Len(bs) <= MaxSize /\ Len(bs) \in Nat
           /\ bs = << >> <=> SizeOf(bs) = 0
           /\ bs # << >> => /\ SizeOf(bs) = (Len(bs) - 1) * BlockSize + Len(bs[Len(bs)].data)
                            /\ Len(bs) - 1 \in Nat
                            /\ Len(bs[Len(bs)].data) \in 1..BlockSize
<1>0. MaxSize \in Nat /\ BlockSize \in Nat \ {0} /\ bs \in Seq(Block) /\ Whole(bs) /\ EndsIn(bs)
    BY FileContentAssumption DEF Good
<1>1. CASE bs = << >>
    BY <1>0, <1>1 DEF SizeOf
<1>2. CASE bs # << >>
    <2> DEFINE n == Len(bs)
               r == Len(bs[n].data)
    <2>1. n \in Nat /\ n - 1 \in Nat /\ n \in DOMAIN bs /\ bs[n] \in Block
        BY <1>0, <1>2
    <2>2. r \in 1..BlockSize
        BY <2>1, BlockFields
    <2>3. SizeOf(bs) = (n - 1) * BlockSize + r
        BY <1>2 DEF SizeOf
    <2>4. (n - 1) * BlockSize + r <= MaxSize
        BY <1>0, <2>1 DEF EndsIn
    <2>5. (n - 1) * BlockSize \in Nat /\ n - 1 <= (n - 1) * BlockSize
        BY <2>1, Times
    <2> HIDE DEF n, r
    <2>6. SizeOf(bs) \in Nat /\ SizeOf(bs) > 0 /\ n <= MaxSize /\ SizeOf(bs) <= MaxSize
        BY <1>0, <2>1, <2>2, <2>3, <2>4, <2>5
    <2>7. SizeOf(bs) \in 0..MaxSize /\ SizeOf(bs) # 0
        BY <1>0, <2>6
    <2>8. /\ SizeOf(bs) = (Len(bs) - 1) * BlockSize + Len(bs[Len(bs)].data)
          /\ Len(bs) - 1 \in Nat /\ Len(bs) <= MaxSize /\ Len(bs) \in Nat
          /\ Len(bs[Len(bs)].data) \in 1..BlockSize
        BY <2>1, <2>2, <2>3, <2>6 DEF n, r
    <2> QED
        BY <1>2, <2>6, <2>7, <2>8
<1> QED
    BY <1>1, <1>2

\* A byte of a file is in the block, and at the place, that its offset says.
LEMMA BytesOf ==
    ASSUME NEW bs, Good(bs), NEW x \in Nat
    PROVE  /\ x < SizeOf(bs) <=> BlockNo(x) < Len(bs) /\ x % BlockSize < Len(bs[BlockNo(x) + 1].data)
           /\ x < SizeOf(bs) => ContentOf(bs)[x + 1] = bs[BlockNo(x) + 1].data[(x % BlockSize) + 1]
<1>1. PICK n \in Nat, r \in 0..(BlockSize - 1) : n = BlockNo(x) /\ r = x % BlockSize
    BY BlockOf
<1>2. PICK y \in Nat : y = n * BlockSize
    BY TimesNat
<1>3. x = y + r
    BY <1>1, <1>2, BlockOf
<1>4. BlockSize \in Nat \ {0} /\ SizeOf(bs) \in Nat /\ Len(bs) \in Nat /\ bs \in Seq(Block)
    BY FileContentAssumption, SizeOfIs DEF Good
<1>5. x < SizeOf(bs) <=> n < Len(bs) /\ r < Len(bs[n + 1].data)
    <2>1. CASE bs = << >>
        <3>1. SizeOf(bs) = 0 /\ Len(bs) = 0
            BY <2>1, SizeOfIs
        <3> QED
            BY <3>1
    <2>2. CASE bs # << >>
        <3>1. PICK b \in Nat, q \in 1..BlockSize, z \in Nat :
                b = Len(bs) - 1 /\ q = Len(bs[Len(bs)].data) /\ z = b * BlockSize
            BY <2>2, SizeOfIs, TimesNat
        <3>2. SizeOf(bs) = z + q /\ Len(bs) = b + 1
            <4>1. SizeOf(bs) = (Len(bs) - 1) * BlockSize + Len(bs[Len(bs)].data)
                BY <2>2, SizeOfIs
            <4>2. SizeOf(bs) = z + q
                BY <3>1, <4>1, Zenon
            <4> QED
                BY <1>4, <3>1, <4>2
        <3>3. CASE n < b
            <4>1. y + BlockSize <= z
                <5>1. (n + 1) * BlockSize <= b * BlockSize /\ (n + 1) * BlockSize = n * BlockSize + BlockSize
                    BY <3>3, Times
                <5> QED
                    BY <1>2, <3>1, <5>1
            <4>2. n + 1 \in DOMAIN bs /\ n + 1 < Len(bs)
                BY <1>4, <3>2, <3>3
            <4>3. Len(bs[n + 1].data) = BlockSize
                BY <4>2 DEF Good, Whole
            <4>4. x < SizeOf(bs)
                BY <1>3, <1>4, <3>2, <4>1
            <4>5. n < Len(bs) /\ r < BlockSize
                BY <1>4, <4>2
            <4> QED
                BY <4>3, <4>4, <4>5
        <3>4. CASE n = b
            <4>1. y = z
                BY <1>2, <3>1, <3>4
            <4>2. x < SizeOf(bs) <=> r < q
                BY <1>3, <1>4, <3>2, <4>1
            <4>3. n < Len(bs) /\ n + 1 = Len(bs)
                BY <1>4, <3>2, <3>4
            <4>4. q = Len(bs[n + 1].data)
                BY <3>1, <4>3
            <4> QED
                BY <4>2, <4>3, <4>4
        <3>5. CASE n > b
            <4>1. z + BlockSize <= y
                <5>1. (b + 1) * BlockSize <= n * BlockSize /\ (b + 1) * BlockSize = b * BlockSize + BlockSize
                    <6>1. b + 1 \in Nat /\ b + 1 <= n
                        BY <3>5
                    <6> QED
                        BY <6>1, Times
                <5> QED
                    BY <1>2, <3>1, <5>1
            <4>2. ~(x < SizeOf(bs)) /\ ~(n < Len(bs))
                BY <1>3, <1>4, <3>2, <3>5, <4>1
            <4> QED
                BY <4>2
        <3> QED
            BY <3>3, <3>4, <3>5
    <2> QED
        BY <2>1, <2>2
<1>6. ASSUME x < SizeOf(bs) PROVE ContentOf(bs)[x + 1] = bs[n + 1].data[r + 1]
    <2>1. x + 1 \in 1..SizeOf(bs) /\ (x + 1) - 1 = x
        BY <1>4, <1>6
    <2>2. ContentOf(bs)[x + 1] = bs[1 + BlockNo(x)].data[1 + (x % BlockSize)]
        BY <2>1 DEF ContentOf
    <2>3. 1 + n = n + 1 /\ 1 + r = r + 1
        OBVIOUS
    <2> QED
        BY <1>1, <2>2, <2>3
<1> QED
    BY <1>1, <1>5, <1>6

\* The bytes are values, as many as the size.
LEMMA ContentOfIs ==
    ASSUME NEW bs, Good(bs)
    PROVE  ContentOf(bs) \in Seq(Values) /\ Len(ContentOf(bs)) = SizeOf(bs)
<1>1. SizeOf(bs) \in Nat /\ bs \in Seq(Block) /\ Len(bs) \in Nat
    BY SizeOfIs DEF Good
<1>2. ASSUME NEW i \in 1..SizeOf(bs) PROVE ContentOf(bs)[i] \in Values
    <2>1. PICK x \in Nat : x = i - 1 /\ x + 1 = i /\ x < SizeOf(bs)
        BY <1>1
    <2>2. PICK n \in Nat, r \in Nat : n = BlockNo(x) /\ r = x % BlockSize
        BY BlockOf
    <2>3. /\ n < Len(bs) /\ r < Len(bs[n + 1].data)
          /\ ContentOf(bs)[i] = bs[n + 1].data[r + 1]
        BY <2>1, <2>2, BytesOf
    <2>4. bs[n + 1] \in Block
        BY <1>1, <2>2, <2>3
    <2>5. bs[n + 1].data \in Seq(Values)
        BY <2>4, BlockFields
    <2> QED
        BY <2>2, <2>3, <2>5
<1>3. ContentOf(bs) \in [1..SizeOf(bs) -> Values]
    <2>1. ContentOf(bs) = [i \in 1..SizeOf(bs) |-> ContentOf(bs)[i]]
        BY DEF ContentOf
    <2> QED
        BY <1>2, <2>1
<1> QED
    BY <1>1, <1>3, FunctionIsSeq

\* Files with the same bytes are the same.
LEMMA SameContent ==
    ASSUME NEW bs, Good(bs), NEW c \in Seq(Values),
           \A x \in Nat : x < SizeOf(bs) <=> x < Len(c),
           \A x \in Nat : x < Len(c) => ContentOf(bs)[x + 1] = c[x + 1]
    PROVE  ContentOf(bs) = c
<1>1. /\ ContentOf(bs) \in Seq(Values) /\ Len(ContentOf(bs)) = SizeOf(bs) /\ SizeOf(bs) \in Nat
      /\ Len(c) \in Nat
    BY ContentOfIs, SizeOfIs
<1>2. SizeOf(bs) = Len(c)
    <2>1. (SizeOf(bs) < SizeOf(bs) <=> SizeOf(bs) < Len(c)) /\ (Len(c) < SizeOf(bs) <=> Len(c) < Len(c))
        BY <1>1
    <2> QED
        BY <1>1, <2>1
<1>3. ASSUME NEW i \in 1..Len(c) PROVE ContentOf(bs)[i] = c[i]
    <2>1. PICK x \in Nat : x + 1 = i /\ x < Len(c)
        <3>1. i - 1 \in Nat /\ (i - 1) + 1 = i /\ i - 1 < Len(c)
            BY <1>1
        <3> QED
            BY <3>1
    <2> QED
        BY <2>1
<1> QED
    BY <1>1, <1>2, <1>3, SeqEqual

\* A file that was extended or cut short.
LEMMA ExtIs ==
    ASSUME NEW c \in Seq(Values), NEW n \in Nat
    PROVE  /\ Ext(c, n) \in Seq(Values) /\ Len(Ext(c, n)) = n
           /\ \A i \in 1..n : Ext(c, n)[i] = IF i <= Len(c) THEN c[i] ELSE Zero
<1>1. \A i \in 1..n : (IF i <= Len(c) THEN c[i] ELSE Zero) \in Values
    BY FileContentAssumption
<1>2. Ext(c, n) \in [1..n -> Values]
    BY <1>1 DEF Ext
<1>3. Ext(c, n) \in Seq(Values) /\ Len(Ext(c, n)) = n
    BY <1>2, FunctionIsSeq
<1> QED
    BY <1>3 DEF Ext

\* A file that was written into.
LEMMA PutInIs ==
    ASSUME NEW c \in Seq(Values), NEW off \in Nat, NEW d \in Seq(Values)
    PROVE  /\ PutIn(c, off, d) \in Seq(Values)
           /\ Len(PutIn(c, off, d)) = MaxOf(Len(c), off + Len(d))
           /\ \A i \in 1..MaxOf(Len(c), off + Len(d)) : PutIn(c, off, d)[i] =
                IF off < i /\ i <= off + Len(d) THEN d[i - off]
                ELSE IF i <= Len(c) THEN c[i] ELSE Zero
<1> DEFINE m == MaxOf(Len(c), off + Len(d))
           f(i) == IF off < i /\ i <= off + Len(d) THEN d[i - off] ELSE IF i <= Len(c) THEN c[i] ELSE Zero
<1>1. m \in Nat
    BY DEF MaxOf
<1>2. \A i \in 1..m : f(i) \in Values
    <2> HIDE DEF m
    <2> QED
        BY <1>1, FileContentAssumption
<1>3. PutIn(c, off, d) = [i \in 1..m |-> f(i)]
    <2>1. \A i \in 1..m : i \in off + 1..off + Len(d) <=> off < i /\ i <= off + Len(d)
        BY <1>1
    <2> QED
        BY <2>1 DEF PutIn
<1> HIDE DEF m, f
<1>4. PutIn(c, off, d) \in [1..m -> Values]
    BY <1>2, <1>3
<1>5. PutIn(c, off, d) \in Seq(Values) /\ Len(PutIn(c, off, d)) = m
    BY <1>1, <1>4, FunctionIsSeq
<1>6. \A i \in 1..m : PutIn(c, off, d)[i] = f(i)
    BY <1>3
<1> QED
    BY <1>5, <1>6 DEF m, f

\* An offset lies before block n if its block does.
LEMMA BeforeBlock ==
    ASSUME NEW x \in Nat, NEW n \in Nat
    PROVE  x < n * BlockSize <=> BlockNo(x) < n
<1>1. PICK b \in Nat, y \in Nat, z \in Nat :
        b = BlockNo(x) /\ y = b * BlockSize /\ z = n * BlockSize
    BY BlockOf, TimesNat
<1>2. y <= x /\ x < y + BlockSize /\ BlockSize \in Nat
    <2>1. (b + 1) * BlockSize = b * BlockSize + BlockSize
        BY Times
    <2> QED
        BY <1>1, <2>1, BlockOf, FileContentAssumption
<1>3. CASE b < n
    <2>1. (b + 1) * BlockSize <= n * BlockSize /\ (b + 1) * BlockSize = b * BlockSize + BlockSize
        <3>1. b + 1 \in Nat /\ b + 1 <= n
            BY <1>3
        <3> QED
            BY <3>1, Times
    <2>2. y + BlockSize <= z
        BY <1>1, <2>1
    <2>3. x < z
        BY <1>2, <2>2
    <2> QED
        BY <1>1, <1>3, <2>3
<1>4. CASE n <= b
    <2>1. n * BlockSize <= b * BlockSize
        BY <1>4, Times
    <2>2. ~(x < z) /\ ~(b < n)
        BY <1>1, <1>2, <1>4, <2>1
    <2> QED
        BY <1>1, <2>2
<1> QED
    BY <1>3, <1>4

\* A file of full blocks only.
LEMMA FullBytes ==
    ASSUME NEW bs, Good(bs), AllFull(bs)
    PROVE  /\ \A x \in Nat : x < SizeOf(bs) <=> BlockNo(x) < Len(bs)
           /\ SizeOf(bs) = Len(bs) * BlockSize
<1>1. bs \in Seq(Block) /\ Len(bs) \in Nat /\ SizeOf(bs) \in Nat /\ BlockSize \in Nat \ {0}
    BY SizeOfIs, FileContentAssumption DEF Good
<1>2. ASSUME NEW x \in Nat PROVE x < SizeOf(bs) <=> BlockNo(x) < Len(bs)
    <2>1. PICK n \in Nat, r \in 0..(BlockSize - 1) : n = BlockNo(x) /\ r = x % BlockSize
        BY BlockOf
    <2>2. n < Len(bs) => n + 1 \in DOMAIN bs
        BY <1>1
    <2>3. n < Len(bs) => Len(bs[n + 1].data) = BlockSize
        BY <2>2 DEF AllFull
    <2>4. r < BlockSize
        BY <1>1
    <2>5. x < SizeOf(bs) <=> n < Len(bs) /\ r < Len(bs[n + 1].data)
        BY <2>1, BytesOf
    <2> QED
        BY <2>1, <2>3, <2>4, <2>5
<1>3. PICK z \in Nat : z = Len(bs) * BlockSize
    BY <1>1, TimesNat
<1>4. \A x \in Nat : x < SizeOf(bs) <=> x < z
    BY <1>1, <1>2, <1>3, BeforeBlock
<1>5. (SizeOf(bs) < SizeOf(bs) <=> SizeOf(bs) < z) /\ (z < SizeOf(bs) <=> z < z)
    BY <1>1, <1>4
<1>6. SizeOf(bs) = z
    BY <1>1, <1>5
<1> QED
    BY <1>2, <1>3, <1>6

\* What Ftruncate to n blocks leaves of the bytes.
LEMMA CutContent ==
    ASSUME NEW bs, Good(bs), NEW n \in Nat, n < Len(bs)
    PROVE  ContentOf(SubSeq(bs, 1, n)) = Ext(ContentOf(bs), n * BlockSize)
<1>1. PICK s : s = SubSeq(bs, 1, n)
    OBVIOUS
<1>2. PICK c : c = ContentOf(bs)
    OBVIOUS
<1>3. PICK z \in Nat : z = n * BlockSize
    BY TimesNat
<1>4. bs \in Seq(Block) /\ Whole(bs) /\ EndsIn(bs) /\ c \in Seq(Values) /\ Len(c) = SizeOf(bs)
      /\ SizeOf(bs) \in Nat /\ Len(bs) \in Nat
    BY <1>2, ContentOfIs, SizeOfIs DEF Good
<1>5. /\ s \in Seq(Block) /\ Len(s) = n /\ AllFull(s) /\ Good(s)
      /\ \A i \in DOMAIN s : s[i] = bs[i]
    BY <1>1, <1>4, CutIs DEF Good
<1>6. Ext(c, z) \in Seq(Values) /\ Len(Ext(c, z)) = z
      /\ \A i \in 1..z : Ext(c, z)[i] = IF i <= Len(c) THEN c[i] ELSE Zero
    BY <1>4, ExtIs
<1>7. \A x \in Nat : x < SizeOf(s) <=> x < Len(Ext(c, z))
    BY <1>3, <1>5, <1>6, FullBytes, BeforeBlock
<1>8. ASSUME NEW x \in Nat, x < Len(Ext(c, z)) PROVE ContentOf(s)[x + 1] = Ext(c, z)[x + 1]
    <2>1. PICK b \in Nat, r \in 0..(BlockSize - 1) : b = BlockNo(x) /\ r = x % BlockSize
        BY BlockOf
    <2>2. b < n /\ x < SizeOf(s)
        BY <1>3, <1>6, <1>7, <1>8, <2>1, BeforeBlock
    <2>3. /\ ContentOf(s)[x + 1] = s[b + 1].data[r + 1] /\ r < Len(s[b + 1].data)
        BY <1>5, <2>1, <2>2, BytesOf
    <2>4. s[b + 1] = bs[b + 1] /\ b < Len(bs)
        <3>1. b + 1 \in DOMAIN s
            BY <1>5, <2>2
        <3> QED
            BY <1>4, <1>5, <2>2, <3>1
    <2>5. x < SizeOf(bs) /\ c[x + 1] = bs[b + 1].data[r + 1]
        BY <1>2, <2>1, <2>3, <2>4, BytesOf
    <2>6. x + 1 \in 1..z /\ x + 1 <= Len(c)
        BY <1>4, <1>6, <1>8, <2>5
    <2> QED
        BY <1>6, <2>3, <2>4, <2>5, <2>6
<1>9. ContentOf(s) = Ext(c, z)
    BY <1>5, <1>6, <1>7, <1>8, SameContent
<1> QED
    BY <1>1, <1>2, <1>3, <1>9

\* Content and PlainSize of the file.
LEMMA ContentOfBlocks == Content = ContentOf(blocks) /\ PlainSize = SizeOf(blocks)
BY DEF Content, ContentOf, PlainSize, SizeOf

\* The zero at any place.
LEMMA ZeroAt ==
    ASSUME NEW n \in Nat
    PROVE  \A i \in 1..n : Zeros(n)[i] = Zero
BY DEF Zeros

\* What Ftruncate to n blocks makes of the bytes of a file of full blocks.
LEMMA StretchContent ==
    ASSUME Good(blocks), AllFull(blocks), NEW n \in 1..MaxSize, n * BlockSize <= MaxSize, Len(blocks) <= n,
           NEW id, \A i \in DOMAIN blocks : blocks[i].id \in {id, Hole}
    PROVE  ContentOf(Stretched(n)) = Ext(Content, n * BlockSize)
<1>1. PICK s : s = Stretched(n)
    OBVIOUS
<1>2. PICK c : c = ContentOf(blocks)
    OBVIOUS
<1>3. n \in Nat /\ blocks \in Seq(Block) /\ Whole(blocks) /\ Len(blocks) \in Nat
      /\ c \in Seq(Values) /\ Len(c) = SizeOf(blocks) /\ SizeOf(blocks) \in Nat /\ BlockSize \in Nat \ {0}
    BY <1>2, ContentOfIs, SizeOfIs, FileContentAssumption DEF Good
<1>4. PICK z \in Nat : z = n * BlockSize
    BY <1>3, TimesNat
<1>5. s \in Seq(Block) /\ Whole(s) /\ EndsIn(s) /\ Good(s)
    BY <1>1, <1>3, StretchKeeps DEF Good
<1>6. Len(s) = n /\ DOMAIN s = 1..n /\ \A i \in 1..n : s[i] = StretchedBlock(n, i)
    BY <1>1, <1>3, StretchedIs
<1>7. ASSUME NEW i \in 1..n
      PROVE  s[i] = IF i > Len(blocks) THEN [id |-> Hole, data |-> Zeros(BlockSize)] ELSE blocks[i]
    BY <1>3, <1>6, StretchedBlockIs
<1>8. AllFull(s)
    <2>1. ASSUME NEW i \in 1..n PROVE Len(s[i].data) = BlockSize
        <3>1. CASE i > Len(blocks)
            BY <1>7, <3>1, HoleBlock
        <3>2. CASE i <= Len(blocks)
            <4>1. i \in DOMAIN blocks
                BY <3>2
            <4> QED
                BY <1>3, <1>7, <3>2, <4>1 DEF AllFull
        <3> QED
            BY <1>3, <3>1, <3>2
    <2> QED
        BY <1>6, <2>1 DEF AllFull
<1>9. Ext(c, z) \in Seq(Values) /\ Len(Ext(c, z)) = z
      /\ \A i \in 1..z : Ext(c, z)[i] = IF i <= Len(c) THEN c[i] ELSE Zero
    BY <1>3, ExtIs
<1>10. \A x \in Nat : x < SizeOf(s) <=> x < Len(Ext(c, z))
    BY <1>3, <1>4, <1>5, <1>6, <1>8, <1>9, FullBytes, BeforeBlock
<1>11. ASSUME NEW x \in Nat, x < Len(Ext(c, z)) PROVE ContentOf(s)[x + 1] = Ext(c, z)[x + 1]
    <2>1. PICK b \in Nat, r \in 0..(BlockSize - 1) : b = BlockNo(x) /\ r = x % BlockSize
        BY BlockOf
    <2>2. b < n /\ x < SizeOf(s)
        BY <1>3, <1>4, <1>9, <1>10, <1>11, <2>1, BeforeBlock
    <2>3. ContentOf(s)[x + 1] = s[b + 1].data[r + 1]
        BY <1>5, <2>1, <2>2, BytesOf
    <2>4. b + 1 \in 1..n
        BY <1>3, <2>2
    <2>5. x + 1 \in 1..z
        BY <1>9, <1>11
    <2>6. CASE b < Len(blocks)
        <3>1. s[b + 1] = blocks[b + 1]
            BY <1>3, <1>7, <2>4, <2>6
        <3>2. x < SizeOf(blocks)
            BY <2>1, <2>6, FullBytes
        <3>3. c[x + 1] = blocks[b + 1].data[r + 1]
            BY <1>2, <2>1, <3>2, BytesOf
        <3>4. x + 1 <= Len(c)
            BY <1>3, <3>2
        <3> QED
            BY <1>9, <2>3, <2>5, <3>1, <3>3, <3>4
    <2>7. CASE ~(b < Len(blocks))
        <3>1. s[b + 1] = [id |-> Hole, data |-> Zeros(BlockSize)]
            <4>1. b + 1 > Len(blocks)
                BY <1>3, <2>7
            <4> QED
                BY <1>7, <2>4, <4>1
        <3>2. r + 1 \in 1..BlockSize /\ BlockSize \in Nat
            BY <1>3
        <3>3. s[b + 1].data[r + 1] = Zero
            BY <3>1, <3>2, ZeroAt
        <3>4. ~(x < SizeOf(blocks))
            BY <2>1, <2>7, FullBytes
        <3>5. ~(x + 1 <= Len(c))
            BY <1>3, <3>4
        <3> QED
            BY <1>9, <2>3, <2>5, <3>3, <3>5
    <2> QED
        BY <2>6, <2>7
<1>12. ContentOf(s) = Ext(c, z)
    BY <1>5, <1>9, <1>10, <1>11, SameContent
<1> QED
    BY <1>1, <1>2, <1>4, <1>12, ContentOfBlocks

\* Where the bytes of the piece of d for block n are in that block.
LEMMA PieceBytes ==
    ASSUME NEW off \in Nat, NEW d \in Seq(Values), Len(d) > 0, NEW n \in Touched(off, d),
           NEW r \in 0..(BlockSize - 1), NEW x \in Nat, x = n * BlockSize + r
    PROVE  /\ Skip(off, n) \in Nat /\ Piece(off, d, n) \in Seq(Values)
           /\ Len(Piece(off, d, n)) \in 1..BlockSize /\ Skip(off, n) + Len(Piece(off, d, n)) <= BlockSize
           /\ Skip(off, n) <= r <=> off <= x
           /\ r < Skip(off, n) + Len(Piece(off, d, n)) <=> x < off + Len(d)
           /\ off <= x /\ x < off + Len(d) => Piece(off, d, n)[r - Skip(off, n) + 1] = d[x - off + 1]
<1>1. n \in Nat /\ BlockSize \in Nat \ {0} /\ Len(d) \in Nat
    BY PieceAt, FileContentAssumption
<1>2. PICK lo \in Nat, hi \in Nat :
        /\ off <= lo /\ n * BlockSize <= lo /\ lo \in {off, n * BlockSize} /\ lo < hi
        /\ hi <= off + Len(d) /\ hi <= n * BlockSize + BlockSize
        /\ hi \in {off + Len(d), n * BlockSize + BlockSize}
        /\ Skip(off, n) = lo - n * BlockSize
        /\ Piece(off, d, n) = SubSeq(d, 1 + lo - off, hi - off)
        /\ Piece(off, d, n) \in Seq(Values) /\ Len(Piece(off, d, n)) = hi - lo
    BY PieceAt
<1>3. PICK y \in Nat : y = n * BlockSize
    BY <1>1, TimesNat
<1>4. /\ off <= lo /\ y <= lo /\ lo \in {off, y} /\ lo < hi
      /\ hi <= off + Len(d) /\ hi <= y + BlockSize /\ hi \in {off + Len(d), y + BlockSize}
      /\ Skip(off, n) = lo - y
    BY <1>2, <1>3, Zenon
<1>5. x = y + r
    BY <1>3, Zenon
<1>6. PICK s \in Nat, p \in Seq(Values) : s = Skip(off, n) /\ p = Piece(off, d, n)
    <2>1. Skip(off, n) \in Nat
        BY <1>4
    <2>2. Piece(off, d, n) \in Seq(Values)
        BY <1>2, Zenon
    <2> QED
        BY <2>1, <2>2, Zenon
<1>7. s = lo - y /\ Len(p) = hi - lo /\ p = SubSeq(d, 1 + lo - off, hi - off)
    BY <1>2, <1>4, <1>6, Zenon
<1>8. Len(p) \in 1..BlockSize /\ s + Len(p) <= BlockSize
    BY <1>1, <1>4, <1>7
<1>9. (s <= r <=> off <= x) /\ (r < s + Len(p) <=> x < off + Len(d))
    BY <1>1, <1>4, <1>5, <1>7
<1>10. ASSUME off <= x, x < off + Len(d) PROVE p[r - s + 1] = d[x - off + 1]
    <2>1. PICK i \in 1..Len(p) : i = r - s + 1
        <3>1. r - s + 1 \in 1..Len(p)
            BY <1>9, <1>10
        <3> QED
            BY <3>1
    <2>2. PICK a \in 1..Len(d), e \in 1..Len(d) : a = 1 + lo - off /\ e = hi - off /\ Len(p) = e - a + 1
        <3>1. 1 + lo - off \in 1..Len(d) /\ hi - off \in 1..Len(d)
              /\ Len(p) = (hi - off) - (1 + lo - off) + 1
            BY <1>1, <1>4, <1>7
        <3> QED
            BY <3>1
    <2>3. p = SubSeq(d, a, e)
        BY <1>7, <2>2
    <2>4. p[i] = d[a + i - 1]
        BY <1>1, <2>1, <2>2, <2>3
    <2>5. a + i - 1 = x - off + 1
        <3>1. s = lo - y /\ x = y + r /\ i = r - s + 1 /\ a = 1 + lo - off /\ i \in Int /\ a \in Int
            BY <1>5, <1>7, <2>1, <2>2
        <3> QED
            BY <1>1, <3>1
    <2> QED
        BY <2>1, <2>4, <2>5
<1> QED
    BY <1>6, <1>8, <1>9, <1>10

\* What MergeBlocks puts at each place.
LEMMA MergeAt ==
    ASSUME NEW old \in Seq(Values), NEW new \in Seq(Values), NEW skip \in Nat, NEW r \in Nat,
           r < Len(old) \/ r < skip + Len(new)
    PROVE  MergeBlocks(old, new, skip)[r + 1] =
                IF skip <= r /\ r < skip + Len(new) THEN new[r - skip + 1]
                ELSE IF r < Len(old) THEN old[r + 1] ELSE Zero
<1>1. PICK i \in 1..MaxOf(Len(old), skip + Len(new)) : i = r + 1
    <2>1. r + 1 \in 1..MaxOf(Len(old), skip + Len(new))
        BY DEF MaxOf
    <2> QED
        BY <2>1
<1>2. MergeBlocks(old, new, skip)[i] =
                IF i \in skip + 1..skip + Len(new) THEN new[i - skip]
                ELSE IF i <= Len(old) THEN old[i] ELSE Zero
    BY DEF MergeBlocks
<1>3. /\ i \in skip + 1..skip + Len(new) <=> skip <= r /\ r < skip + Len(new)
      /\ i <= Len(old) <=> r < Len(old)
      /\ i - skip = r - skip + 1
    BY <1>1
<1> QED
    BY <1>1, <1>2, <1>3

\* The bytes of a block that doWrite makes.
LEMMA NewBlockBytes ==
    ASSUME Good(blocks), NEW off \in Nat, NEW d \in Seq(Values), Len(d) > 0, NEW n \in Touched(off, d),
           NEW id, NEW r \in 0..(BlockSize - 1), NEW x \in Nat, x = n * BlockSize + r
    PROVE  /\ r < Len(NewBlock(off, d, n, id).data) <=> x < SizeOf(blocks) \/ x < off + Len(d)
           /\ x < SizeOf(blocks) \/ x < off + Len(d) =>
                NewBlock(off, d, n, id).data[r + 1] =
                    IF off <= x /\ x < off + Len(d) THEN d[x - off + 1]
                    ELSE IF x < SizeOf(blocks) THEN Content[x + 1] ELSE Zero
<1>1. n \in Nat /\ BlockSize \in Nat \ {0} /\ blocks \in Seq(Block) /\ Len(blocks) \in Nat
    BY PieceAt, FileContentAssumption DEF Good
<1>2. BlockNo(x) = n /\ x % BlockSize = r
    BY <1>1, BlockIs
<1>3. PICK s \in Nat, p \in Seq(Values), o \in Seq(Values) :
        s = Skip(off, n) /\ p = Piece(off, d, n) /\ o = BlockData(n)
    BY <1>1, PieceBytes, BlockDataIs
<1>4. /\ Len(p) \in 1..BlockSize /\ s + Len(p) <= BlockSize /\ Len(o) \in 0..BlockSize
      /\ s <= r <=> off <= x
      /\ r < s + Len(p) <=> x < off + Len(d)
      /\ off <= x /\ x < off + Len(d) => p[r - s + 1] = d[x - off + 1]
    <2>1. Len(o) \in 0..BlockSize
        BY <1>1, <1>3, BlockDataIs
    <2> QED
        BY <1>3, <2>1, PieceBytes
<1>5. /\ r < Len(o) <=> x < SizeOf(blocks)
      /\ x < SizeOf(blocks) => o[r + 1] = Content[x + 1]
    <2>1. /\ x < SizeOf(blocks) <=> n < Len(blocks) /\ r < Len(blocks[n + 1].data)
          /\ x < SizeOf(blocks) => Content[x + 1] = blocks[n + 1].data[r + 1]
        BY <1>2, BytesOf, ContentOfBlocks
    <2>2. CASE n < Len(blocks)
        <3>1. o = blocks[n + 1].data
            BY <1>3, <2>2 DEF BlockData
        <3> QED
            BY <2>1, <2>2, <3>1
    <2>3. CASE ~(n < Len(blocks))
        <3>1. Len(o) = 0
            BY <1>3, <2>3 DEF BlockData
        <3> QED
            BY <2>1, <2>3, <3>1
    <2> QED
        BY <2>2, <2>3
<1>6. PICK b : b = NewBlock(off, d, n, id).data
    OBVIOUS
<1>7. b = IF Len(p) < BlockSize THEN MergeBlocks(o, p, s) ELSE p
    BY <1>3, <1>6 DEF NewBlock, IsPartial
<1>8. CASE Len(p) < BlockSize
    <2>1. b = MergeBlocks(o, p, s) /\ Len(b) = MaxOf(Len(o), s + Len(p))
        <3>1. Len(o) <= BlockSize /\ Len(p) > 0
            BY <1>1, <1>4
        <3> QED
            BY <1>4, <1>7, <1>8, <3>1, MergeIs
    <2>2. r < Len(b) <=> r < Len(o) \/ r < s + Len(p)
        BY <2>1 DEF MaxOf
    <2>3. ASSUME r < Len(o) \/ r < s + Len(p)
          PROVE  b[r + 1] = IF s <= r /\ r < s + Len(p) THEN p[r - s + 1]
                            ELSE IF r < Len(o) THEN o[r + 1] ELSE Zero
        <3>1. MergeBlocks(o, p, s)[r + 1] =
                IF s <= r /\ r < s + Len(p) THEN p[r - s + 1]
                ELSE IF r < Len(o) THEN o[r + 1] ELSE Zero
            <4>1. r \in Nat
                BY FileContentAssumption
            <4> QED
                BY <2>3, <4>1, MergeAt
        <3> QED
            BY <2>1, <3>1
    <2> QED
        BY <1>4, <1>5, <1>6, <2>2, <2>3
<1>9. CASE ~(Len(p) < BlockSize)
    <2>1. Len(p) = BlockSize /\ s = 0 /\ b = p
        BY <1>1, <1>4, <1>7, <1>9
    <2>2. s <= r /\ r < s + Len(p) /\ r < Len(b) /\ r - s + 1 = r + 1
        BY <1>1, <2>1
    <2>3. off <= x /\ x < off + Len(d) /\ b[r + 1] = d[x - off + 1]
        BY <1>4, <2>1, <2>2
    <2> QED
        BY <1>6, <2>2, <2>3
<1> QED
    BY <1>8, <1>9

\* The blocks of a file that was written into.
LEMMA WrittenBlock ==
    ASSUME Good(blocks), NEW off \in Nat, NEW d \in Seq(Values), Len(d) > 0, Gapless(blocks, off),
           NEW id, Written(off, d, id) \in Seq(Block)
    PROVE  /\ Len(Written(off, d, id)) = MaxOf(Len(blocks), BlockNo(off + Len(d) - 1) + 1)
           /\ \A i \in 1..Len(Written(off, d, id)) : Written(off, d, id)[i] =
                IF i - 1 \in Touched(off, d) THEN NewBlock(off, d, i - 1, id)
                ELSE IF i > Len(blocks) THEN [id |-> Hole, data |-> Zeros(BlockSize)] ELSE blocks[i]
<1>1. PICK last \in Nat, first \in Nat :
        last = BlockNo(off + Len(d) - 1) /\ first = BlockNo(off) /\ first <= last
    <2>1. PICK e \in Nat : e = off + Len(d) - 1 /\ off <= e
        <3>1. off + Len(d) - 1 \in Nat /\ off <= off + Len(d) - 1
            OBVIOUS
        <3> QED
            BY <3>1
    <2>2. BlockNo(e) \in Nat /\ BlockNo(off) \in Nat
        BY BlockOf
    <2>3. BlockNo(off) <= BlockNo(e)
        BY <2>1, BlocksOrdered
    <2> QED
        BY <2>1, <2>2, <2>3
<1>2. PICK m \in Nat : m = MaxOf(Len(blocks), last + 1)
    BY DEF MaxOf, Good
<1>3. Len(blocks) \in Nat /\ last < m /\ Len(blocks) <= m /\ (m = Len(blocks) \/ m = last + 1)
      /\ blocks \in Seq(Block) /\ Whole(blocks)
    BY <1>2 DEF MaxOf, Good
<1>4. DOMAIN Stretched(m) = 1..m /\ \A i \in 1..m : Stretched(m)[i] = StretchedBlock(m, i)
    BY <1>3, StretchedIs
<1>5. PICK w : w = Written(off, d, id)
    OBVIOUS
<1>6. w = [i \in 1..m |-> IF i - 1 \in Touched(off, d) THEN NewBlock(off, d, i - 1, id)
                          ELSE StretchedBlock(m, i)]
    BY <1>1, <1>2, <1>4, <1>5 DEF Written
<1>7. Len(w) = m
    <2>1. DOMAIN w = 1..m /\ DOMAIN w = 1..Len(w) /\ Len(w) \in Nat
        BY <1>5, <1>6
    <2> QED
        BY <2>1
<1>8. ASSUME NEW i \in 1..m, i - 1 \notin Touched(off, d)
      PROVE  w[i] = IF i > Len(blocks) THEN [id |-> Hole, data |-> Zeros(BlockSize)] ELSE blocks[i]
    <2>1. w[i] = StretchedBlock(m, i)
        BY <1>6, <1>8
    <2>2. AllFull(blocks) \/ i # Len(blocks) \/ i = m
        <3>1. CASE AllFull(blocks)
            BY <3>1
        <3>2. CASE first < Len(blocks)
            BY <1>1, <1>3, <1>8, <3>2 DEF Touched
        <3> QED
            BY <1>1, <3>1, <3>2 DEF Gapless
    <2> QED
        BY <1>3, <2>1, <2>2, StretchedBlockIs
<1>9. ASSUME NEW i \in 1..m, i - 1 \in Touched(off, d) PROVE w[i] = NewBlock(off, d, i - 1, id)
    BY <1>6, <1>9
<1> QED
    BY <1>1, <1>2, <1>5, <1>7, <1>8, <1>9

\* The byte at x of a file after d was written at off.
LEMMA WrittenByte ==
    ASSUME Good(blocks), NEW off \in Nat, NEW d \in Seq(Values), Len(d) > 0, Gapless(blocks, off),
           NEW id, Good(Written(off, d, id)), NEW x \in Nat
    PROVE  /\ x < SizeOf(Written(off, d, id)) <=> x < SizeOf(blocks) \/ x < off + Len(d)
           /\ x < SizeOf(Written(off, d, id)) =>
                ContentOf(Written(off, d, id))[x + 1] =
                    IF off <= x /\ x < off + Len(d) THEN d[x - off + 1]
                    ELSE IF x < SizeOf(blocks) THEN Content[x + 1] ELSE Zero
<1>1. PICK w : w = Written(off, d, id)
    OBVIOUS
<1>2. PICK n \in Nat, r \in 0..(BlockSize - 1) : n = BlockNo(x) /\ r = x % BlockSize
    BY BlockOf
<1>3. PICK first \in Nat, last \in Nat : first = BlockNo(off) /\ last = BlockNo(off + Len(d) - 1)
    <2>1. off + Len(d) - 1 \in Nat
        OBVIOUS
    <2> QED
        BY <2>1, BlockOf
<1>4. n \in Touched(off, d) <=> first <= n /\ n <= last
    BY <1>3 DEF Touched
<1>5. /\ x < off <=> ~(off <= x)
      /\ off <= x => first <= n
      /\ x < off => n <= first
      /\ x < off + Len(d) => n <= last
      /\ off + Len(d) <= x => last <= n
    <2>1. off + Len(d) - 1 \in Nat /\ (x < off + Len(d) => x <= off + Len(d) - 1)
          /\ (off + Len(d) <= x => off + Len(d) - 1 <= x)
        OBVIOUS
    <2> QED
        BY <1>2, <1>3, <2>1, BlocksOrdered
<1>6. Len(blocks) \in Nat /\ BlockSize \in Nat \ {0} /\ blocks \in Seq(Block) /\ Whole(blocks) /\ Good(w)
    BY <1>1, FileContentAssumption DEF Good
<1>7. /\ Len(w) = MaxOf(Len(blocks), last + 1)
      /\ \A i \in 1..Len(w) : w[i] =
            IF i - 1 \in Touched(off, d) THEN NewBlock(off, d, i - 1, id)
            ELSE IF i > Len(blocks) THEN [id |-> Hole, data |-> Zeros(BlockSize)] ELSE blocks[i]
    <2>1. Written(off, d, id) \in Seq(Block)
        BY DEF Good
    <2>2. /\ Len(Written(off, d, id)) = MaxOf(Len(blocks), BlockNo(off + Len(d) - 1) + 1)
          /\ \A i \in 1..Len(Written(off, d, id)) : Written(off, d, id)[i] =
                IF i - 1 \in Touched(off, d) THEN NewBlock(off, d, i - 1, id)
                ELSE IF i > Len(blocks) THEN [id |-> Hole, data |-> Zeros(BlockSize)] ELSE blocks[i]
        BY <2>1, WrittenBlock
    <2> QED
        BY <1>1, <1>3, <2>2, ZenonT(30)
<1>8. n < Len(w) <=> n < Len(blocks) \/ n <= last
    BY <1>6, <1>7 DEF MaxOf
<1>9. n < Len(w) => w[n + 1] =
            IF n \in Touched(off, d) THEN NewBlock(off, d, n, id)
            ELSE IF n >= Len(blocks) THEN [id |-> Hole, data |-> Zeros(BlockSize)] ELSE blocks[n + 1]
    <2> SUFFICES ASSUME n < Len(w) PROVE w[n + 1] =
            IF n \in Touched(off, d) THEN NewBlock(off, d, n, id)
            ELSE IF n >= Len(blocks) THEN [id |-> Hole, data |-> Zeros(BlockSize)] ELSE blocks[n + 1]
        OBVIOUS
    <2>1. PICK i \in 1..Len(w) : i = n + 1 /\ i - 1 = n /\ (i > Len(blocks) <=> n >= Len(blocks))
        <3>1. Len(w) \in Nat
            BY <1>6 DEF Good
        <3>2. n + 1 \in 1..Len(w) /\ (n + 1) - 1 = n /\ (n + 1 > Len(blocks) <=> n >= Len(blocks))
            BY <1>6, <3>1
        <3> QED
            BY <3>2
    <2> QED
        BY <1>7, <2>1, Zenon
<1>10. /\ x < SizeOf(w) <=> n < Len(w) /\ r < Len(w[n + 1].data)
       /\ x < SizeOf(w) => ContentOf(w)[x + 1] = w[n + 1].data[r + 1]
    BY <1>2, <1>6, BytesOf
<1>11. /\ x < SizeOf(blocks) <=> n < Len(blocks) /\ r < Len(blocks[n + 1].data)
       /\ x < SizeOf(blocks) => Content[x + 1] = blocks[n + 1].data[r + 1]
    BY <1>2, BytesOf, ContentOfBlocks
<1> DEFINE val == IF off <= x /\ x < off + Len(d) THEN d[x - off + 1]
                  ELSE IF x < SizeOf(blocks) THEN Content[x + 1] ELSE Zero
           Goal == /\ x < SizeOf(w) <=> x < SizeOf(blocks) \/ x < off + Len(d)
                   /\ x < SizeOf(w) => ContentOf(w)[x + 1] = val
<1>12. CASE n \in Touched(off, d)
    <2>1. PICK b : b = NewBlock(off, d, n, id).data
        OBVIOUS
    <2>2. n < Len(w) /\ w[n + 1].data = b
        BY <1>4, <1>8, <1>9, <1>12, <2>1
    <2>3. x = n * BlockSize + r
        BY <1>2, BlockOf
    <2>4. /\ r < Len(b) <=> x < SizeOf(blocks) \/ x < off + Len(d)
          /\ x < SizeOf(blocks) \/ x < off + Len(d) => b[r + 1] = val
        BY <1>12, <2>1, <2>3, NewBlockBytes
    <2> HIDE DEF val
    <2>5. Goal
        BY <1>10, <2>2, <2>4
    <2> QED
        BY <1>1, <2>5 DEF val
<1>13. CASE n \notin Touched(off, d) /\ n < Len(blocks)
    <2>1. n < Len(w) /\ w[n + 1] = blocks[n + 1]
        BY <1>6, <1>8, <1>9, <1>13
    <2>2. ~(off <= x /\ x < off + Len(d))
        BY <1>4, <1>5, <1>13
    <2>3. ASSUME x < off + Len(d) PROVE x < SizeOf(blocks)
        <3>1. n < first
            BY <1>4, <1>5, <1>13, <2>3
        <3>2. CASE AllFull(blocks)
            BY <1>2, <1>13, <3>2, FullBytes
        <3>3. CASE first < Len(blocks)
            <4>1. n + 1 \in DOMAIN blocks /\ n + 1 < Len(blocks)
                BY <1>6, <3>1, <3>3
            <4>2. Len(blocks[n + 1].data) = BlockSize
                BY <1>6, <4>1 DEF Whole
            <4>3. r < BlockSize
                BY <1>6
            <4> QED
                BY <1>11, <1>13, <4>2, <4>3
        <3> QED
            BY <1>3, <3>2, <3>3 DEF Gapless
    <2>4. Goal
        BY <1>10, <1>11, <1>13, <2>1, <2>2, <2>3
    <2> QED
        BY <1>1, <2>4
<1>14. CASE n \notin Touched(off, d) /\ n >= Len(blocks) /\ n < first
    <2>1. ~(x < SizeOf(blocks)) /\ x < off + Len(d) /\ ~(off <= x)
        BY <1>5, <1>6, <1>11, <1>14
    <2>2. n < Len(w)
        <3>1. first <= last
            <4>1. off + Len(d) - 1 \in Nat /\ off <= off + Len(d) - 1
                OBVIOUS
            <4> QED
                BY <1>3, <4>1, BlocksOrdered
        <3> QED
            BY <1>8, <1>14, <3>1
    <2>3. w[n + 1].data = Zeros(BlockSize)
        BY <1>9, <1>14, <2>2
    <2>4. Len(Zeros(BlockSize)) = BlockSize /\ r < BlockSize /\ r + 1 \in 1..BlockSize /\ BlockSize \in Nat
        BY <1>6, HoleBlock
    <2>5. x < SizeOf(w) /\ ContentOf(w)[x + 1] = Zero
        BY <1>10, <2>2, <2>3, <2>4, ZeroAt
    <2>6. Goal
        BY <2>1, <2>5
    <2> QED
        BY <1>1, <2>6
<1>15. CASE n \notin Touched(off, d) /\ n >= Len(blocks) /\ n >= first
    <2>1. n > last /\ ~(n < Len(w)) /\ ~(x < SizeOf(blocks)) /\ ~(x < off + Len(d))
        BY <1>4, <1>5, <1>6, <1>8, <1>11, <1>15
    <2>2. Goal
        BY <1>10, <2>1
    <2> QED
        BY <1>1, <2>2
<1> QED
    BY <1>6, <1>12, <1>13, <1>14, <1>15

\* doWrite writes into the file what was to be written, and nothing else.
LEMMA WrittenContent ==
    ASSUME Good(blocks), NEW off \in Nat, NEW d \in Seq(Values), Len(d) > 0, Gapless(blocks, off),
           NEW id, Good(Written(off, d, id))
    PROVE  ContentOf(Written(off, d, id)) = PutIn(Content, off, d)
<1>1. PICK w : w = Written(off, d, id)
    OBVIOUS
<1>2. PICK c \in Seq(Values) : c = Content /\ Len(c) = SizeOf(blocks)
    BY ContentOfBlocks, ContentOfIs
<1>3. PICK p \in Seq(Values) : p = PutIn(c, off, d)
    BY <1>2, PutInIs
<1>4. /\ Len(p) = MaxOf(Len(c), off + Len(d)) /\ Len(p) \in Nat
      /\ \A i \in 1..Len(p) : p[i] =
            IF off < i /\ i <= off + Len(d) THEN d[i - off] ELSE IF i <= Len(c) THEN c[i] ELSE Zero
    <2>1. /\ PutIn(c, off, d) \in Seq(Values) /\ Len(PutIn(c, off, d)) = MaxOf(Len(c), off + Len(d))
          /\ \A i \in 1..MaxOf(Len(c), off + Len(d)) : PutIn(c, off, d)[i] =
                IF off < i /\ i <= off + Len(d) THEN d[i - off] ELSE IF i <= Len(c) THEN c[i] ELSE Zero
        BY PutInIs
    <2>2. Len(p) \in Nat
        OBVIOUS
    <2>3. Len(p) = MaxOf(Len(c), off + Len(d))
        BY <1>3, <2>1, Zenon
    <2> QED
        BY <1>3, <2>1, <2>2, <2>3, Zenon
<1>5. ASSUME NEW x \in Nat
      PROVE  /\ x < SizeOf(w) <=> x < Len(p)
             /\ x < Len(p) => ContentOf(w)[x + 1] = p[x + 1]
    <2>1. /\ x < SizeOf(w) <=> x < Len(c) \/ x < off + Len(d)
          /\ x < SizeOf(w) => ContentOf(w)[x + 1] =
                IF off <= x /\ x < off + Len(d) THEN d[x - off + 1]
                ELSE IF x < Len(c) THEN c[x + 1] ELSE Zero
        BY <1>1, <1>2, WrittenByte
    <2>2. x < SizeOf(w) <=> x < Len(p)
        BY <1>4, <2>1 DEF MaxOf
    <2>3. ASSUME x < Len(p) PROVE ContentOf(w)[x + 1] = p[x + 1]
        <3>1. PICK i \in 1..Len(p) : /\ i = x + 1 /\ (off < i <=> off <= x) /\ i - off = x - off + 1
                                     /\ (i <= off + Len(d) <=> x < off + Len(d)) /\ (i <= Len(c) <=> x < Len(c))
            <4>1. /\ x + 1 \in 1..Len(p) /\ (off < x + 1 <=> off <= x) /\ (x + 1) - off = x - off + 1
                  /\ (x + 1 <= off + Len(d) <=> x < off + Len(d)) /\ (x + 1 <= Len(c) <=> x < Len(c))
                BY <1>4, <2>3
            <4> QED
                BY <4>1
        <3>2. p[i] = IF off < i /\ i <= off + Len(d) THEN d[i - off] ELSE IF i <= Len(c) THEN c[i] ELSE Zero
            BY <1>4, <3>1
        <3>3. p[x + 1] = IF off <= x /\ x < off + Len(d) THEN d[x - off + 1]
                         ELSE IF x < Len(c) THEN c[x + 1] ELSE Zero
            BY <3>1, <3>2, Zenon
        <3> QED
            BY <2>1, <2>2, <2>3, <3>3
    <2> QED
        BY <2>2, <2>3
<1>6. ContentOf(w) = p
    BY <1>1, <1>5, SameContent
<1> QED
    BY <1>1, <1>2, <1>3, <1>6

\* A file extended to its own length is itself.
LEMMA ExtSelf ==
    ASSUME NEW c \in Seq(Values)
    PROVE  Ext(c, Len(c)) = c
<1>1. PICK e \in Seq(Values) : /\ e = Ext(c, Len(c)) /\ Len(e) = Len(c)
                               /\ \A i \in 1..Len(c) : e[i] = IF i <= Len(c) THEN c[i] ELSE Zero
    <2>1. Len(c) \in Nat
        OBVIOUS
    <2> QED
        BY <2>1, ExtIs
<1>2. \A i \in 1..Len(c) : e[i] = c[i]
    BY <1>1
<1>3. e = c
    BY <1>1, <1>2, SeqEqual
<1> QED
    BY <1>1, <1>3

\* A file extended twice.
LEMMA ExtExt ==
    ASSUME NEW c \in Seq(Values), NEW a \in Nat, NEW b \in Nat, Len(c) <= a \/ b <= a
    PROVE  Ext(Ext(c, a), b) = Ext(c, b)
<1>1. PICK e \in Seq(Values) : /\ e = Ext(c, a) /\ Len(e) = a
                               /\ \A i \in 1..a : e[i] = IF i <= Len(c) THEN c[i] ELSE Zero
    BY ExtIs
<1>2. PICK f \in Seq(Values) : /\ f = Ext(e, b) /\ Len(f) = b
                               /\ \A i \in 1..b : f[i] = IF i <= a THEN e[i] ELSE Zero
    <2>1. /\ Ext(e, b) \in Seq(Values) /\ Len(Ext(e, b)) = b
          /\ \A i \in 1..b : Ext(e, b)[i] = IF i <= Len(e) THEN e[i] ELSE Zero
        BY ExtIs
    <2> QED
        BY <1>1, <2>1, Zenon
<1>3. PICK g \in Seq(Values) : /\ g = Ext(c, b) /\ Len(g) = b
                               /\ \A i \in 1..b : g[i] = IF i <= Len(c) THEN c[i] ELSE Zero
    BY ExtIs
<1>4. ASSUME NEW i \in 1..b PROVE f[i] = g[i]
    <2>1. CASE i <= a
        <3>1. i \in 1..a
            BY <2>1
        <3> QED
            BY <1>1, <1>2, <1>3, <2>1, <3>1
    <2>2. CASE ~(i <= a)
        <3>1. ~(i <= Len(c))
            BY <2>2
        <3> QED
            BY <1>2, <1>3, <2>2, <3>1
    <2> QED
        BY <2>1, <2>2
<1>5. f = g
    BY <1>2, <1>3, <1>4, SeqEqual
<1> QED
    BY <1>1, <1>2, <1>3, <1>5

\* Zeros written at the end of a file, or behind it, extend it.
LEMMA PutZeros ==
    ASSUME NEW c \in Seq(Values), NEW off \in Nat, NEW d \in Seq(Values), Len(d) > 0, Len(c) <= off,
           \A i \in 1..Len(d) : d[i] = Zero
    PROVE  PutIn(c, off, d) = Ext(c, off + Len(d))
<1>1. PICK k \in Nat : k = off + Len(d) /\ Len(c) <= k
    OBVIOUS
<1>2. PICK p \in Seq(Values) :
        /\ p = PutIn(c, off, d) /\ Len(p) = k
        /\ \A i \in 1..k : p[i] = IF off < i /\ i <= k THEN d[i - off] ELSE IF i <= Len(c) THEN c[i] ELSE Zero
    <2>1. MaxOf(Len(c), off + Len(d)) = k
        BY <1>1 DEF MaxOf
    <2>2. /\ PutIn(c, off, d) \in Seq(Values) /\ Len(PutIn(c, off, d)) = MaxOf(Len(c), off + Len(d))
          /\ \A i \in 1..MaxOf(Len(c), off + Len(d)) : PutIn(c, off, d)[i] =
                IF off < i /\ i <= off + Len(d) THEN d[i - off] ELSE IF i <= Len(c) THEN c[i] ELSE Zero
        BY PutInIs
    <2> QED
        BY <1>1, <2>1, <2>2, Zenon
<1>3. PICK e \in Seq(Values) : /\ e = Ext(c, k) /\ Len(e) = k
                               /\ \A i \in 1..k : e[i] = IF i <= Len(c) THEN c[i] ELSE Zero
    BY ExtIs
<1>4. ASSUME NEW i \in 1..k PROVE p[i] = e[i]
    <2>1. CASE off < i
        <3>1. i - off \in 1..Len(d) /\ i <= k /\ ~(i <= Len(c))
            BY <1>1, <2>1
        <3> QED
            BY <1>2, <1>3, <2>1, <3>1, Zenon
    <2>2. CASE ~(off < i)
        BY <1>2, <1>3, <2>2, Zenon
    <2> QED
        BY <2>1, <2>2
<1>5. p = e
    BY <1>2, <1>3, <1>4, SeqEqual
<1> QED
    BY <1>1, <1>2, <1>3, <1>5

\* What a shrinking truncate writes back is what it cut off too much.
LEMMA PutBack ==
    ASSUME NEW c \in Seq(Values), NEW y \in Nat, NEW n \in Nat, y < n, n <= Len(c)
    PROVE  PutIn(Ext(c, y), y, SubSeq(c, y + 1, n)) = Ext(c, n)
<1>1. PICK e \in Seq(Values) : /\ e = Ext(c, y) /\ Len(e) = y
                               /\ \A i \in 1..y : e[i] = IF i <= Len(c) THEN c[i] ELSE Zero
    BY ExtIs
<1>2. PICK d \in Seq(Values) : /\ d = SubSeq(c, y + 1, n) /\ Len(d) = n - y
                               /\ \A i \in 1..(n - y) : d[i] = c[y + i]
    <2>1. PICK a \in 1..Len(c) : a = y + 1
        <3>1. y + 1 \in 1..Len(c)
            OBVIOUS
        <3> QED
            BY <3>1
    <2>2. PICK b \in 1..Len(c) : b = n
        <3>1. n \in 1..Len(c)
            OBVIOUS
        <3> QED
            BY <3>1
    <2>3. a <= b /\ b - a + 1 = n - y
        BY <2>1, <2>2
    <2>4. SubSeq(c, a, b) \in Seq(Values) /\ Len(SubSeq(c, a, b)) = b - a + 1
          /\ \A i \in 1..(b - a + 1) : SubSeq(c, a, b)[i] = c[a + i - 1]
        BY <2>3
    <2>5. \A i \in 1..(n - y) : a + i - 1 = y + i
        BY <2>1
    <2>6. SubSeq(c, a, b) \in Seq(Values) /\ Len(SubSeq(c, a, b)) = n - y
          /\ \A i \in 1..(n - y) : SubSeq(c, a, b)[i] = c[y + i]
        BY <2>3, <2>4, <2>5, Zenon
    <2>7. SubSeq(c, a, b) = SubSeq(c, y + 1, n)
        BY <2>1, <2>2, Zenon
    <2> QED
        BY <2>6, <2>7, Zenon
<1>3. PICK p \in Seq(Values) :
        /\ p = PutIn(e, y, d) /\ Len(p) = n
        /\ \A i \in 1..n : p[i] = IF y < i /\ i <= n THEN d[i - y] ELSE IF i <= y THEN e[i] ELSE Zero
    <2>1. MaxOf(Len(e), y + Len(d)) = n /\ y + Len(d) = n
        BY <1>1, <1>2 DEF MaxOf
    <2>2. /\ PutIn(e, y, d) \in Seq(Values) /\ Len(PutIn(e, y, d)) = MaxOf(Len(e), y + Len(d))
          /\ \A i \in 1..MaxOf(Len(e), y + Len(d)) : PutIn(e, y, d)[i] =
                IF y < i /\ i <= y + Len(d) THEN d[i - y] ELSE IF i <= Len(e) THEN e[i] ELSE Zero
        BY PutInIs
    <2> QED
        BY <1>1, <2>1, <2>2, Zenon
<1>4. PICK g \in Seq(Values) : /\ g = Ext(c, n) /\ Len(g) = n
                               /\ \A i \in 1..n : g[i] = IF i <= Len(c) THEN c[i] ELSE Zero
    BY ExtIs
<1>5. ASSUME NEW i \in 1..n PROVE p[i] = g[i]
    <2>1. i <= Len(c) /\ i <= n
        OBVIOUS
    <2>2. g[i] = c[i]
        BY <1>4, <2>1, Zenon
    <2>3. CASE y < i
        <3>1. i - y \in 1..(n - y) /\ y + (i - y) = i
            BY <2>3
        <3>2. d[i - y] = c[i]
            BY <1>2, <3>1, Zenon
        <3> QED
            BY <1>3, <2>1, <2>2, <2>3, <3>2, Zenon
    <2>4. CASE ~(y < i)
        <3>1. i \in 1..y /\ i <= y
            BY <2>4
        <3> QED
            BY <1>1, <1>3, <2>1, <2>2, <2>4, <3>1, Zenon
    <2> QED
        BY <2>3, <2>4
<1>6. p = g
    BY <1>3, <1>4, <1>5, SeqEqual
<1> QED
    BY <1>1, <1>2, <1>3, <1>4, <1>6

-----------------------------------------------------------------------------
(* How far a call has come                                                 *)

\* What is left to do of an extension to n bytes when the file has m.
GrowTo(todo, m, n) ==
    \/ /\ m < n
       /\ todo \in {<<Header, PutData(n - 1, <<Zero>>)>>, <<PutData(n - 1, <<Zero>>)>>}
    \/ \E k \in 1..BlockSize :
        /\ m + k < n
        /\ todo \in {<<Header, PutData(m, Zeros(k)), Header, PutData(n - 1, <<Zero>>)>>,
                     <<PutData(m, Zeros(k)), Header, PutData(n - 1, <<Zero>>)>>}
    \/ \E j \in 1..MaxSize :
        /\ n = j * BlockSize
        /\ todo \in {<<Stretch(j)>>, <<NewHeader, Stretch(j)>>}
    \/ \E j \in 1..MaxSize, k \in 1..BlockSize :
        /\ n = j * BlockSize /\ m + k <= n
        /\ todo \in {<<Header, PutData(m, Zeros(k)), Stretch(j)>>, <<PutData(m, Zeros(k)), Stretch(j)>>}

\* A file that was old and grows to n bytes holds c: old and some of the zeros that are to come.
Growing(old, c, todo, n) ==
    /\ n \in 1..MaxSize
    /\ Len(old) <= Len(c) /\ Len(c) <= n
    /\ c = Ext(old, Len(c))
    /\ GrowTo(todo, Len(c), n)

\* A file that was old and shrinks to n bytes is still old, or was cut at the block before n.
Rest(old, n) == PutData(BlockNo(n) * BlockSize, SubSeq(old, BlockNo(n) * BlockSize + 1, n))

Shrinking(old, c, todo, n) ==
    /\ n \in 1..MaxSize
    /\ n < Len(old)
    /\ \/ n % BlockSize = 0 /\ c = old /\ todo = <<Cut(BlockNo(n))>>
       \/ n % BlockSize # 0 /\ c = old /\ todo = <<Cut(BlockNo(n)), Header, Rest(old, n)>>
       \/ /\ n % BlockSize # 0 /\ c = Ext(old, BlockNo(n) * BlockSize)
          /\ todo \in {<<Header, Rest(old, n)>>, <<Rest(old, n)>>}

\* A write has all of its data still to put.
Writes(todo, r) == todo \in {<<Header, PutData(r.at, r.data)>>, <<PutData(r.at, r.data)>>}

\* The file as the steps that a call has made left it, on the way to what was asked for.
Follows ==
    /\ call.op = "none" <=> request = NoRequest
    /\ call.op \in {"write", "empty"} => Content = call.old
    /\ call.op = "stuck"  => blocks = << >> /\ call.old = << >>
    /\ call.op = "write"  => request.do = "write" /\ Writes(call.todo, request)
    /\ call.op \in {"empty", "grow", "shrink"} => request.do = "resize"
    /\ call.op = "empty"  => request.at = 0
    /\ call.op = "grow"   => Growing(call.old, Content, call.todo, request.at)
    /\ call.op = "shrink" => Shrinking(call.old, Content, call.todo, request.at)

\* truncateGrowFile begins with all of an extension to do.
LEMMA GrowBegins ==
    ASSUME NEW m \in Nat, NEW n \in 1..MaxSize, m < n
    PROVE  GrowTo(TruncateGrowFile(m, n), m, n)
<1>0. MaxSize \in Nat /\ BlockSize \in Nat \ {0} /\ n \in Nat
    BY FileContentAssumption
<1>1. PICK e \in Nat : e = n - 1 /\ e < n /\ m <= e
    <2>1. n - 1 \in Nat /\ n - 1 < n /\ m <= n - 1
        BY <1>0
    <2> QED
        BY <2>1
<1>2. PICK b \in Nat, r \in 0..(BlockSize - 1), y \in Nat : b = BlockNo(m) /\ r = m % BlockSize /\ y = b * BlockSize
    BY BlockOf, TimesNat
<1>3. m = y + r
    BY <1>2, BlockOf
<1>4. PICK todo : todo = TruncateGrowFile(m, n)
    OBVIOUS
<1>5. CASE m > 0 /\ BlockNo(m - 1) = BlockNo(n - 1)
    <2>1. todo = <<Header, PutData(n - 1, <<Zero>>)>>
        BY <1>4, <1>5 DEF TruncateGrowFile, DoWrite
    <2> QED
        BY <1>4, <2>1 DEF GrowTo
<1>6. CASE ~(m > 0 /\ BlockNo(m - 1) = BlockNo(n - 1))
    <2>1. PICK j : j = n \div BlockSize
        OBVIOUS
    <2>2. todo = ZeroPad(m) \o
                 IF n % BlockSize = 0
                 THEN (IF m = 0 THEN <<NewHeader>> ELSE << >>) \o <<Stretch(j)>>
                 ELSE <<Header, PutData(n - 1, <<Zero>>)>>
        BY <1>4, <1>6, <2>1 DEF TruncateGrowFile, DoWrite
    <2>3. ASSUME n % BlockSize = 0 PROVE j \in 1..MaxSize /\ n = j * BlockSize
        <3>1. j \in Nat /\ n = j * BlockSize + (n % BlockSize)
            BY <1>0, <2>1, BlockOf DEF BlockNo
        <3>2. PICK z \in Nat : z = j * BlockSize /\ j <= z
            BY <3>1, Times
        <3>3. j = 0 => j * BlockSize = 0
            BY <1>0
        <3>4. n = z
            BY <1>0, <2>3, <3>1, <3>2
        <3>5. j # 0
            BY <1>0, <3>2, <3>3, <3>4
        <3>6. j \in 1..MaxSize
            BY <1>0, <3>1, <3>2, <3>4, <3>5
        <3> QED
            BY <3>2, <3>4, <3>6
    <2>4. CASE r = 0
        <3>1. ZeroPad(m) = << >>
            BY <1>2, <2>4 DEF ZeroPad
        <3>2. CASE n % BlockSize = 0
            <4>1. todo \in {<<Stretch(j)>>, <<NewHeader, Stretch(j)>>}
                <5>1. m = 0 => todo = <<NewHeader, Stretch(j)>>
                    BY <2>2, <3>1, <3>2, NothingJoined, OneAndOne
                <5>2. m # 0 => todo = <<Stretch(j)>>
                    BY <2>2, <3>1, <3>2, NothingJoined, OneAndOne
                <5> QED
                    BY <5>1, <5>2
            <4> QED
                BY <1>4, <2>3, <3>2, <4>1 DEF GrowTo
        <3>3. CASE n % BlockSize # 0
            <4>1. todo = <<Header, PutData(n - 1, <<Zero>>)>>
                BY <2>2, <3>1, <3>3, NothingJoined
            <4> QED
                BY <1>4, <4>1 DEF GrowTo
        <3> QED
            BY <3>2, <3>3
    <2>5. CASE r # 0
        <3>1. PICK k \in 1..BlockSize : k = BlockSize - r
            <4>1. BlockSize - r \in 1..BlockSize
                BY <1>0, <2>5
            <4> QED
                BY <4>1
        <3>2. ZeroPad(m) = <<Header, PutData(m, Zeros(k))>>
            BY <1>2, <2>5, <3>1 DEF ZeroPad, DoWrite
        <3>3. m > 0 /\ BlockNo(m - 1) = b
            <4>1. PICK q \in 0..(BlockSize - 1) : q = r - 1
                <5>1. r - 1 \in 0..(BlockSize - 1)
                    BY <1>0, <2>5
                <5> QED
                    BY <5>1
            <4>2. m > 0 /\ m - 1 = y + q
                BY <1>0, <1>3, <2>5, <4>1
            <4>3. BlockNo(b * BlockSize + q) = b
                BY BlockIs
            <4> QED
                BY <1>2, <4>2, <4>3
        <3>4. BlockNo(m) < BlockNo(e)
            <4>1. BlockNo(m) <= BlockNo(e) /\ BlockNo(e) \in Nat
                BY <1>1, BlocksOrdered, BlockOf
            <4>2. BlockNo(e) # b
                BY <1>1, <1>6, <3>3
            <4> QED
                BY <1>2, <4>1, <4>2
        <3>5. m + k <= e
            <4>1. (b + 1) * BlockSize <= e /\ (b + 1) * BlockSize = b * BlockSize + BlockSize
                BY <1>2, <3>4, BlockEnd
            <4>2. y + BlockSize <= e
                BY <1>2, <4>1
            <4> QED
                BY <1>0, <1>3, <3>1, <4>2
        <3>6. m + k < n /\ m + k <= n
            BY <1>0, <1>1, <3>5
        <3>7. CASE n % BlockSize = 0
            <4>1. todo = <<Header, PutData(m, Zeros(k)), Stretch(j)>>
                <5>1. m # 0
                    BY <3>3
                <5>2. todo = <<Header, PutData(m, Zeros(k))>> \o (<< >> \o <<Stretch(j)>>)
                    BY <2>2, <3>2, <3>7, <5>1
                <5> QED
                    BY <5>2, NothingJoined, TwoAndOne
            <4> QED
                BY <1>4, <2>3, <3>6, <3>7, <4>1 DEF GrowTo
        <3>8. CASE n % BlockSize # 0
            <4>1. todo = <<Header, PutData(m, Zeros(k)), Header, PutData(n - 1, <<Zero>>)>>
                BY <2>2, <3>2, <3>8, TwoAndTwo
            <4> QED
                BY <1>4, <3>6, <4>1 DEF GrowTo
        <3> QED
            BY <3>7, <3>8
    <2> QED
        BY <2>4, <2>5
<1> QED
    BY <1>5, <1>6

\* truncate to a smaller size reads the rest of the last block that stays.
LEMMA ShrinkBegins ==
    ASSUME Good(blocks), NEW n \in 1..MaxSize, n < SizeOf(blocks)
    PROVE  /\ n % BlockSize = 0 => TruncateShrink(n) = <<Cut(BlockNo(n))>>
           /\ n % BlockSize # 0 => TruncateShrink(n) = <<Cut(BlockNo(n)), Header, Rest(Content, n)>>
<1>0. MaxSize \in Nat /\ BlockSize \in Nat \ {0} /\ n \in Nat /\ blocks \in Seq(Block) /\ SizeOf(blocks) \in Nat
    <2>1. blocks \in Seq(Block)
        BY DEF Good
    <2>2. SizeOf(blocks) \in Nat
        BY SizeOfIs
    <2> QED
        BY <2>1, <2>2, FileContentAssumption
<1>1. PICK b \in Nat, r \in 0..(BlockSize - 1), y \in Nat : b = BlockNo(n) /\ r = n % BlockSize /\ y = b * BlockSize
    BY <1>0, BlockOf, TimesNat
<1>2. n = y + r
    BY <1>0, <1>1, BlockOf
<1>3. PICK c \in Seq(Values) : c = Content /\ c = ContentOf(blocks) /\ Len(c) = SizeOf(blocks)
    BY ContentOfBlocks, ContentOfIs
<1>4. b < Len(blocks) /\ r < Len(blocks[b + 1].data)
    BY <1>0, <1>1, BytesOf
<1>5. PICK o \in Seq(Values) : o = BlockData(b) /\ o = blocks[b + 1].data /\ r < Len(o)
    <2>1. b + 1 \in DOMAIN blocks
        BY <1>0, <1>4
    <2>2. blocks[b + 1].data \in Seq(Values)
        BY <1>0, <2>1, BlockFields
    <2> QED
        BY <1>4, <2>2 DEF BlockData
<1>6. PICK p \in Seq(Values) : p = SubSeq(o, 1, r) /\ Len(p) = r /\ \A i \in 1..r : p[i] = o[i]
    <2>1. SubSeq(o, 1, r) \in Seq(Values) /\ Len(SubSeq(o, 1, r)) = r /\ \A i \in 1..r : SubSeq(o, 1, r)[i] = o[i]
        BY <1>0, <1>5
    <2> QED
        BY <2>1, Zenon
<1>7. TruncateShrink(n) = <<Cut(b)>> \o (IF p = << >> THEN << >> ELSE <<Header, PutData(y, p)>>)
    BY <1>1, <1>5, <1>6 DEF TruncateShrink, DoWrite
<1>8. ASSUME r = 0 PROVE TruncateShrink(n) = <<Cut(b)>>
    <2>1. p = << >>
        BY <1>6, <1>8
    <2> QED
        BY <1>7, <2>1, NothingJoined
<1>9. ASSUME r # 0 PROVE TruncateShrink(n) = <<Cut(b), Header, Rest(c, n)>>
    <2>1. p # << >>
        BY <1>0, <1>6, <1>9
    <2>2. TruncateShrink(n) = <<Cut(b), Header, PutData(y, p)>>
        BY <1>7, <2>1, OneAndTwo
    <2>3. PICK q \in Seq(Values) : q = SubSeq(c, y + 1, n) /\ Len(q) = r /\ \A i \in 1..r : q[i] = c[y + i]
        <3>1. PICK a \in 1..Len(c), e \in 1..Len(c) : a = y + 1 /\ e = n /\ a <= e /\ e - a + 1 = r
            <4>1. y + 1 \in 1..Len(c) /\ n \in 1..Len(c) /\ y + 1 <= n /\ n - (y + 1) + 1 = r
                BY <1>0, <1>2, <1>3, <1>9
            <4> QED
                BY <4>1
        <3>2. SubSeq(c, a, e) \in Seq(Values) /\ Len(SubSeq(c, a, e)) = e - a + 1
              /\ \A i \in 1..(e - a + 1) : SubSeq(c, a, e)[i] = c[a + i - 1]
            BY <3>1
        <3>3. \A i \in 1..r : a + i - 1 = y + i
            BY <3>1
        <3>4. SubSeq(c, a, e) \in Seq(Values) /\ Len(SubSeq(c, a, e)) = r
              /\ \A i \in 1..r : SubSeq(c, a, e)[i] = c[y + i]
            BY <3>1, <3>2, <3>3, Zenon
        <3>5. SubSeq(c, a, e) = SubSeq(c, y + 1, n)
            BY <3>1, Zenon
        <3> QED
            BY <3>4, <3>5, Zenon
    <2>4. ASSUME NEW i \in 1..r PROVE p[i] = q[i]
        <3>1. PICK s \in 0..(BlockSize - 1) : s = i - 1 /\ s + 1 = i
            <4>1. i - 1 \in 0..(BlockSize - 1) /\ (i - 1) + 1 = i
                BY <1>0
            <4> QED
                BY <4>1
        <3>2. PICK x \in Nat : x = y + s
            BY <1>0, <3>1
        <3>3. BlockNo(x) = b /\ x % BlockSize = s
            BY <1>1, <3>2, BlockIs
        <3>4. x < SizeOf(blocks) /\ x + 1 = y + i
            BY <1>0, <1>2, <3>1, <3>2
        <3>5. c[x + 1] = blocks[b + 1].data[s + 1]
            BY <1>3, <3>3, <3>4, BytesOf
        <3>6. c[y + i] = o[i]
            BY <1>5, <3>1, <3>4, <3>5, Zenon
        <3> QED
            BY <1>6, <2>3, <3>6, Zenon
    <2>5. p = q
        BY <1>6, <2>3, <2>4, SeqEqual
    <2> QED
        BY <1>1, <2>2, <2>3, <2>5 DEF Rest
<1> QED
    BY <1>1, <1>3, <1>8, <1>9

\* A call that grows a file goes on to the next change when it has a file ID.
LEMMA GrowGoesOn ==
    ASSUME NEW todo, NEW m, NEW n, GrowTo(todo, m, n), todo # << >>, Head(todo).do \in {"header", "newHeader"}
    PROVE  GrowTo(Tail(todo), m, n)
<1>1. CASE m < n /\ todo \in {<<Header, PutData(n - 1, <<Zero>>)>>, <<PutData(n - 1, <<Zero>>)>>}
    <2>1. todo = <<Header, PutData(n - 1, <<Zero>>)>>
        BY <1>1, StepKinds, Tuples
    <2>2. Tail(todo) = <<PutData(n - 1, <<Zero>>)>>
        BY <2>1, Tuples
    <2> QED
        BY <1>1, <2>2 DEF GrowTo
<1>2. ASSUME NEW k \in 1..BlockSize, m + k < n,
             todo \in {<<Header, PutData(m, Zeros(k)), Header, PutData(n - 1, <<Zero>>)>>,
                       <<PutData(m, Zeros(k)), Header, PutData(n - 1, <<Zero>>)>>}
      PROVE  GrowTo(Tail(todo), m, n)
    <2>1. todo = <<Header, PutData(m, Zeros(k)), Header, PutData(n - 1, <<Zero>>)>>
        BY <1>2, StepKinds, Tuples
    <2>2. Tail(todo) = <<PutData(m, Zeros(k)), Header, PutData(n - 1, <<Zero>>)>>
        BY <2>1, Tuples
    <2> QED
        BY <1>2, <2>2 DEF GrowTo
<1>3. ASSUME NEW j \in 1..MaxSize, n = j * BlockSize, todo \in {<<Stretch(j)>>, <<NewHeader, Stretch(j)>>}
      PROVE  GrowTo(Tail(todo), m, n)
    <2>1. todo = <<NewHeader, Stretch(j)>>
        BY <1>3, StepKinds, Tuples
    <2>2. Tail(todo) = <<Stretch(j)>>
        BY <2>1, Tuples
    <2> QED
        BY <1>3, <2>2 DEF GrowTo
<1>4. ASSUME NEW j \in 1..MaxSize, NEW k \in 1..BlockSize, n = j * BlockSize, m + k <= n,
             todo \in {<<Header, PutData(m, Zeros(k)), Stretch(j)>>, <<PutData(m, Zeros(k)), Stretch(j)>>}
      PROVE  GrowTo(Tail(todo), m, n)
    <2>1. todo = <<Header, PutData(m, Zeros(k)), Stretch(j)>>
        BY <1>4, StepKinds, Tuples
    <2>2. Tail(todo) = <<PutData(m, Zeros(k)), Stretch(j)>>
        BY <2>1, Tuples
    <2> QED
        BY <1>4, <2>2 DEF GrowTo
<1> QED
    BY <1>1, <1>2, <1>3, <1>4 DEF GrowTo

\* So does one that shrinks it.
LEMMA ShrinkGoesOn ==
    ASSUME NEW old, NEW c, NEW todo, NEW n, Shrinking(old, c, todo, n), todo # << >>, Head(todo).do = "header"
    PROVE  Shrinking(old, c, Tail(todo), n)
<1>1.   /\ n \in 1..MaxSize /\ n < Len(old)
        /\ \/ n % BlockSize = 0 /\ c = old /\ todo = <<Cut(BlockNo(n))>>
           \/ n % BlockSize # 0 /\ c = old /\ todo = <<Cut(BlockNo(n)), Header, Rest(old, n)>>
           \/ /\ n % BlockSize # 0 /\ c = Ext(old, BlockNo(n) * BlockSize)
              /\ todo \in {<<Header, Rest(old, n)>>, <<Rest(old, n)>>}
    BY DEF Shrinking
<1>2. n % BlockSize # 0 /\ c = Ext(old, BlockNo(n) * BlockSize) /\ todo = <<Header, Rest(old, n)>>
    BY <1>1, StepKinds, Tuples DEF Rest
<1>3. Tail(todo) = <<Rest(old, n)>>
    BY <1>2, Tuples
<1> QED
    BY <1>1, <1>2, <1>3 DEF Shrinking

\* And one that writes.
LEMMA WriteGoesOn ==
    ASSUME NEW todo, NEW r, Writes(todo, r), todo # << >>, Head(todo).do \in {"header", "newHeader"}
    PROVE  Writes(Tail(todo), r)
<1>1. PICK put : put = PutData(r.at, r.data)
    OBVIOUS
<1>2. put.do = "put"
    BY <1>1, StepKinds
<1>3. todo = <<Header, put>> \/ todo = <<put>>
    BY <1>1 DEF Writes
<1>4. todo = <<Header, put>>
    BY <1>2, <1>3, Tuples
<1>5. Tail(todo) = <<put>>
    BY <1>4, Tuples
<1> QED
    BY <1>1, <1>5 DEF Writes

-----------------------------------------------------------------------------
(* Every step is one of the plain file, or none                            *)

\* The plain file as the blocks have it, now
LEMMA PlainNow ==
    ASSUME IInv
    PROVE  /\ Good(blocks) /\ Content \in Seq(Values) /\ Content = ContentOf(blocks)
           /\ Len(Content) = SizeOf(blocks) /\ Len(Content) = PlainSize /\ Len(Content) \in 0..MaxSize
           /\ call.old \in Seq(Values) /\ Len(call.old) \in 0..MaxSize
<1>1. Good(blocks)
    BY DEF IInv, Shaped, Good
<1>2. Content \in Seq(Values) /\ Content = ContentOf(blocks) /\ Len(Content) = SizeOf(blocks)
      /\ Len(Content) = PlainSize /\ Len(Content) \in 0..MaxSize
    BY <1>1, ContentOfBlocks, ContentOfIs, SizeOfIs
<1>3. call.old \in Seq(Values) /\ Len(call.old) \in 0..MaxSize
    <2>1. call.old \in Seq(Values) /\ Len(call.old) <= MaxSize
        BY DEF IInv, Shaped
    <2>2. Len(call.old) \in Nat /\ MaxSize \in Nat
        BY <2>1, FileContentAssumption
    <2> QED
        BY <2>1, <2>2
<1> QED
    BY <1>1, <1>2, <1>3

\* and after a step.
LEMMA PlainNext ==
    /\ Content' = ContentOf(blocks')
    /\ IInv' => Good(blocks')
    /\ blocks' = blocks => Content' = Content
BY DEF Content, ContentOf, PlainSize, SizeOf, IInv, Shaped, Good, Whole, EndsIn

\* A request is one of those the plain file is made for,
LEMMA StoreAsks ==
    ASSUME request = NoRequest, NEW do \in {"write", "resize"}, NEW at \in 0..MaxSize, NEW data \in Store!Data,
           at + Len(data) <= MaxSize, request' = Request(do, at, data), UNCHANGED <<OldOrNew, call.result>>
    PROVE  Store!Next
<1>1. request'.at = at /\ request'.data = data
      /\ request' \in [do : {"write", "resize"}, at : 0..MaxSize, data : Store!Data]
    BY DEF Request
<1>2. Store!Ask
    BY <1>1 DEF Store!Ask, Store!NoRequest, NoRequest, Request
<1> QED
    BY <1>2 DEF Store!Next

\* a write as a whole is a step of it,
LEMMA StoreWrites ==
    ASSUME request.do = "write", Len(request.data) > 0,
           request' = NoRequest, OldOrNew' = PutIn(OldOrNew, request.at, request.data), call'.result = "ok"
    PROVE  Store!Next
<1>1. request.data # << >>
    OBVIOUS
<1>2. Store!Write
    BY <1>1 DEF Store!Write, Store!Put, PutIn, MaxOf, Store!NoRequest, NoRequest, Request
<1> QED
    BY <1>2 DEF Store!Next

\* so is a truncation,
LEMMA StoreResizes ==
    ASSUME request.do = "resize", request' = NoRequest, OldOrNew' = Ext(OldOrNew, request.at), call'.result = "ok"
    PROVE  Store!Next
<1>1. Store!Resize
    BY DEF Store!Resize, Store!Resized, Ext, Store!NoRequest, NoRequest, Request
<1> QED
    BY <1>1 DEF Store!Next

\* and a call that ended on the way.
LEMMA StoreFails ==
    ASSUME request # NoRequest, request' = NoRequest, NEW m \in Nat, Len(OldOrNew) \in Nat,
           \/ m = Len(OldOrNew)
           \/ /\ request.do = "resize" /\ request.at \in Nat
              /\ \/ Len(OldOrNew) <= m /\ m <= request.at
                 \/ request.at < Len(OldOrNew) /\ m = request.at - (request.at % BlockSize),
           OldOrNew' = Ext(OldOrNew, m), call'.result = "failed"
    PROVE  Store!Next
<1>1. m \in Store!Leftovers
    BY DEF Store!Leftovers
<1>2. Store!Fail
    BY <1>1 DEF Store!Fail, Store!Resized, Ext, Store!NoRequest, NoRequest, Request
<1> QED
    BY <1>2 DEF Store!Next

\* The plain file during a call, and between calls.
LEMMA OldAndNew ==
    /\ call.op # "none" => OldOrNew = call.old
    /\ call.op = "none" => OldOrNew = Content
    /\ call'.op # "none" => OldOrNew' = call'.old
    /\ call'.op = "none" => OldOrNew' = Content'
BY DEF OldOrNew, Idle

\* A call that is over has succeeded or failed.
LEMMA DoneIs ==
    ASSUME NEW r, call' = Done(r), request' = NoRequest
    PROVE  call'.op = "none" /\ call'.result = r /\ Follows' /\ OldOrNew' = Content'
<1>1. call'.op = "none" /\ call'.result = r
    BY DEF Done
<1>2. Follows'
    BY <1>1 DEF Follows
<1> QED
    BY <1>1, <1>2, OldAndNew

\* Nothing happens to the file, nor to the call.
LEMMA NothingSeen ==
    ASSUME Follows, blocks' = blocks, call' = call, request' = request
    PROVE  Follows' /\ UNCHANGED <<OldOrNew, request, call.result>>
<1>1. Content' = Content
    BY PlainNext
<1>2. Follows'
    BY <1>1 DEF Follows
<1>3. OldOrNew' = OldOrNew
    BY <1>1 DEF OldOrNew, Idle
<1> QED
    BY <1>2, <1>3

\* A call that goes on leaves the plain file as it was when it began.
LEMMA GoesOnUnseen ==
    ASSUME call.op # "none", call'.op # "none", call'.old = call.old, call'.result = call.result,
           request' = request
    PROVE  UNCHANGED <<OldOrNew, request, call.result>>
BY OldAndNew

\* A call that fails before a change leaves what its changes have made of the file.
LEMMA FailsUnseen ==
    ASSUME IInv, Follows, call.op # "none", call' = Done("failed"), request' = NoRequest, blocks' = blocks
    PROVE  Follows' /\ Store!Next
<1>1. /\ call'.result = "failed" /\ Follows' /\ OldOrNew' = Content /\ OldOrNew = call.old
      /\ request # NoRequest
    BY DoneIs, PlainNext, OldAndNew DEF Follows
<1>2. /\ Content \in Seq(Values) /\ Len(Content) \in 0..MaxSize
      /\ call.old \in Seq(Values) /\ Len(call.old) \in 0..MaxSize
      /\ MaxSize \in Nat /\ BlockSize \in Nat \ {0}
    BY PlainNow, FileContentAssumption
<1>3. CASE Content = call.old
    <2>1. OldOrNew' = Ext(OldOrNew, Len(call.old)) /\ Len(call.old) \in Nat
        BY <1>1, <1>2, <1>3, ExtSelf
    <2> QED
        BY <1>1, <2>1, StoreFails
<1>4. CASE call.op = "grow"
    <2>1. PICK n \in 1..MaxSize : /\ n = request.at /\ request.do = "resize"
            /\ Len(call.old) <= Len(Content) /\ Len(Content) <= n /\ Content = Ext(call.old, Len(Content))
        BY <1>4 DEF Follows, Growing
    <2>2. n \in Nat /\ Len(Content) \in Nat /\ Len(call.old) \in Nat
        BY <1>2
    <2> QED
        BY <1>1, <2>1, <2>2, StoreFails
<1>5. CASE call.op = "shrink" /\ Content # call.old
    <2>1. PICK n \in 1..MaxSize : /\ n = request.at /\ request.do = "resize"
            /\ n < Len(call.old) /\ Content = Ext(call.old, BlockNo(n) * BlockSize)
        BY <1>5 DEF Follows, Shrinking
    <2>2. PICK m \in Nat : m = BlockNo(n) * BlockSize /\ m <= n /\ m = n - (n % BlockSize)
        <3>0. n \in Nat
            BY <1>2
        <3>1. PICK b \in Nat, r \in 0..(BlockSize - 1), y \in Nat :
                b = BlockNo(n) /\ r = n % BlockSize /\ y = b * BlockSize
            BY <3>0, BlockOf, TimesNat
        <3>2. n = y + r
            BY <3>0, <3>1, BlockOf
        <3>3. y <= n /\ y = n - r
            BY <1>2, <3>2
        <3> QED
            BY <3>1, <3>3
    <2>3. n \in Nat /\ Len(call.old) \in Nat
        BY <1>2
    <2>4. OldOrNew' = Ext(OldOrNew, m) /\ request.at < Len(OldOrNew)
          /\ m = request.at - (request.at % BlockSize)
        BY <1>1, <2>1, <2>2
    <2> QED
        BY <1>1, <2>1, <2>3, <2>4, StoreFails
<1>6. CASE call.op = "stuck"
    <2>1. blocks = << >> /\ call.old = << >>
        BY <1>6 DEF Follows
    <2>2. SizeOf(blocks) = 0
        BY <2>1 DEF SizeOf
    <2>3. Len(Content) = 0
        BY <2>2, PlainNow
    <2>4. Content = << >>
        BY <1>2, <2>3
    <2> QED
        BY <1>3, <2>1, <2>4
<1> QED
    <2>1. call.op \in {"write", "empty", "grow", "shrink", "stuck"}
        BY DEF IInv, Shaped, Calls
    <2> QED
        BY <1>3, <1>4, <1>5, <1>6, <2>1 DEF Follows

\* A call begins: the plain file is what the blocks hold, and is asked for something.
LEMMA BeginsSeen ==
    ASSUME IInv, Follows, Ready, NEW h \in Handles, NEW op \in Calls, NEW todo,
           NEW do \in {"write", "resize"}, NEW at \in 0..MaxSize, NEW data \in Pieces(MaxSize) \cup {<< >>},
           at + Len(data) <= MaxSize,
           Begin(h, op, Request(do, at, data), todo), blocks' = blocks
    PROVE  /\ call'.op = op /\ call'.todo = todo /\ call'.old = Content /\ Content' = Content
           /\ request'.do = do /\ request'.at = at /\ request'.data = data /\ request' # NoRequest
           /\ Store!Next
<1>1. /\ call'.op = op /\ call'.todo = todo /\ call'.old = Content /\ call'.result = call.result
      /\ request' = Request(do, at, data)
    BY DEF Begin, IInv, Shaped
<1>2. op # "none" /\ call.op = "none" /\ request = NoRequest
    BY DEF Calls, Ready, Idle, Follows
<1>3. Content' = Content
    BY PlainNext
<1>4. UNCHANGED <<OldOrNew, call.result>>
    BY <1>1, <1>2, <1>3, OldAndNew
<1>5. data \in Store!Data
    <2>1. MaxSize \in Nat /\ 0 \in 0..MaxSize /\ 1..MaxSize \subseteq 0..MaxSize
        BY FileContentAssumption
    <2>2. << >> \in [1..0 -> Values]
        OBVIOUS
    <2>3. CASE data = << >>
        BY <2>1, <2>2, <2>3 DEF Store!Data
    <2>4. CASE data \in Pieces(MaxSize)
        <3>1. PICK i \in 1..MaxSize : data \in [1..i -> Values]
            BY <2>4 DEF Pieces
        <3> QED
            BY <2>1, <3>1 DEF Store!Data
    <2> QED
        BY <2>3, <2>4
<1>6. request'.do = do /\ request'.at = at /\ request'.data = data /\ NoRequest.do = "none"
    BY <1>1 DEF Request, NoRequest
<1> QED
    BY <1>1, <1>2, <1>3, <1>4, <1>5, <1>6, StoreAsks

\* gcf_truncate to a larger size.
LEMMA TruncateUpSeen ==
    ASSUME IInv, Follows, NEW h \in Handles, NEW n \in 1..MaxSize, TruncateUp(h, n)
    PROVE  Follows' /\ Store!Next
<1>0. n \in 0..MaxSize /\ n + Len(<< >>) <= MaxSize
    BY FileContentAssumption
<1>1. Ready /\ n > PlainSize /\ Begin(h, "grow", Request("resize", n, << >>), TruncateGrowFile(PlainSize, n))
      /\ blocks' = blocks
    BY DEF TruncateUp
<1>2. /\ call'.op = "grow" /\ call'.todo = TruncateGrowFile(PlainSize, n) /\ call'.old = Content
      /\ Content' = Content /\ request'.do = "resize" /\ request'.at = n /\ request' # NoRequest
      /\ Store!Next
    BY <1>0, <1>1, BeginsSeen DEF Calls
<1>3. PICK c \in Seq(Values) : c = Content /\ Len(c) = PlainSize /\ Len(c) \in Nat
    BY PlainNow
<1>4. GrowTo(TruncateGrowFile(Len(c), n), Len(c), n) /\ Len(c) <= n
    <2>1. Len(c) < n /\ Len(c) <= n
        BY <1>1, <1>3, FileContentAssumption
    <2> QED
        BY <1>3, <2>1, GrowBegins
<1>5. c = Ext(c, Len(c)) /\ Len(c) <= Len(c)
    BY <1>3, ExtSelf
<1>6. Growing(c, c, TruncateGrowFile(Len(c), n), n)
    BY <1>4, <1>5 DEF Growing
<1>7. Growing(call'.old, Content', call'.todo, request'.at)
    BY <1>2, <1>3, <1>6
<1> QED
    BY <1>2, <1>7 DEF Follows

\* gcf_truncate to a smaller size.
LEMMA TruncateDownSeen ==
    ASSUME IInv, Follows, NEW h \in Handles, NEW n \in 1..MaxSize, TruncateDown(h, n)
    PROVE  Follows' /\ Store!Next
<1>0. n \in 0..MaxSize /\ n + Len(<< >>) <= MaxSize
    BY FileContentAssumption
<1>1. Ready /\ n < PlainSize /\ Begin(h, "shrink", Request("resize", n, << >>), TruncateShrink(n))
      /\ blocks' = blocks
    BY DEF TruncateDown
<1>2. /\ call'.op = "shrink" /\ call'.todo = TruncateShrink(n) /\ call'.old = Content
      /\ Content' = Content /\ request'.do = "resize" /\ request'.at = n /\ request' # NoRequest
      /\ Store!Next
    BY <1>0, <1>1, BeginsSeen DEF Calls
<1>3. Good(blocks) /\ n < SizeOf(blocks) /\ n < Len(Content)
    BY <1>1, PlainNow
<1>4. /\ n % BlockSize = 0 => TruncateShrink(n) = <<Cut(BlockNo(n))>>
      /\ n % BlockSize # 0 => TruncateShrink(n) = <<Cut(BlockNo(n)), Header, Rest(Content, n)>>
    BY <1>3, ShrinkBegins
<1>5. Shrinking(Content, Content, TruncateShrink(n), n)
    BY <1>3, <1>4 DEF Shrinking
<1>6. Shrinking(call'.old, Content', call'.todo, request'.at)
    BY <1>2, <1>5
<1> QED
    BY <1>2, <1>6 DEF Follows

\* gcf_truncate to zero.
LEMMA TruncateToZeroSeen ==
    ASSUME IInv, Follows, NEW h \in Handles, TruncateToZero(h)
    PROVE  Follows' /\ Store!Next
<1>0. 0 \in 0..MaxSize /\ 0 + Len(<< >>) <= MaxSize
    BY FileContentAssumption
<1>1. Ready /\ Begin(h, "empty", Request("resize", 0, << >>), <<CutAll>>) /\ blocks' = blocks
    BY DEF TruncateToZero
<1>2. /\ call'.op = "empty" /\ call'.old = Content /\ Content' = Content
      /\ request'.do = "resize" /\ request'.at = 0 /\ request' # NoRequest /\ Store!Next
    BY <1>0, <1>1, BeginsSeen DEF Calls
<1> QED
    BY <1>2 DEF Follows

\* gcf_write_file.
LEMMA WriteSeen ==
    ASSUME IInv, Follows, NEW h \in Handles, NEW off \in 0..MaxSize, NEW d \in Pieces(MaxSize), Write(h, off, d)
    PROVE  Follows' /\ Store!Next
<1>1. Ready /\ off + Len(d) <= MaxSize /\ Begin(h, "write", Request("write", off, d), DoWrite(off, d))
      /\ blocks' = blocks
    BY DEF Write
<1>2. /\ call'.op = "write" /\ call'.old = Content /\ Content' = Content /\ call'.todo = DoWrite(off, d)
      /\ request'.do = "write" /\ request'.at = off /\ request'.data = d /\ request' # NoRequest /\ Store!Next
    BY <1>1, BeginsSeen DEF Calls
<1>3. Writes(call'.todo, request')
    BY <1>2 DEF Writes, DoWrite
<1> QED
    BY <1>2, <1>3 DEF Follows

\* doWrite or truncateGrowFile has got a file ID, and goes on.
LEMMA HeaderUnseen ==
    ASSUME IInv, Follows, call.todo # << >>, Head(call.todo).do \in {"header", "newHeader"},
           call.op = "shrink" => Head(call.todo).do = "header",
           blocks' = blocks, call'.op = call.op, call'.todo = Tail(call.todo), call'.old = call.old,
           call'.result = call.result, request' = request
    PROVE  Follows' /\ UNCHANGED <<OldOrNew, request, call.result>>
<1>1. call.op # "none"
    BY InCall
<1>2. Content' = Content /\ UNCHANGED <<OldOrNew, request, call.result>>
    BY <1>1, PlainNext, GoesOnUnseen
<1>3. call.op = "grow" => Growing(call.old, Content, Tail(call.todo), request.at)
    BY GrowGoesOn DEF Follows, Growing
<1>4. call.op = "shrink" => Shrinking(call.old, Content, Tail(call.todo), request.at)
    BY ShrinkGoesOn DEF Follows
<1>5. call.op = "write" => Writes(Tail(call.todo), request)
    BY WriteGoesOn DEF Follows
<1> QED
    BY <1>1, <1>2, <1>3, <1>4, <1>5 DEF Follows

\* doWrite finds the ID cached or in the header.
LEMMA UseFileIDUnseen ==
    ASSUME IInv, Follows, UseFileID
    PROVE  Follows' /\ UNCHANGED <<OldOrNew, request, call.result>>
<1>1. NextIs("header") /\ call.todo # << >> /\ Head(call.todo).do = "header" /\ Advance /\ blocks' = blocks
    BY DEF UseFileID, Doing, NextIs
<1>2. Len(call.todo) # 1
    BY <1>1, InCall, HeaderNext DEF IInv
<1>3. /\ call'.op = call.op /\ call'.todo = Tail(call.todo) /\ call'.old = call.old
      /\ call'.result = call.result /\ request' = request
    BY <1>1, <1>2, AdvanceIs
<1> QED
    BY <1>1, <1>3, HeaderUnseen

\* createHeader writes a header into an empty file.
LEMMA CreateHeaderUnseen ==
    ASSUME IInv, Follows, CreateHeader
    PROVE  Follows' /\ UNCHANGED <<OldOrNew, request, call.result>>
<1>1. NeedsHeader /\ blocks' = blocks /\ request' = request
      /\ call' = [call EXCEPT !.todo = Tail(@), !.empty = Doing("header")]
    BY DEF CreateHeader
<1>2. call.todo # << >> /\ Head(call.todo).do \in {"header", "newHeader"} /\ call.op # "shrink"
    BY <1>1, HeaderNeeded DEF NextIs
<1>3. call'.op = call.op /\ call'.todo = Tail(call.todo) /\ call'.old = call.old /\ call'.result = call.result
    BY <1>1 DEF IInv, Shaped
<1> QED
    BY <1>1, <1>2, <1>3, HeaderUnseen

\* createHeader finds the disk full.
LEMMA HeaderNoSpaceSeen ==
    ASSUME IInv, Follows, HeaderNoSpace
    PROVE  Follows' /\ Store!Next
<1>1. NeedsHeader /\ call' = Done("failed") /\ request' = NoRequest /\ blocks' = blocks
    BY DEF HeaderNoSpace, Fail, End
<1>2. call.op # "none"
    BY <1>1, HeaderNeeded DEF Calls
<1> QED
    BY <1>1, <1>2, FailsUnseen

\* doWrite finds the disk full.
LEMMA WriteNoSpaceSeen ==
    ASSUME IInv, Follows, WriteNoSpace
    PROVE  Follows' /\ (Store!Next \/ UNCHANGED <<OldOrNew, request, call.result>>)
<1>1. call.op \in Calls /\ call.op # "none" /\ call.op # "stuck"
    BY PutFacts DEF WriteNoSpace, Calls
<1>2. CASE call.empty /\ call.op = "write"
    <2>1. blocks' = << >> /\ call' = [call EXCEPT !.op = "stuck", !.todo = << >>] /\ request' = request
        BY <1>2 DEF WriteNoSpace
    <2>2. call'.op = "stuck" /\ call'.old = call.old /\ call'.result = call.result
        BY <2>1 DEF IInv, Shaped
    <2>3. blocks = << >>
        BY <1>1, <1>2 DEF IInv, IdInv
    <2>4. call.old = << >>
        <3>1. Content = call.old /\ SizeOf(blocks) = 0
            BY <1>2, <2>3 DEF Follows, SizeOf
        <3>2. Content \in Seq(Values) /\ Len(Content) = 0
            BY <3>1, PlainNow
        <3>3. Content = << >>
            BY <3>2
        <3> QED
            BY <3>1, <3>3
    <2>5. Follows'
        BY <1>1, <2>1, <2>2, <2>4 DEF Follows
    <2> QED
        BY <1>1, <2>1, <2>2, <2>5, GoesOnUnseen
<1>3. CASE ~(call.empty /\ call.op = "write")
    <2>1. call' = Done("failed") /\ request' = NoRequest
        BY <1>3 DEF WriteNoSpace, Fail, End
    <2>2. blocks' = blocks
        <3>1. CASE call.empty
            BY <1>1, <3>1 DEF WriteNoSpace, IInv, IdInv
        <3>2. CASE ~call.empty
            BY <3>2 DEF WriteNoSpace
        <3> QED
            BY <3>1, <3>2
    <2> QED
        BY <1>1, <2>1, <2>2, FailsUnseen
<1> QED
    BY <1>2, <1>3

\* What doWrite writes is in the file.
LEMMA PutSeen ==
    ASSUME IInv, IInv', WriteBlocks
    PROVE  \E off \in 0..MaxSize, d \in Pieces(MaxSize) :
            /\ off + Len(d) <= MaxSize /\ d \in Seq(Values) /\ Len(d) > 0
            /\ call.todo # << >> /\ Head(call.todo) = PutData(off, d)
            /\ call.op \in {"write", "grow", "shrink"} /\ (Len(call.todo) = 1 \/ call.op = "grow")
            /\ Content' = PutIn(Content, off, d)
            /\ Advance
<1>1. /\ NextIs("put") /\ call.todo # << >> /\ call.op \in Calls
      /\ header \in IDs /\ files[call.h].id = header
    BY PutFacts DEF WriteBlocks
<1>2. PICK off \in 0..MaxSize, d \in Pieces(MaxSize) :
        /\ Head(call.todo) = PutData(off, d) /\ off + Len(d) <= MaxSize /\ Gapless(blocks, off)
        /\ call.op \in {"write", "grow", "shrink"} /\ (Len(call.todo) = 1 \/ call.op = "grow")
    BY <1>1, PutNext DEF IInv
<1>3. blocks' = Written(off, d, header) /\ Advance
    BY <1>1, <1>2, StepKinds DEF WriteBlocks, Step
<1>4. d \in Seq(Values) /\ Len(d) > 0 /\ off \in Nat
    <2>1. MaxSize \in Nat
        BY FileContentAssumption
    <2>2. d \in Seq(Values) /\ Len(d) \in 1..MaxSize
        BY <2>1, PieceIs
    <2> QED
        BY <2>1, <2>2
<1>5. Good(blocks) /\ Good(Written(off, d, header))
    BY <1>3, PlainNow, PlainNext
<1>6. Content' = PutIn(Content, off, d)
    BY <1>2, <1>3, <1>4, <1>5, WrittenContent, PlainNext
<1> QED
    BY <1>1, <1>2, <1>3, <1>4, <1>6

\* Two writes are the same if their offsets and data are.
LEMMA SamePut ==
    ASSUME NEW a, NEW b, NEW d, NEW e, PutData(a, d) = PutData(b, e)
    PROVE  a = b /\ d = e
BY StepKinds

\* Zeros written behind a file that has grown so far make it grow further.
LEMMA GrowsOn ==
    ASSUME NEW old \in Seq(Values), NEW c \in Seq(Values), Len(old) <= Len(c), c = Ext(old, Len(c)),
           NEW off \in Nat, Len(c) <= off, NEW d \in Seq(Values), Len(d) > 0, \A i \in 1..Len(d) : d[i] = Zero
    PROVE  PutIn(c, off, d) = Ext(old, off + Len(d))
<1>1. PutIn(c, off, d) = Ext(c, off + Len(d))
    BY PutZeros
<1>2. PICK m \in Nat, k \in Nat : m = Len(c) /\ k = off + Len(d) /\ Len(old) <= m
    OBVIOUS
<1>3. Ext(Ext(old, m), k) = Ext(old, k)
    BY <1>2, ExtExt
<1> QED
    BY <1>1, <1>2, <1>3

\* doWrite of the one byte that ends a file, or of the zeros that fill its last block.
LEMMA ZerosArePut ==
    /\ <<Zero>> \in Seq(Values) /\ Len(<<Zero>>) = 1 /\ \A i \in 1..Len(<<Zero>>) : <<Zero>>[i] = Zero
    /\ \A k \in 1..BlockSize : Len(Zeros(k)) = k /\ \A i \in 1..Len(Zeros(k)) : Zeros(k)[i] = Zero
<1>1. <<Zero>> \in Seq(Values) /\ Len(<<Zero>>) = 1 /\ \A i \in 1..Len(<<Zero>>) : <<Zero>>[i] = Zero
    BY FileContentAssumption
<1>2. ASSUME NEW k \in 1..BlockSize
      PROVE  Len(Zeros(k)) = k /\ \A i \in 1..Len(Zeros(k)) : Zeros(k)[i] = Zero
    <2>1. k \in Nat /\ BlockSize \in Nat /\ k \in 1..BlockSize
        BY FileContentAssumption
    <2>2. Len(Zeros(k)) = k
        BY <2>1, ZerosIs
    <2> QED
        BY <2>1, <2>2, ZeroAt
<1> QED
    BY <1>1, <1>2

\* doWrite within a write, an extension or the end of a shrinking truncate.
LEMMA WriteBlocksSeen ==
    ASSUME IInv, IInv', Follows, WriteBlocks
    PROVE  Follows' /\ (Store!Next \/ UNCHANGED <<OldOrNew, request, call.result>>)
<1>1. PICK off \in 0..MaxSize, d \in Pieces(MaxSize) :
        /\ off + Len(d) <= MaxSize /\ d \in Seq(Values) /\ Len(d) > 0
        /\ call.todo # << >> /\ Head(call.todo) = PutData(off, d)
        /\ call.op \in {"write", "grow", "shrink"} /\ (Len(call.todo) = 1 \/ call.op = "grow")
        /\ Content' = PutIn(Content, off, d)
        /\ Advance
    BY PutSeen
<1>2. PICK old \in Seq(Values), c \in Seq(Values) :
        /\ old = call.old /\ c = Content /\ Len(old) \in 0..MaxSize /\ Len(c) \in 0..MaxSize
    BY PlainNow
<1>3. call.op # "none" /\ OldOrNew = old /\ off \in Nat /\ MaxSize \in Nat
    BY <1>1, <1>2, OldAndNew, FileContentAssumption
<1>4. Len(call.todo) = 1 =>
        call' = Done("ok") /\ call'.result = "ok" /\ Follows' /\ OldOrNew' = Content' /\ request' = NoRequest
    BY <1>1, AdvanceIs, DoneIs
<1>5. Len(call.todo) # 1 =>
        /\ call'.op = call.op /\ call'.todo = Tail(call.todo) /\ call'.old = old /\ call'.result = call.result
        /\ request' = request
        /\ UNCHANGED <<OldOrNew, request, call.result>>
    BY <1>1, <1>2, <1>3, AdvanceIs, GoesOnUnseen
<1>6. Head(call.todo).do = "put"
    BY <1>1, StepKinds
<1>7. CASE call.op = "write"
    <2>1. c = old
        BY <1>2, <1>7 DEF Follows
    <2>2. OldOrNew' = PutIn(OldOrNew, off, d) /\ call'.result = "ok" /\ Follows' /\ request' = NoRequest
        BY <1>1, <1>2, <1>3, <1>4, <1>7, <2>1
    <2>3. request.do = "write" /\ PutData(off, d) = PutData(request.at, request.data)
        <3>1. request.do = "write" /\ Writes(call.todo, request)
            BY <1>7 DEF Follows
        <3>2. call.todo = <<PutData(request.at, request.data)>>
            BY <1>6, <3>1, StepKinds, Tuples DEF Writes
        <3> QED
            BY <1>1, <3>1, <3>2, Tuples
    <2>4. off = request.at /\ d = request.data
        BY <2>3, SamePut
    <2> QED
        BY <1>1, <2>2, <2>3, <2>4, StoreWrites
<1>8. CASE call.op = "shrink"
    <2>1. PICK n \in 1..MaxSize :
            /\ n = request.at /\ request.do = "resize" /\ n < Len(old)
            /\ \/ n % BlockSize = 0 /\ c = old /\ call.todo = <<Cut(BlockNo(n))>>
               \/ n % BlockSize # 0 /\ c = old /\ call.todo = <<Cut(BlockNo(n)), Header, Rest(old, n)>>
               \/ /\ n % BlockSize # 0 /\ c = Ext(old, BlockNo(n) * BlockSize)
                  /\ call.todo \in {<<Header, Rest(old, n)>>, <<Rest(old, n)>>}
        BY <1>2, <1>8 DEF Follows, Shrinking
    <2>2. n % BlockSize # 0 /\ c = Ext(old, BlockNo(n) * BlockSize) /\ call.todo = <<Rest(old, n)>>
        BY <1>6, <2>1, StepKinds, Tuples
    <2>3. PICK b \in Nat, r \in 0..(BlockSize - 1), y \in Nat :
            b = BlockNo(n) /\ r = n % BlockSize /\ y = b * BlockSize
        <3>1. n \in Nat
            BY <1>3
        <3> QED
            BY <3>1, BlockOf, TimesNat
    <2>4. n = y + r /\ n \in Nat
        BY <1>3, <2>3, BlockOf
    <2>5. y < n /\ n <= Len(old) /\ n \in 0..MaxSize
        <3>1. r # 0 /\ r \in Nat
            BY <2>2, <2>3, FileContentAssumption
        <3> QED
            BY <1>2, <1>3, <2>1, <2>4, <3>1
    <2>6. off = y /\ d = SubSeq(old, y + 1, n)
        <3>1. PICK s : s = SubSeq(old, y + 1, n)
            OBVIOUS
        <3>2. PutData(off, d) = PutData(y, s)
            BY <1>1, <2>2, <2>3, <3>1, Tuples DEF Rest
        <3>3. off = y /\ d = s
            BY <3>2, SamePut
        <3> QED
            BY <3>1, <3>3
    <2>7. PutIn(c, off, d) = Ext(old, n)
        BY <2>2, <2>3, <2>4, <2>5, <2>6, PutBack
    <2>8. OldOrNew' = Ext(OldOrNew, n) /\ call'.result = "ok" /\ Follows' /\ request' = NoRequest
        BY <1>1, <1>2, <1>3, <1>4, <1>8, <2>7
    <2> QED
        BY <2>1, <2>8, StoreResizes
<1>9. CASE call.op = "grow"
    <2>1. PICK n \in 1..MaxSize :
            /\ n = request.at /\ request.do = "resize"
            /\ Len(old) <= Len(c) /\ Len(c) <= n /\ c = Ext(old, Len(c)) /\ GrowTo(call.todo, Len(c), n)
        BY <1>2, <1>9 DEF Follows, Growing
    <2>2. PICK m \in Nat : m = Len(c) /\ n \in Nat /\ n \in 0..MaxSize
        BY <1>2, <1>3
    <2>3. CASE m < n /\ call.todo \in {<<Header, PutData(n - 1, <<Zero>>)>>, <<PutData(n - 1, <<Zero>>)>>}
        <3>1. call.todo = <<PutData(n - 1, <<Zero>>)>> /\ Len(call.todo) = 1
            BY <1>6, <2>3, StepKinds, Tuples
        <3>2. off = n - 1 /\ d = <<Zero>>
            BY <1>1, <3>1, Tuples, SamePut
        <3>3. Len(c) <= off /\ off + Len(d) = n
            <4>1. Len(d) = 1
                BY <3>2, ZerosArePut
            <4> QED
                BY <1>3, <2>2, <2>3, <3>2, <4>1
        <3>4. PutIn(c, off, d) = Ext(old, n)
            <4>1. \A i \in 1..Len(d) : d[i] = Zero
                BY <3>2, ZerosArePut
            <4>2. PutIn(c, off, d) = Ext(old, off + Len(d))
                BY <1>1, <1>3, <2>1, <3>3, <4>1, GrowsOn
            <4> QED
                BY <3>3, <4>2
        <3>5. OldOrNew' = Ext(OldOrNew, n) /\ call'.result = "ok" /\ Follows' /\ request' = NoRequest
            BY <1>1, <1>2, <1>3, <1>4, <3>1, <3>4
        <3> QED
            BY <2>1, <3>5, StoreResizes
    <2>4. ASSUME NEW k \in 1..BlockSize, NEW todo, call.todo # << >>,
                 m + k <= n, Head(call.todo) = PutData(m, Zeros(k)), Len(call.todo) # 1,
                 GrowTo(Tail(call.todo), m + k, n)
          PROVE  Follows' /\ UNCHANGED <<OldOrNew, request, call.result>>
        <3>1. off = m /\ d = Zeros(k)
            BY <1>1, <2>4, SamePut
        <3>2. Len(d) = k /\ \A i \in 1..Len(d) : d[i] = Zero
            BY <3>1, ZerosArePut
        <3>3. PutIn(c, off, d) = Ext(old, off + Len(d))
            <4>1. Len(c) <= off
                BY <2>2, <3>1
            <4> QED
                BY <1>1, <1>3, <2>1, <3>2, <4>1, GrowsOn
        <3>4. PICK z \in Nat : z = m + k /\ m <= z /\ z = off + Len(d)
            <4>1. m + k \in Nat /\ m <= m + k
                BY FileContentAssumption
            <4> QED
                BY <3>1, <3>2, <4>1
        <3>5. Content' = Ext(old, z)
            BY <1>1, <1>2, <3>3, <3>4
        <3>6. Len(Content') = z
            BY <3>5, ExtIs
        <3>7. Len(old) <= z
            BY <2>1, <2>2, <3>4
        <3>8. Growing(old, Content', Tail(call.todo), n)
            BY <2>4, <3>4, <3>5, <3>6, <3>7 DEF Growing
        <3>9. Follows'
            BY <1>5, <1>9, <2>1, <2>4, <3>8 DEF Follows
        <3> QED
            BY <1>5, <2>4, <3>9
    <2>5. ASSUME NEW k \in 1..BlockSize, m + k < n,
                 call.todo \in {<<Header, PutData(m, Zeros(k)), Header, PutData(n - 1, <<Zero>>)>>,
                                <<PutData(m, Zeros(k)), Header, PutData(n - 1, <<Zero>>)>>}
          PROVE  Follows' /\ UNCHANGED <<OldOrNew, request, call.result>>
        <3>1. call.todo = <<PutData(m, Zeros(k)), Header, PutData(n - 1, <<Zero>>)>>
            BY <1>6, <2>5, StepKinds, Tuples
        <3>2. Tail(call.todo) = <<Header, PutData(n - 1, <<Zero>>)>>
            BY <3>1, Tuples
        <3>3. GrowTo(Tail(call.todo), m + k, n) /\ m + k <= n
            BY <2>2, <2>5, <3>2, FileContentAssumption DEF GrowTo
        <3> QED
            BY <2>4, <3>1, <3>3, Tuples
    <2>6. ASSUME NEW j \in 1..MaxSize, call.todo \in {<<Stretch(j)>>, <<NewHeader, Stretch(j)>>}
          PROVE  FALSE
        BY <1>6, <2>6, StepKinds, Tuples
    <2>7. ASSUME NEW j \in 1..MaxSize, NEW k \in 1..BlockSize, n = j * BlockSize, m + k <= n,
                 call.todo \in {<<Header, PutData(m, Zeros(k)), Stretch(j)>>, <<PutData(m, Zeros(k)), Stretch(j)>>}
          PROVE  Follows' /\ UNCHANGED <<OldOrNew, request, call.result>>
        <3>1. call.todo = <<PutData(m, Zeros(k)), Stretch(j)>>
            BY <1>6, <2>7, StepKinds, Tuples
        <3>2. Tail(call.todo) = <<Stretch(j)>>
            BY <3>1, Tuples
        <3>3. GrowTo(Tail(call.todo), m + k, n)
            BY <2>7, <3>2 DEF GrowTo
        <3> QED
            BY <2>4, <2>7, <3>1, <3>3, Tuples
    <2> QED
        BY <2>1, <2>2, <2>3, <2>5, <2>6, <2>7 DEF GrowTo
<1> QED
    BY <1>1, <1>7, <1>8, <1>9

\* The cut of a shrinking truncate.
LEMMA CutBlocksSeen ==
    ASSUME IInv, IInv', Follows, CutBlocks
    PROVE  Follows' /\ (Store!Next \/ UNCHANGED <<OldOrNew, request, call.result>>)
<1>1. NextIs("cut") /\ call.todo # << >> /\ Head(call.todo).do = "cut" /\ Advance
      /\ blocks' = SubSeq(blocks, 1, Head(call.todo).to)
    BY DEF CutBlocks, Doing, NextIs, Step
<1>2. call.op = "shrink" /\ \E k \in 0..MaxSize : k < Len(blocks) /\ Head(call.todo).to = k
    BY <1>1, InCall, CutNext DEF IInv
<1>3. PICK old \in Seq(Values), c \in Seq(Values) :
        /\ old = call.old /\ c = Content /\ c = ContentOf(blocks)
        /\ Len(old) \in 0..MaxSize /\ Len(c) \in 0..MaxSize /\ Good(blocks)
    BY PlainNow
<1>4. PICK n \in 1..MaxSize :
        /\ n = request.at /\ request.do = "resize" /\ n < Len(old)
        /\ \/ n % BlockSize = 0 /\ c = old /\ call.todo = <<Cut(BlockNo(n))>>
           \/ n % BlockSize # 0 /\ c = old /\ call.todo = <<Cut(BlockNo(n)), Header, Rest(old, n)>>
           \/ /\ n % BlockSize # 0 /\ c = Ext(old, BlockNo(n) * BlockSize)
              /\ call.todo \in {<<Header, Rest(old, n)>>, <<Rest(old, n)>>}
    BY <1>2, <1>3 DEF Follows, Shrinking
<1>5. /\ c = old
      /\ \/ n % BlockSize = 0 /\ call.todo = <<Cut(BlockNo(n))>>
         \/ n % BlockSize # 0 /\ call.todo = <<Cut(BlockNo(n)), Header, Rest(old, n)>>
    BY <1>1, <1>4, StepKinds, Tuples DEF Rest
<1>6. PICK b \in Nat, r \in 0..(BlockSize - 1), y \in Nat :
        b = BlockNo(n) /\ r = n % BlockSize /\ y = b * BlockSize /\ n \in Nat /\ n \in 0..MaxSize
    <2>1. n \in Nat /\ n \in 0..MaxSize
        BY FileContentAssumption
    <2> QED
        BY <2>1, BlockOf, TimesNat
<1>7. Head(call.todo).to = b /\ b < Len(blocks)
    <2>1. Head(call.todo).to = b
        BY <1>5, <1>6, StepKinds, Tuples
    <2> QED
        BY <1>2, <2>1
<1>8. Content' = Ext(old, y)
    <2>1. Content' = ContentOf(SubSeq(blocks, 1, b))
        BY <1>1, <1>7, PlainNext
    <2> QED
        BY <1>3, <1>5, <1>6, <1>7, <2>1, CutContent
<1>9. call.op # "none" /\ OldOrNew = old
    BY <1>2, <1>3, OldAndNew
<1>10. CASE n % BlockSize = 0
    <2>1. call' = Done("ok") /\ request' = NoRequest
        BY <1>1, <1>5, <1>10, AdvanceIs, Tuples
    <2>2. y = n
        <3>1. n = y + r /\ r = 0
            BY <1>6, <1>10, BlockOf
        <3> QED
            BY <3>1
    <2>3. OldOrNew' = Ext(OldOrNew, n) /\ call'.result = "ok" /\ Follows'
        BY <1>8, <1>9, <2>1, <2>2, DoneIs
    <2> QED
        BY <1>4, <2>1, <2>3, StoreResizes
<1>11. CASE n % BlockSize # 0
    <2>1. Len(call.todo) # 1 /\ Tail(call.todo) = <<Header, Rest(old, n)>>
        <3>1. PICK cut, rest : cut = Cut(BlockNo(n)) /\ rest = Rest(old, n)
            OBVIOUS
        <3>2. call.todo = <<cut, Header, rest>>
            BY <1>5, <1>11, <3>1
        <3>3. Len(call.todo) # 1 /\ Tail(call.todo) = <<Header, rest>>
            BY <3>2, Tuples
        <3> QED
            BY <3>1, <3>3
    <2>2. /\ call'.op = call.op /\ call'.todo = Tail(call.todo) /\ call'.old = old
          /\ call'.result = call.result /\ request' = request
        BY <1>1, <1>3, <2>1, AdvanceIs
    <2>3. Shrinking(old, Content', Tail(call.todo), n)
        BY <1>4, <1>6, <1>8, <1>11, <2>1 DEF Shrinking
    <2>4. Follows'
        BY <1>2, <1>4, <2>2, <2>3 DEF Follows
    <2> QED
        BY <1>3, <1>9, <2>2, <2>4, GoesOnUnseen
<1> QED
    BY <1>10, <1>11

\* A truncate to zero.
LEMMA CutFileSeen ==
    ASSUME IInv, IInv', Follows, CutFile
    PROVE  Follows' /\ Store!Next
<1>1. call.todo # << >> /\ Head(call.todo).do = "cutAll" /\ NextIs("cutAll") /\ blocks' = << >> /\ Advance
    BY DEF CutFile, Doing, NextIs
<1>2. ~PutLeft(call.todo, blocks) /\ ~PadLeft(call.todo, blocks) /\ ~CutLeft(call.todo, blocks)
      /\ ~StretchLeft(call.todo, blocks, header) /\ call.op \in Calls
    BY <1>1, InCall, StepKinds, Tuples DEF PutLeft, PadLeft, CutLeft, StretchLeft
<1>3. call.op = "empty" /\ call.todo = <<CutAll>>
    BY <1>2 DEF IInv, CallShape, Calls
<1>4. call' = Done("ok") /\ request' = NoRequest /\ request.do = "resize" /\ request.at = 0
    BY <1>1, <1>3, AdvanceIs, Tuples DEF Follows
<1>5. call'.result = "ok" /\ Follows' /\ OldOrNew' = Content' /\ OldOrNew = call.old
    BY <1>3, <1>4, DoneIs, OldAndNew
<1>6. Content' = << >>
    <2>1. Good(blocks') /\ Content' = ContentOf(blocks')
        BY PlainNext
    <2>2. SizeOf(blocks') = 0
        BY <1>1 DEF SizeOf
    <2>3. Content' \in Seq(Values) /\ Len(Content') = 0
        BY <2>1, <2>2, ContentOfIs
    <2> QED
        BY <2>3
<1>7. Ext(call.old, 0) = << >>
    <2>1. call.old \in Seq(Values)
        BY PlainNow
    <2>2. Ext(call.old, 0) \in Seq(Values) /\ Len(Ext(call.old, 0)) = 0
        BY <2>1, ExtIs
    <2> QED
        BY <2>2
<1> QED
    BY <1>4, <1>5, <1>6, <1>7, StoreResizes

\* The end of an extension to whole blocks.
LEMMA StretchFileSeen ==
    ASSUME IInv, IInv', Follows, StretchFile
    PROVE  Follows' /\ Store!Next
<1>1. NextIs("stretch") /\ call.todo # << >> /\ Head(call.todo).do = "stretch" /\ Advance
      /\ blocks' = Stretched(Head(call.todo).to)
    BY DEF StretchFile, Doing, NextIs, Step
<1>2. call.op = "grow" /\ Len(call.todo) = 1 /\ AllFull(blocks)
    BY <1>1, InCall, StretchNext DEF IInv
<1>3. PICK j \in 1..MaxSize : j * BlockSize <= MaxSize /\ Head(call.todo).to = j
    BY <1>1, InCall, StretchNext DEF IInv
<1>4. PICK old \in Seq(Values), c \in Seq(Values) :
        /\ old = call.old /\ c = Content /\ c = ContentOf(blocks) /\ Len(c) = SizeOf(blocks)
        /\ Len(old) \in 0..MaxSize /\ Len(c) \in 0..MaxSize /\ Good(blocks)
    BY PlainNow
<1>5. PICK n \in 1..MaxSize :
        /\ n = request.at /\ request.do = "resize"
        /\ Len(old) <= Len(c) /\ Len(c) <= n /\ c = Ext(old, Len(c)) /\ GrowTo(call.todo, Len(c), n)
    BY <1>2, <1>4 DEF Follows, Growing
<1>6. n = j * BlockSize
    <2>1. \/ call.todo = <<Header, PutData(n - 1, <<Zero>>)>> \/ call.todo = <<PutData(n - 1, <<Zero>>)>>
          \/ \E k \in 1..BlockSize :
                call.todo \in {<<Header, PutData(Len(c), Zeros(k)), Header, PutData(n - 1, <<Zero>>)>>,
                               <<PutData(Len(c), Zeros(k)), Header, PutData(n - 1, <<Zero>>)>>}
          \/ \E i \in 1..MaxSize :
                n = i * BlockSize /\ call.todo \in {<<Stretch(i)>>, <<NewHeader, Stretch(i)>>}
          \/ \E i \in 1..MaxSize, k \in 1..BlockSize :
                call.todo \in {<<Header, PutData(Len(c), Zeros(k)), Stretch(i)>>,
                               <<PutData(Len(c), Zeros(k)), Stretch(i)>>}
        BY <1>5, Zenon DEF GrowTo
    <2>2. PICK i \in 1..MaxSize : n = i * BlockSize /\ call.todo \in {<<Stretch(i)>>, <<NewHeader, Stretch(i)>>}
        BY <1>1, <2>1, StepKinds, Tuples
    <2>3. call.todo = <<Stretch(i)>>
        BY <1>1, <2>2, StepKinds, Tuples
    <2>4. j = i
        BY <1>3, <2>3, StepKinds, Tuples
    <2> QED
        BY <2>2, <2>4
<1>7. j \in Nat /\ n \in Nat /\ n \in 0..MaxSize /\ Len(blocks) \in Nat /\ BlockSize \in Nat \ {0}
      /\ MaxSize \in Nat
    <2>1. Len(blocks) \in Nat
        BY <1>4, SizeOfIs
    <2> QED
        BY <2>1, FileContentAssumption
<1>8. Len(blocks) <= j
    <2> SUFFICES ASSUME j < Len(blocks) PROVE FALSE
        BY <1>7
    <2>1. j + 1 <= Len(blocks)
        BY <1>7
    <2>2. (j + 1) * BlockSize <= Len(blocks) * BlockSize /\ (j + 1) * BlockSize = j * BlockSize + BlockSize
        BY <1>7, <2>1, Times
    <2>3. SizeOf(blocks) = Len(blocks) * BlockSize
        BY <1>2, <1>4, FullBytes
    <2>4. n + BlockSize <= Len(c)
        BY <1>4, <1>6, <2>2, <2>3
    <2> QED
        BY <1>4, <1>5, <1>7, <2>4
<1>9. Content' = Ext(c, n)
    <2>1. PICK id : id = header
        OBVIOUS
    <2>2. \A i \in DOMAIN blocks : blocks[i].id \in {id, Hole}
        BY <2>1 DEF IInv, IdInv
    <2>3. ContentOf(Stretched(j)) = Ext(Content, j * BlockSize)
        BY <1>2, <1>3, <1>4, <1>8, <2>2, StretchContent
    <2>4. Content' = ContentOf(Stretched(j))
        BY <1>1, <1>3, PlainNext
    <2> QED
        BY <1>4, <1>6, <2>3, <2>4
<1>10. Ext(c, n) = Ext(old, n)
    <2>1. PICK m \in Nat : m = Len(c) /\ Len(old) <= m
        BY <1>5
    <2>2. Ext(Ext(old, m), n) = Ext(old, n)
        BY <1>7, <2>1, ExtExt
    <2> QED
        BY <1>5, <2>1, <2>2
<1>11. call' = Done("ok") /\ request' = NoRequest /\ OldOrNew = old
    BY <1>1, <1>2, <1>4, AdvanceIs, OldAndNew
<1>12. OldOrNew' = Ext(OldOrNew, n) /\ call'.result = "ok" /\ Follows'
    BY <1>9, <1>10, <1>11, DoneIs
<1> QED
    BY <1>5, <1>11, <1>12, StoreResizes

\* A kill.
LEMMA DieSeen ==
    ASSUME IInv, Follows, Die
    PROVE  Follows' /\ (Store!Next \/ UNCHANGED <<OldOrNew, request, call.result>>)
<1>1. /\ blocks' = blocks /\ call' = IF Idle THEN call ELSE Done("failed")
      /\ request' = IF Idle THEN request ELSE NoRequest
    BY DEF Die, Fail, End
<1>2. CASE Idle
    BY <1>1, <1>2, NothingSeen
<1>3. CASE ~Idle
    BY <1>1, <1>3, FailsUnseen DEF Idle
<1> QED
    BY <1>2, <1>3

\* One case per action.
LEMMA StepSeen ==
    ASSUME Careful, IInv, IInv', Follows, [Next]_vars
    PROVE  Follows' /\ (Store!Next \/ UNCHANGED <<OldOrNew, request, call.result>>)
<1>1. CASE UNCHANGED vars
    BY <1>1, NothingSeen DEF vars
<1>2. ASSUME NEW h \in Handles, Close(h) \/ Read(h) \/ \E mode \in {"read", "write"} : Open(h, mode)
      PROVE  Follows' /\ UNCHANGED <<OldOrNew, request, call.result>>
    BY <1>2, NothingSeen DEF Open, Close, Read
<1>3. ASSUME NEW h \in Handles, NEW off \in 0..MaxSize, NEW len \in MinBytes..MaxSize,
             NEW v \in Values \ {Zero}, Write(h, off, [i \in 1..len |-> v])
      PROVE  Follows' /\ Store!Next
    <2>1. len \in 1..MaxSize
        BY DEF Careful
    <2>2. [i \in 1..len |-> v] \in Pieces(MaxSize)
        BY <2>1, SameBytes
    <2> QED
        BY <1>3, <2>2, WriteSeen
<1>4. ASSUME NEW h \in Handles, TruncateToZero(h)
      PROVE  Follows' /\ Store!Next
    BY <1>4, TruncateToZeroSeen
<1>5. ASSUME NEW h \in Handles, NEW n \in 1..MaxSize, TruncateUp(h, n) \/ TruncateDown(h, n)
      PROVE  Follows' /\ Store!Next
    BY <1>5, TruncateUpSeen, TruncateDownSeen
<1>10. ASSUME NEW h \in Handles, ReadNothing(h) PROVE FALSE
    BY <1>10 DEF ReadNothing, Careful
<1>6. CASE UseFileID \/ BadHeader \/ CreateHeader \/ HeaderNoSpace
    BY <1>6, UseFileIDUnseen, BadHeaderNever, CreateHeaderUnseen, HeaderNoSpaceSeen
<1>7. CASE WriteBlocks \/ WriteNoSpace
    BY <1>7, WriteBlocksSeen, WriteNoSpaceSeen
<1>8. CASE ReadBackFails \/ NoBlocks
    BY <1>8, AlwaysMergeable, PutHasData DEF ReadBackFails, NoBlocks
<1>9. CASE CutBlocks \/ CutFile \/ StretchFile \/ Die
    BY <1>9, CutBlocksSeen, CutFileSeen, StretchFileSeen, DieSeen
<1> QED
    BY <1>1, <1>2, <1>3, <1>4, <1>5, <1>6, <1>7, <1>8, <1>9, <1>10 DEF Next

\* A new file is an empty plain file.
LEMMA StoreInit == Init => Follows /\ Store!Init
<1> SUFFICES ASSUME Init PROVE Follows /\ Store!Init
    OBVIOUS
<1>1. call.op = "none" /\ call.result = "ok" /\ blocks = << >> /\ request = NoRequest
    BY DEF Init, Done
<1>2. Content = << >>
    <2>1. IInv
        BY InitHolds
    <2>2. SizeOf(blocks) = 0
        BY <1>1 DEF SizeOf
    <2>3. Content \in Seq(Values) /\ Len(Content) = 0
        BY <2>1, <2>2, PlainNow
    <2> QED
        BY <2>3
<1>3. OldOrNew = << >>
    BY <1>1, <1>2, OldAndNew
<1> QED
    BY <1>1, <1>3 DEF Follows, Store!Init, Store!NoRequest, NoRequest, Request

\* To the client, doWrite, truncate and truncateGrowFile on encrypted blocks, with their
\* read-modify-write, padding and holes, are a plain file: a write puts the data it was given
\* where it was told to, a truncation gives the size it was asked for, and neither changes
\* anything else; when a call fails or the process is killed, what is left is old bytes up to
\* where the call worked.
THEOREM IsAPlainFile ==
    ASSUME Careful
    PROVE  Spec => ImplementsPlainFile
<1>1. Init => Follows /\ Store!Init
    BY StoreInit
<1>2. IInv /\ IInv' /\ Follows /\ [Next]_vars => Follows' /\ [Store!Next]_<<OldOrNew, request, call.result>>
    BY StepSeen
<1> QED
    BY <1>1, <1>2, Invariant, PTL DEF Spec, ImplementsPlainFile, Store!Spec
===============================================================================
