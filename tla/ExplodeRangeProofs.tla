-------------------------- MODULE ExplodeRangeProofs --------------------------
(* Theorems about ContentOffsets and ExplodeRange, for every block size,   *)
(* overhead, header length and request.                                    *)
EXTENDS ExplodeRange, TLAPS

\* No request reaches past the end of the unsigned word: with it, adding to an
\* offset does not wrap around.  The callers of the library pass positions of
\* an int64, of which Word holds twice as many.
RequestsFit == \A o \in Offsets, l \in Lengths : o + l < Word

\* Nor does the ciphertext of a request.
CiphertextFits ==
    \A o \in Offsets, l \in Lengths :
        HeaderLen + ((o + l) \div PlainBS + 1) * CipherBS < Word

-----------------------------------------------------------------------------
(* Division with remainder.                                                *)

\* Quotient and remainder are natural and bound what is divided.
LEMMA DivMod ==
    ASSUME NEW a \in Nat, NEW b \in Nat \ {0}
    PROVE  /\ a \div b \in Nat
           /\ a % b \in 0..(b - 1)
           /\ a = b * (a \div b) + (a % b)
           /\ (a \div b) * b <= a
           /\ a < ((a \div b) + 1) * b
  OBVIOUS

\* A number written as quotient and remainder has them.
LEMMA DivUnique ==
    ASSUME NEW q \in Nat, NEW b \in Nat \ {0}, NEW r \in 0..(b - 1)
    PROVE  (q * b + r) \div b = q /\ (q * b + r) % b = r
  OBVIOUS

\* The block number of a position between two block boundaries.
LEMMA NextDivision ==
    ASSUME NEW q \in Nat, NEW b \in Nat \ {0}, NEW a \in Nat,
           q * b <= a, a < (q + 1) * b
    PROVE  a \div b = q
  <1>1. a - q * b \in 0..(b - 1)
    OBVIOUS
  <1>2. a = q * b + (a - q * b)
    OBVIOUS
  <1> QED  BY <1>1, <1>2, DivUnique

\* The rest of the request, or of the block, whichever ends first.
LEMMA BlockEnd ==
    ASSUME NEW o \in Nat, NEW l \in Nat \ {0}, NEW s \in Nat, NEW b \in Nat,
           s <= o, o < s + b, o + l < Word, Word \in Nat,
           NEW end, end = MinUint64(o + l, s + b)
    PROVE  /\ MinUint64(l, b - (o - s)) = end - o
           /\ end - o \in 1..l
           /\ o - s \in Nat
           /\ o + (end - o) = end
           /\ Uint(o + (end - o)) = end
  BY DEF MinUint64, Uint

-----------------------------------------------------------------------------
(* The inductive invariant of the loop: the offset is the request's start, *)
(* or the boundary after the last block, or the request's end.             *)

Block0 == PlainOffToBlockNo(off0)

LoopInv ==
    /\ TypeOK
    /\ offset + length = off0 + len0
    /\ \A i \in 1..Len(blocks) : blocks[i] = BlockAt(i)
    /\ Len(blocks) = 0 => offset = off0
    /\ Len(blocks) > 0 =>
        /\ len0 > 0
        /\ (Block0 + Len(blocks) - 1) * PlainBS < off0 + len0
        /\ offset = MinUint64(off0 + len0, (Block0 + Len(blocks)) * PlainBS)

\* The loop invariant holds before the first iteration.
LEMMA LoopInvInit == Init => LoopInv
  BY RangesAssumption DEF Init, LoopInv, TypeOK, IntraBlock

\* What one iteration appends is the closed form's next block.
LEMMA NextBlockIsBlockAt ==
    ASSUME LoopInv, length > 0, RequestsFit
    PROVE  /\ NextBlock = BlockAt(Len(blocks) + 1)
           /\ NextBlock \in IntraBlock
           /\ NextBlock.Length \in 1..length
           /\ (Block0 + Len(blocks)) * PlainBS < off0 + len0
           /\ Uint(offset + NextBlock.Length)
                = MinUint64(off0 + len0, (Block0 + Len(blocks) + 1) * PlainBS)
           /\ Uint(offset + NextBlock.Length) = offset + NextBlock.Length
  <1> DEFINE n == Len(blocks)
             q == Block0 + n
  <1>1. /\ off0 \in Nat /\ len0 \in Nat /\ offset \in Nat /\ length \in Nat
        /\ n \in Nat /\ off0 + len0 < Word /\ len0 > 0
        /\ PlainBS \in Nat \ {0} /\ Word \in Nat \ {0}
    BY RangesAssumption, OffsetsAssumption DEF LoopInv, TypeOK, RequestsFit
  <1>2. /\ Block0 \in Nat /\ q \in Nat
        /\ Block0 * PlainBS <= off0 /\ off0 < (Block0 + 1) * PlainBS
    <2>1. /\ off0 \div PlainBS \in Nat
          /\ (off0 \div PlainBS) * PlainBS <= off0
          /\ off0 < ((off0 \div PlainBS) + 1) * PlainBS
      BY <1>1, DivMod
    <2>2. Block0 = off0 \div PlainBS
      BY DEF Block0, PlainOffToBlockNo
    <2> QED  BY <2>1, <2>2, <1>1
  <1>3. /\ q * PlainBS <= offset /\ offset < (q + 1) * PlainBS
        /\ q * PlainBS < off0 + len0
        /\ offset = (IF n = 0 THEN off0 ELSE q * PlainBS)
    <2>1. CASE n = 0
      BY <2>1, <1>1, <1>2 DEF LoopInv
    <2>2. CASE n > 0
      <3>1. offset = MinUint64(off0 + len0, q * PlainBS)
        BY <2>2 DEF LoopInv
      <3>2. offset < off0 + len0
        BY <1>1 DEF LoopInv
      <3>3. q * PlainBS \in Nat /\ (q + 1) * PlainBS = q * PlainBS + PlainBS
        BY <1>1, <1>2
      <3> HIDE DEF q
      <3>4. offset = q * PlainBS /\ q * PlainBS < off0 + len0
        BY <3>1, <3>2, <3>3, <1>1 DEF MinUint64
      <3> QED  BY <3>3, <3>4, <2>2, <1>1
    <2> QED  BY <2>1, <2>2, <1>1
  <1>4. PlainOffToBlockNo(offset) = q
    BY <1>1, <1>2, <1>3, NextDivision DEF PlainOffToBlockNo
  <1>5. BlockNoToPlainOff(q) = q * PlainBS
    BY <1>1, <1>2, <1>3 DEF BlockNoToPlainOff, Uint
  <1>6. q * PlainBS \in Nat /\ (q + 1) * PlainBS = q * PlainBS + PlainBS
    BY <1>1, <1>2
  <1> DEFINE skip == offset - q * PlainBS
             end  == MinUint64(off0 + len0, (q + 1) * PlainBS)
  <1>7. NextBlock = [BlockNo |-> q, Skip |-> skip,
                     Length |-> MinUint64(length, PlainBS - skip)]
    BY <1>4, <1>5 DEF NextBlock
  <1>8. /\ MinUint64(length, PlainBS - skip) = end - offset
        /\ end - offset \in 1..length
        /\ skip \in Nat
        /\ offset + (end - offset) = end
        /\ Uint(offset + (end - offset)) = end
    <2>1. offset + length = off0 + len0
      BY DEF LoopInv
    <2> HIDE DEF q
    <2>2. offset < q * PlainBS + PlainBS /\ q * PlainBS <= offset
      BY <1>3, <1>6
    <2>3. length \in Nat \ {0}
      BY <1>1
    <2>4. end = MinUint64(offset + length, q * PlainBS + PlainBS)
      BY <1>6, <2>1
    <2>5. offset + length < Word /\ offset \in Nat /\ PlainBS \in Nat /\ Word \in Nat
      BY <1>1, <2>1
    <2> DEFINE start == q * PlainBS
    <2>6. /\ start \in Nat /\ start <= offset /\ offset < start + PlainBS
          /\ end = MinUint64(offset + length, start + PlainBS)
          /\ skip = offset - start
      BY <1>6, <2>2, <2>4
    <2> HIDE DEF end, start, skip
    <2>7. /\ MinUint64(length, PlainBS - (offset - start)) = end - offset
          /\ end - offset \in 1..length
          /\ offset - start \in Nat
          /\ offset + (end - offset) = end
          /\ Uint(offset + (end - offset)) = end
      BY <2>3, <2>5, <2>6, BlockEnd
    <2> QED  BY <2>6, <2>7
  <1>9. BlockAt(n + 1) = [BlockNo |-> q, Skip |-> skip, Length |-> end - offset]
    <2>1. Block0 + (n + 1) - 1 = q
      BY <1>1, <1>2
    <2>2. (n + 1 = 1) <=> (n = 0)
      BY <1>1
    <2> QED  BY <2>1, <2>2, <1>3 DEF BlockAt, Block0
  <1>10. NextBlock = BlockAt(n + 1)
    BY <1>7, <1>8, <1>9
  <1>11. NextBlock \in IntraBlock /\ NextBlock.Length = end - offset
    BY <1>7, <1>8, <1>2 DEF IntraBlock
  <1> QED  BY <1>3, <1>8, <1>10, <1>11

\* An iteration keeps the loop invariant.
LEMMA LoopInvStep == RequestsFit /\ LoopInv /\ [Next]_vars => LoopInv'
  <1> SUFFICES ASSUME RequestsFit, LoopInv, [Next]_vars PROVE LoopInv'
    OBVIOUS
  <1>1. CASE UNCHANGED vars
    BY <1>1 DEF LoopInv, TypeOK, vars, BlockAt, Block0
  <1>2. CASE Iterate
    <2> USE <1>2 DEF Iterate
    <2> DEFINE n == Len(blocks)
    <2>1. /\ n \in Nat /\ blocks \in Seq(IntraBlock) /\ off0 \in Nat /\ len0 \in Nat
          /\ offset \in Nat /\ length \in Nat
      BY RangesAssumption DEF LoopInv, TypeOK
    <2>2. /\ NextBlock = BlockAt(n + 1)
          /\ NextBlock \in IntraBlock
          /\ NextBlock.Length \in 1..length
          /\ (Block0 + n) * PlainBS < off0 + len0
          /\ Uint(offset + NextBlock.Length)
                = MinUint64(off0 + len0, (Block0 + n + 1) * PlainBS)
          /\ Uint(offset + NextBlock.Length) = offset + NextBlock.Length
      BY NextBlockIsBlockAt
    <2>3. /\ Len(blocks') = n + 1
          /\ blocks' \in Seq(IntraBlock)
          /\ \A i \in 1..n : blocks'[i] = blocks[i]
          /\ blocks'[n + 1] = NextBlock
      BY <2>1, <2>2
    <2>4. TypeOK'
      <3>1. \A k \in 1..length : offset + k \in Nat /\ length - k \in Nat
        BY <2>1
      <3>2. offset' \in Nat /\ length' \in Nat
        BY <2>2, <3>1
      <3> QED  BY <2>1, <2>3, <3>2 DEF LoopInv, TypeOK
    <2>5. offset' + length' = off0' + len0'
      <3>1. offset + length = off0 + len0
        BY DEF LoopInv
      <3>2. \A k \in 1..length : (offset + k) + (length - k) = offset + length
        BY <2>1
      <3> QED  BY <2>2, <3>1, <3>2
    <2>6. \A i \in 1..Len(blocks') : blocks'[i] = BlockAt(i)'
      <3>1. \A i : BlockAt(i)' = BlockAt(i)
        BY DEF BlockAt
      <3> QED  BY <3>1, <2>1, <2>2, <2>3 DEF LoopInv
    <2>7. /\ Len(blocks') > 0 /\ len0' > 0
          /\ (Block0' + Len(blocks') - 1) * PlainBS < off0' + len0'
          /\ offset' = MinUint64(off0' + len0', (Block0' + Len(blocks')) * PlainBS)
      <3>1. Block0' = Block0 /\ Block0 \in Nat
        BY <2>1, DivMod, OffsetsAssumption DEF Block0, PlainOffToBlockNo
      <3>2. Block0 + (n + 1) - 1 = Block0 + n /\ Block0 + (n + 1) = Block0 + n + 1
        BY <3>1, <2>1
      <3>3. len0 > 0
        BY <2>1, <2>2 DEF LoopInv
      <3> QED  BY <2>1, <2>2, <2>3, <3>1, <3>2, <3>3
    <2> QED  BY <2>1, <2>3, <2>4, <2>5, <2>6, <2>7 DEF LoopInv
  <1> QED  BY <1>1, <1>2 DEF Next

\* The loop invariant holds of every behaviour.
LEMMA LoopInvAlways == ASSUME RequestsFit PROVE Spec => []LoopInv
  <1>1. LoopInv /\ [Next]_vars => LoopInv'
    BY LoopInvStep
  <1> QED  BY <1>1, LoopInvInit, PTL DEF Spec

-----------------------------------------------------------------------------
(* The theorems.                                                           *)

\* TypeOK: the loop keeps natural numbers and well-formed blocks
\* (offsets.go:91-107).
THEOREM LoopTypes == ASSUME RequestsFit PROVE Spec => []TypeOK
  <1>1. LoopInv => TypeOK
    BY DEF LoopInv
  <1> QED  BY <1>1, LoopInvAlways, PTL

\* ExplodePlainRange returns exactly the consecutive blocks of the request,
\* whatever the block size, the offset and the length (offsets.go:90-108).
THEOREM ExplodedRange == ASSUME RequestsFit PROVE Spec => []BlocksAreTheRequest
  <1>1. LoopInv => BlocksAreTheRequest
    <2> SUFFICES ASSUME LoopInv PROVE BlocksAreTheRequest
      OBVIOUS
    <2> DEFINE n == Len(blocks)
    <2>1. /\ off0 \in Nat /\ len0 \in Nat /\ offset \in Nat /\ length \in Nat
          /\ n \in Nat /\ PlainBS \in Nat \ {0} /\ blocks \in Seq(IntraBlock)
      BY RangesAssumption, OffsetsAssumption DEF LoopInv, TypeOK
    <2>2. ASSUME Done, len0 > 0
          PROVE  /\ blocks # << >>
                 /\ LastBlock(blocks).BlockNo = (off0 + len0 - 1) \div PlainBS
      <3>1. n > 0
        BY <2>1, <2>2 DEF LoopInv, Done
      <3>2. Block0 \in Nat
        BY <2>1, DivMod DEF Block0, PlainOffToBlockNo
      <3> DEFINE b == Block0 + n - 1
      <3>3. b \in Nat /\ b + 1 = Block0 + n
        BY <3>1, <3>2, <2>1
      <3>4. /\ b * PlainBS < off0 + len0
            /\ off0 + len0 = MinUint64(off0 + len0, (b + 1) * PlainBS)
        <4>1. /\ (Block0 + n - 1) * PlainBS < off0 + len0
              /\ offset = MinUint64(off0 + len0, (Block0 + n) * PlainBS)
              /\ offset + length = off0 + len0
          BY <3>1 DEF LoopInv
        <4>2. offset = off0 + len0
          BY <4>1, <2>1, <2>2 DEF Done
        <4> QED  BY <4>1, <4>2, <3>3
      <3>5. LastBlock(blocks).BlockNo = b
        <4>1. n \in 1..Len(blocks)
          BY <3>1, <2>1
        <4>2. blocks[n] = BlockAt(n)
          BY <4>1 DEF LoopInv
        <4> QED  BY <4>2 DEF LastBlock, BlockAt, Block0
      <3> HIDE DEF b
      <3>6. b * PlainBS \in Nat /\ (b + 1) * PlainBS \in Nat
        BY <2>1, <3>3
      <3>7. b * PlainBS <= off0 + len0 - 1 /\ off0 + len0 - 1 < (b + 1) * PlainBS
        BY <3>4, <3>6, <2>1, <2>2 DEF MinUint64
      <3>8. (off0 + len0 - 1) \div PlainBS = b
        <4>1. off0 + len0 - 1 \in Nat
          BY <2>1, <2>2
        <4> QED  BY <4>1, <3>3, <3>7, <2>1, NextDivision
      <3>9. blocks # << >>
        BY <3>1
      <3> QED  BY <3>5, <3>8, <3>9
    <2> QED  BY <2>2 DEF LoopInv, BlocksAreTheRequest
  <1> QED  BY <1>1, LoopInvAlways, PTL

\* A block with a greater number does not start earlier.
LEMMA Increasing ==
    ASSUME NEW i \in Nat, NEW j \in Nat, NEW b \in Nat, i <= j
    PROVE  i * b <= j * b /\ i * b \in Nat /\ j * b \in Nat
  OBVIOUS

\* Only the first and the last block of a request are read, modified and
\* written back (file.go:208-222).
THEOREM PartialEnds == ASSUME RequestsFit PROVE Spec => []OnlyEndsArePartial
  <1>1. LoopInv => OnlyEndsArePartial
    <2> SUFFICES ASSUME LoopInv, NEW i \in 1..Len(blocks)
                 PROVE  /\ blocks[i].Length > 0
                        /\ blocks[i].Skip + blocks[i].Length <= PlainBS
                        /\ i > 1 => blocks[i].Skip = 0
                        /\ i < Len(blocks) => blocks[i].Skip + blocks[i].Length = PlainBS
      BY DEF OnlyEndsArePartial
    <2> DEFINE n == Len(blocks)
               b == Block0 + i - 1
    <2>1. /\ off0 \in Nat /\ len0 \in Nat /\ n \in Nat /\ n > 0 /\ len0 > 0
          /\ PlainBS \in Nat \ {0} /\ i \in Nat /\ 1 <= i /\ i <= n
      BY RangesAssumption, OffsetsAssumption DEF LoopInv, TypeOK
    <2>2. /\ Block0 \in Nat
          /\ Block0 * PlainBS <= off0
          /\ off0 < (Block0 + 1) * PlainBS
      <3>1. Block0 = off0 \div PlainBS
        BY DEF Block0, PlainOffToBlockNo
      <3> QED  BY <2>1, <3>1, DivMod
    <2>3. b \in Nat /\ (i = 1 => b = Block0) /\ Block0 + n - 1 \in Nat
      BY <2>1, <2>2
    <2>4. b * PlainBS \in Nat /\ (b + 1) * PlainBS = b * PlainBS + PlainBS
      BY <2>1, <2>3
    <2>5. b * PlainBS < off0 + len0
      <3>1. b <= Block0 + n - 1
        BY <2>1, <2>2
      <3>2. b * PlainBS <= (Block0 + n - 1) * PlainBS /\ (Block0 + n - 1) * PlainBS \in Nat
        <4> DEFINE m == Block0 + n - 1
        <4>1. m \in Nat /\ b <= m
          BY <3>1, <2>3
        <4> HIDE DEF b, m
        <4>2. b * PlainBS <= m * PlainBS /\ m * PlainBS \in Nat
          BY <4>1, <2>1, <2>3, Increasing
        <4> QED  BY <4>2 DEF m
      <3>3. (Block0 + n - 1) * PlainBS < off0 + len0
        BY <2>1 DEF LoopInv
      <3> HIDE DEF b
      <3> QED  BY <3>2, <3>3, <2>1, <2>4
    <2>6. ASSUME i < n PROVE (b + 1) * PlainBS < off0 + len0
      <3> DEFINE m == Block0 + n - 1
      <3>1. b + 1 <= m /\ m \in Nat /\ b + 1 \in Nat
        BY <2>1, <2>2, <2>6
      <3>2. m * PlainBS < off0 + len0
        BY <2>1 DEF LoopInv
      <3> HIDE DEF b, m
      <3>3. (b + 1) * PlainBS <= m * PlainBS /\ m * PlainBS \in Nat
        BY <3>1, <2>1, Increasing
      <3> QED  BY <3>2, <3>3, <2>1, <2>3, <2>4
    <2> DEFINE start == IF i = 1 THEN off0 ELSE b * PlainBS
               end   == MinUint64(off0 + len0, (b + 1) * PlainBS)
    <2>7. blocks[i] = [BlockNo |-> b, Skip |-> start - b * PlainBS, Length |-> end - start]
      BY DEF LoopInv, BlockAt, Block0
    <2>8. /\ b * PlainBS <= start /\ start < b * PlainBS + PlainBS
          /\ start < off0 + len0 /\ start \in Nat
          /\ i > 1 => start = b * PlainBS
      <3> HIDE DEF b
      <3>1. CASE i = 1
        BY <3>1, <2>1, <2>2, <2>3, <2>4
      <3>2. CASE i > 1
        BY <3>2, <2>1, <2>4, <2>5
      <3> QED  BY <3>1, <3>2, <2>1
    <2> HIDE DEF b, start
    <2>9. /\ start < end /\ end <= b * PlainBS + PlainBS
          /\ i < n => end = b * PlainBS + PlainBS
      BY <2>1, <2>4, <2>6, <2>8 DEF MinUint64
    <2>10. end \in Nat
      BY <2>1, <2>4 DEF MinUint64
    <2> HIDE DEF end
    <2> QED  BY <2>1, <2>4, <2>7, <2>8, <2>9, <2>10
  <1> QED  BY <1>1, LoopInvAlways, PTL

\* A request of at most MAX_KERNEL_WRITE bytes never overruns the pooled
\* request buffers (content.go:63-68 against file.go:132-133).
THEOREM PoolsLargeEnough ==
    ASSUME RequestsFit, CiphertextFits PROVE Spec => []RequestFitsPools
  <1>1. LoopInv => RequestFitsPools
    <2> SUFFICES ASSUME LoopInv, Done, blocks # << >>, len0 <= MaxKernelWrite
                 PROVE  /\ JointCiphertextLength(blocks) <= CReqSize
                        /\ JointPlaintextLength <= PReqSize
      BY DEF RequestFitsPools
    <2> DEFINE n == Len(blocks)
               k == MaxKernelWrite \div PlainBS
               l == Block0 + n - 1
               t == (off0 + len0) \div PlainBS
    <2>1. /\ off0 \in Nat /\ len0 \in Nat /\ n \in Nat /\ n > 0 /\ off0 + len0 \in Nat
          /\ PlainBS \in Nat \ {0} /\ BlockOverhead \in Nat \ {0} /\ HeaderLen \in Nat \ {0}
          /\ Word \in Nat \ {0} /\ MaxKernelWrite \in Nat
          /\ CipherBS \in Nat \ {0} /\ blocks \in Seq(IntraBlock)
      BY RangesAssumption, OffsetsAssumption DEF LoopInv, TypeOK, CipherBS
    <2>2. /\ Block0 \in Nat
          /\ Block0 * PlainBS <= off0
          /\ off0 < (Block0 + 1) * PlainBS
      <3>1. Block0 = off0 \div PlainBS
        BY DEF Block0, PlainOffToBlockNo
      <3> QED  BY <2>1, <3>1, DivMod
    <2>3. k \in Nat /\ MaxKernelWrite = k * PlainBS
      <3>1. MaxKernelWrite % PlainBS = 0
        BY OffsetsAssumption
      <3>2. k \in Nat /\ MaxKernelWrite = PlainBS * k + (MaxKernelWrite % PlainBS)
        BY <2>1, DivMod
      <3> HIDE DEF k
      <3> QED  BY <2>1, <3>1, <3>2
    <2>4. /\ t \in Nat /\ off0 + len0 < (t + 1) * PlainBS
          /\ HeaderLen + (t + 1) * CipherBS < Word
      <3>1. off0 \in Offsets /\ len0 \in Lengths
        BY DEF LoopInv, TypeOK
      <3> QED  BY <2>1, <3>1, DivMod DEF CiphertextFits
    <2>5. l \in Nat /\ l * PlainBS < off0 + len0 /\ l * PlainBS \in Nat
      BY <2>1, <2>2 DEF LoopInv
    <2>6. /\ FirstBlock(blocks).BlockNo = Block0
          /\ LastBlock(blocks).BlockNo = l
      <3>1. 1 \in 1..Len(blocks) /\ n \in 1..Len(blocks)
        BY <2>1
      <3>2. blocks[1] = BlockAt(1) /\ blocks[n] = BlockAt(n)
        BY <3>1 DEF LoopInv
      <3>3. BlockAt(1).BlockNo = Block0 + 1 - 1
        BY DEF BlockAt, Block0
      <3>4. BlockAt(n).BlockNo = l
        BY DEF BlockAt, Block0
      <3> QED  BY <3>2, <3>3, <3>4, <2>2 DEF FirstBlock, LastBlock
    <2>7. l <= t
      <3> HIDE DEF l, t
      <3>1. CASE t + 1 <= l
        <4>1. (t + 1) * PlainBS <= l * PlainBS
          BY <3>1, <2>1, <2>4, <2>5, Increasing
        <4>2. (t + 1) * PlainBS \in Nat
          BY <2>1, <2>4
        <4> QED  BY <4>1, <4>2, <2>1, <2>4, <2>5
      <3> QED  BY <3>1, <2>4, <2>5
    <2>8. n <= k + 1
      <3> DEFINE m == Block0 + 1 + k
      <3>1. m \in Nat /\ m * PlainBS = (Block0 + 1) * PlainBS + k * PlainBS
        <4>1. \A x, y, b \in Nat : (x + 1 + y) * b = (x + 1) * b + y * b
          OBVIOUS
        <4> HIDE DEF k
        <4> QED  BY <4>1, <2>1, <2>2, <2>3
      <3>2. off0 + len0 < m * PlainBS
        <4>1. (Block0 + 1) * PlainBS \in Nat /\ k * PlainBS \in Nat
          BY <2>1, <2>2, <2>3
        <4> HIDE DEF m
        <4> QED  BY <4>1, <3>1, <2>1, <2>2, <2>3
      <3>3. l < m
        <4> HIDE DEF l, m
        <4>1. CASE m <= l
          <5>1. m * PlainBS <= l * PlainBS /\ m * PlainBS \in Nat
            BY <4>1, <3>1, <2>1, <2>5, Increasing
          <5> QED  BY <5>1, <3>2, <2>1, <2>5
        <4> QED  BY <4>1, <3>1, <2>5
      <3> QED  BY <3>3, <2>1, <2>2, <2>3
    <2>9. /\ BlockNoToCipherOff(Block0) = HeaderLen + Block0 * CipherBS
          /\ BlockNoToCipherOff(l) = HeaderLen + l * CipherBS
          /\ Block0 * CipherBS \in Nat /\ l * CipherBS \in Nat
          /\ HeaderLen + l * CipherBS + CipherBS < Word
      <3>1. Block0 <= l
        BY <2>1, <2>2
      <3> HIDE DEF l, t
      <3>2. l * CipherBS <= t * CipherBS /\ t * CipherBS \in Nat /\ l * CipherBS \in Nat
        BY <2>1, <2>4, <2>5, <2>7, Increasing
      <3>3. Block0 * CipherBS <= l * CipherBS /\ Block0 * CipherBS \in Nat
        BY <2>1, <2>2, <2>5, <3>1, Increasing
      <3>4. (t + 1) * CipherBS = t * CipherBS + CipherBS
        BY <2>1, <2>4
      <3>5. HeaderLen + l * CipherBS + CipherBS < Word
        BY <3>2, <3>4, <2>1, <2>4
      <3>6. HeaderLen + l * CipherBS < Word /\ HeaderLen + Block0 * CipherBS < Word
        BY <3>2, <3>3, <3>5, <2>1
      <3>7. \A x \in Nat : x < Word => x % Word = x
        BY <2>1
      <3>8. HeaderLen + l * CipherBS \in Nat /\ HeaderLen + Block0 * CipherBS \in Nat
        BY <3>2, <3>3, <2>1
      <3> QED  BY <3>2, <3>3, <3>5, <3>6, <3>7, <3>8 DEF BlockNoToCipherOff, Uint
    <2>10. JointCiphertextLength(blocks) = n * CipherBS
      <3>1. l * CipherBS = Block0 * CipherBS + n * CipherBS - CipherBS
        <4>1. \A x, y, c \in Nat : (x + y - 1) * c = x * c + y * c - c
          OBVIOUS
        <4> HIDE DEF n
        <4> QED  BY <4>1, <2>1, <2>2
      <3>2. n * CipherBS \in Nat
        BY <2>1
      <3> HIDE DEF l
      <3>3. (HeaderLen + l * CipherBS) + CipherBS - (HeaderLen + Block0 * CipherBS)
                = n * CipherBS
        BY <3>1, <3>2, <2>1, <2>9
      <3>4. n * CipherBS < Word
        BY <3>1, <3>2, <2>1, <2>9
      <3>5. (n * CipherBS) % Word = n * CipherBS
        BY <3>2, <3>4, <2>1
      <3> QED  BY <3>3, <3>5, <2>6, <2>9 DEF JointCiphertextLength, Uint
    <2> DEFINE k1 == k + 1
    <2>11. n * CipherBS <= k1 * CipherBS /\ n * PlainBS <= k1 * PlainBS /\ k1 \in Nat
      <3>1. k1 \in Nat /\ n <= k1
        BY <2>3, <2>8
      <3> HIDE DEF k1
      <3> QED  BY <3>1, <2>1, Increasing
    <2>12. CReqSize = k1 * CipherBS /\ PReqSize = k1 * PlainBS
      BY <2>1, <2>3 DEF CReqSize, CReqSizeAligned, PReqSize
    <2>13. JointPlaintextLength = n * PlainBS
      BY <2>1 DEF JointPlaintextLength
    <2> QED  BY <2>10, <2>11, <2>12, <2>13
  <1> QED  BY <1>1, LoopInvAlways, PTL

-----------------------------------------------------------------------------
(* File sizes.                                                             *)

\* The size the library reports for a file of plainSize bytes is plainSize
\* (offsets.go:32-87, used by helpers.go translateSize).
THEOREM SizeRoundTripForAll ==
    ASSUME NEW plainSize \in Nat,
           HeaderLen + (plainSize \div PlainBS + 1) * CipherBS < Word
    PROVE  CipherSizeToPlainSize(PlainSizeToCipherSize(plainSize)) = plainSize
  <1>1. /\ PlainBS \in Nat \ {0} /\ BlockOverhead \in Nat \ {0}
        /\ HeaderLen \in Nat \ {0} /\ Word \in Nat \ {0}
        /\ CipherBS \in Nat \ {0} /\ CipherBS = PlainBS + BlockOverhead
    BY OffsetsAssumption DEF CipherBS
  <1>2. CASE plainSize = 0
    BY <1>1, <1>2 DEF PlainSizeToCipherSize, CipherSizeToPlainSize
  <1>3. CASE plainSize > 0
    <2> DEFINE b == (plainSize - 1) \div PlainBS
               r == (plainSize - 1) % PlainBS
    <2>1. /\ b \in Nat /\ r \in 0..(PlainBS - 1)
          /\ plainSize - 1 = PlainBS * b + r
      <3>1. plainSize - 1 \in Nat
        BY <1>3
      <3> QED  BY <3>1, <1>1, DivMod
    <2>2. b <= plainSize \div PlainBS /\ plainSize \div PlainBS \in Nat
      BY <1>1, <1>3
    <2>3. PlainOffToBlockNo(plainSize - 1) = b
      BY DEF PlainOffToBlockNo
    <2> DEFINE d == r + BlockOverhead
               c == HeaderLen + b * CipherBS + d + 1
    <2> HIDE DEF b, r
    <2>4. /\ d \in BlockOverhead..(CipherBS - 1) /\ d \in Nat
          /\ b * CipherBS \in Nat
          /\ b * CipherBS = b * PlainBS + b * BlockOverhead
          /\ b * PlainBS \in Nat /\ b * BlockOverhead \in Nat
      BY <1>1, <2>1
    <2>5. HeaderLen + b * CipherBS + CipherBS < Word
      <3> DEFINE m == plainSize \div PlainBS
      <3>1. m \in Nat /\ b <= m /\ HeaderLen + (m + 1) * CipherBS < Word
        BY <2>2
      <3> HIDE DEF m
      <3>2. b * CipherBS <= m * CipherBS /\ m * CipherBS \in Nat
        BY <3>1, <2>1, <1>1, Increasing
      <3>3. (m + 1) * CipherBS = m * CipherBS + CipherBS
        BY <3>1, <1>1
      <3> QED  BY <3>1, <3>2, <3>3, <2>4, <1>1
    <2>6. PlainSizeToCipherSize(plainSize) = c
      <3>1. BlockNoToCipherOff(b) = HeaderLen + b * CipherBS
        BY <1>1, <2>4, <2>5 DEF BlockNoToCipherOff, Uint
      <3>2. PlainOffToCipherOff(plainSize - 1) = Uint(HeaderLen + b * CipherBS + r + BlockOverhead)
        BY <2>3, <3>1 DEF PlainOffToCipherOff, r
      <3>3. HeaderLen + b * CipherBS + r + BlockOverhead \in 0..(Word - 1)
        BY <1>1, <2>1, <2>4, <2>5
      <3>4. Uint(HeaderLen + b * CipherBS + r + BlockOverhead)
              = HeaderLen + b * CipherBS + r + BlockOverhead
        BY <3>3, <1>1 DEF Uint
      <3> QED  BY <3>2, <3>4, <1>1, <1>3, <2>1, <2>4 DEF PlainSizeToCipherSize
    <2>7. c > HeaderLen /\ c \in Nat
      BY <1>1, <2>4
    <2>8. PadLastBlock(c) = c
      <3>1. CASE d + 1 = CipherBS
        <4>1. c - HeaderLen = (b + 1) * CipherBS + 0
          <5>1. (b + 1) * CipherBS = b * CipherBS + CipherBS
            BY <1>1, <2>1
          <5>2. c - HeaderLen = b * CipherBS + (d + 1)
            BY <1>1, <2>4
          <5> HIDE DEF c, d
          <5> QED  BY <3>1, <5>1, <5>2, <2>4, <1>1
        <4>2. (c - HeaderLen) % CipherBS = 0
          <5>1. b + 1 \in Nat /\ 0 \in 0..(CipherBS - 1)
            BY <2>1, <1>1
          <5> DEFINE q == b + 1
                     e == c - HeaderLen
          <5>2. q \in Nat /\ e = q * CipherBS + 0
            BY <4>1, <5>1
          <5> HIDE DEF q, e
          <5>3. (q * CipherBS + 0) % CipherBS = 0
            BY <5>1, <5>2, <1>1, DivUnique
          <5>4. e % CipherBS = 0
            BY <5>2, <5>3
          <5> QED  BY <5>4 DEF e
        <4> QED  BY <4>2 DEF PadLastBlock
      <3>2. CASE d + 1 < CipherBS
        <4>1. c - HeaderLen = b * CipherBS + (d + 1)
          BY <1>1, <2>4
        <4>2. d + 1 \in 0..(CipherBS - 1)
          BY <3>2, <2>4, <1>1
        <4>3. (c - HeaderLen) % CipherBS = d + 1
          <5> DEFINE e == c - HeaderLen
                     x == d + 1
          <5>1. e = b * CipherBS + x /\ x \in 0..(CipherBS - 1)
            BY <4>1, <4>2
          <5> HIDE DEF e, x
          <5>2. e % CipherBS = x
            BY <5>1, <2>1, <1>1, DivUnique
          <5> QED  BY <5>2 DEF e, x
        <4> HIDE DEF c, d
        <4>4. d + 1 > BlockOverhead
          BY <2>4, <1>1
        <4>5. ~(d + 1 <= BlockOverhead)
          BY <4>4, <2>4, <1>1
        <4> QED  BY <4>3, <4>5 DEF PadLastBlock
      <3> HIDE DEF c, d
      <3>3. d + 1 = CipherBS \/ d + 1 < CipherBS
        BY <2>4, <1>1
      <3> QED  BY <3>1, <3>2, <3>3
    <2>9. CipherOffToBlockNo(c - 1) = b
      <3>1. c - 1 - HeaderLen = b * CipherBS + d
        BY <1>1, <2>4
      <3>2. d \in 0..(CipherBS - 1)
        BY <2>4, <1>1
      <3> HIDE DEF c, d
      <3>3. (b * CipherBS + d) \div CipherBS = b
        BY <3>2, <2>1, <1>1, DivUnique
      <3>4. (c - 1 - HeaderLen) \div CipherBS = b
        BY <3>1, <3>3, Zenon
      <3> QED  BY <3>4, Zenon DEF CipherOffToBlockNo
    <2>10. c - (BlockOverhead * (b + 1) + HeaderLen) = plainSize
      BY <1>1, <2>1, <2>4
    <2>11. ~(BlockOverhead * (b + 1) + HeaderLen > c)
      <3>1. BlockOverhead * (b + 1) + HeaderLen \in Nat
        BY <1>1, <2>1
      <3> HIDE DEF c
      <3> QED  BY <3>1, <2>10, <2>7
    <2> HIDE DEF c
    <2> QED  BY <2>6, <2>7, <2>8, <2>9, <2>10, <2>11, <1>1 DEF CipherSizeToPlainSize
  <1> QED  BY <1>2, <1>3

-----------------------------------------------------------------------------
(* The check in front of ReadAt and WriteAt.                               *)

\* Nonce and tag are no more than half a block (40 bytes of 4096), and the header is short.
OverheadIsSmall == 2 * BlockOverhead <= PlainBS /\ 4 * HeaderLen <= Word

\* A block that begins at a position of an int64 begins in the ciphertext before the end of the word.
LEMMA NoWrapAround ==
    ASSUME OverheadIsSmall, NEW b \in Nat, b * PlainBS <= MaxInt64
    PROVE  BlockNoToCipherOff(b) = HeaderLen + b * CipherBS
  <1>1. /\ PlainBS \in Nat \ {0} /\ BlockOverhead \in Nat \ {0} /\ HeaderLen \in Nat \ {0}
        /\ Word \in Nat \ {0} /\ CipherBS = PlainBS + BlockOverhead
    BY OffsetsAssumption DEF CipherBS
  <1> DEFINE x == b * PlainBS
             y == b * BlockOverhead
  <1>2. x \in Nat /\ y \in Nat /\ b * CipherBS = x + y
    BY <1>1
  <1>3. 2 * y <= x
    <2>1. \A m, n \in Nat : 2 * m <= n => 2 * (b * m) <= b * n
      <3>1. ASSUME NEW m \in Nat, NEW n \in Nat, 2 * m <= n PROVE 2 * (b * m) <= b * n
        <4>1. (2 * m) * b <= n * b
          BY <3>1, Increasing
        <4>2. (2 * m) * b = 2 * (b * m) /\ n * b = b * n
          OBVIOUS
        <4> QED  BY <4>1, <4>2
      <3> QED  BY <3>1
    <2> QED  BY <2>1, <1>1, Zenon DEF OverheadIsSmall
  <1> HIDE DEF x, y
  <1>4. 2 * x + 2 <= Word /\ 4 * HeaderLen <= Word
    <2>1. x <= Word \div 2 - 1
      BY DEF x, MaxInt64
    <2>2. 2 * (Word \div 2) <= Word /\ Word \div 2 \in Nat
      BY <1>1
    <2> QED  BY <2>1, <2>2, <1>1, <1>2 DEF OverheadIsSmall
  <1>5. HeaderLen + (x + y) \in 0..(Word - 1)
    BY <1>1, <1>2, <1>3, <1>4
  <1>6. \A z \in 0..(Word - 1) : z % Word = z
    BY <1>1
  <1> QED  BY <1>2, <1>5, <1>6 DEF BlockNoToCipherOff, Uint

\* "f.fd.ReadAt takes an int64!" (file.go:126-129, 228-232): whatever the offset, the check lets
\* every position pass that an int64 can hold, and no other unless the product wrapped around,
\* which takes an offset that is itself beyond any int64: a negative jlong of the caller.
THEOREM OffsetCheck ==
    ASSUME RequestsFit, OverheadIsSmall PROVE Spec => []WronglyAcceptedOnlyNegative
  <1>1. LoopInv => WronglyAcceptedOnlyNegative
    <2> SUFFICES ASSUME LoopInv, blocks # << >>
                 PROVE  /\ FirstPosition <= MaxInt64 => OffsetAccepted
                        /\ FirstPosition > MaxInt64 /\ OffsetAccepted =>
                            FirstPosition >= Word /\ off0 > MaxInt64
      BY DEF WronglyAcceptedOnlyNegative
    <2>1. /\ off0 \in Nat /\ Len(blocks) \in Nat /\ Len(blocks) > 0
          /\ blocks \in Seq(IntraBlock)
          /\ PlainBS \in Nat \ {0} /\ HeaderLen \in Nat /\ CipherBS \in Nat /\ Word \in Nat \ {0}
      BY RangesAssumption, OffsetsAssumption DEF LoopInv, TypeOK, CipherBS
    <2>2. MaxInt64 \in Int /\ MaxInt64 < Word
      BY <2>1 DEF MaxInt64
    <2>3. Block0 \in Nat /\ Block0 * PlainBS <= off0 /\ Block0 * PlainBS \in Nat
      <3>1. Block0 \in Nat /\ Block0 * PlainBS <= off0
        BY <2>1, DivMod DEF Block0, PlainOffToBlockNo
      <3> HIDE DEF Block0
      <3> QED  BY <3>1, <2>1
    <2>4. FirstBlock(blocks).BlockNo = Block0
      <3>1. 1 \in 1..Len(blocks)
        BY <2>1
      <3>2. blocks[1] = BlockAt(1)
        BY <3>1 DEF LoopInv
      <3>3. BlockAt(1).BlockNo = Block0 + 1 - 1
        BY DEF BlockAt, Block0
      <3> QED  BY <3>2, <3>3, <2>3 DEF FirstBlock
    <2>5. FirstPosition = HeaderLen + Block0 * CipherBS
      BY <2>4 DEF FirstPosition
    <2>6. FirstPosition \in Nat
      <3>1. \A m, n \in Nat : m * n \in Nat
        OBVIOUS
      <3> QED  BY <3>1, <2>1, <2>3, <2>5
    <2>7. OffsetAccepted <=> FirstPosition % Word <= MaxInt64
      BY <2>4, <2>5 DEF OffsetAccepted, BlockNoToCipherOff, Uint
    <2>8. FirstPosition < Word => FirstPosition % Word = FirstPosition
      BY <2>1, <2>6
    <2>9. off0 <= MaxInt64 => FirstPosition % Word = FirstPosition
      <3> SUFFICES ASSUME off0 <= MaxInt64 PROVE FirstPosition % Word = FirstPosition
        OBVIOUS
      <3>1. Block0 * PlainBS <= MaxInt64
        <4> HIDE DEF Block0
        <4> QED  BY <2>1, <2>2, <2>3
      <3> QED  BY <3>1, <2>3, <2>5, NoWrapAround DEF BlockNoToCipherOff, Uint
    <2> QED  BY <2>1, <2>2, <2>6, <2>7, <2>8, <2>9
  <1> QED  BY <1>1, LoopInvAlways, PTL

-----------------------------------------------------------------------------
(* Sizes of torn files.                                                    *)

\* The size reported for a file of q blocks and r bytes: up to BlockOverhead of them count as one.
LEMMA SizeOfBlocks ==
    ASSUME NEW q \in Nat, NEW r \in 1..CipherBS, NEW c, c = HeaderLen + (q * CipherBS + r)
    PROVE  /\ CipherSizeToPlainSize(c) = q * PlainBS + (IF r <= BlockOverhead THEN 1 ELSE r - BlockOverhead)
           /\ CipherOffToBlockNo(c - 1) = q
  <1>1. /\ PlainBS \in Nat \ {0} /\ BlockOverhead \in Nat \ {0} /\ HeaderLen \in Nat \ {0}
        /\ CipherBS \in Nat \ {0} /\ CipherBS = PlainBS + BlockOverhead /\ r \in Nat \ {0}
    BY OffsetsAssumption DEF CipherBS
  <1>0. PICK x \in Nat : x = q * CipherBS
    BY <1>1
  <1>2. /\ x \in Nat /\ q * PlainBS \in Nat /\ q * BlockOverhead \in Nat
        /\ x = q * PlainBS + q * BlockOverhead
        /\ (q + 1) * CipherBS = x + CipherBS /\ BlockOverhead * (q + 1) = q * BlockOverhead + BlockOverhead
    BY <1>0, <1>1
  <1>3. ASSUME NEW s \in 1..CipherBS, NEW e, e = HeaderLen + (x + s) PROVE CipherOffToBlockNo(e - 1) = q
    <2>1. e - 1 - HeaderLen = x + (s - 1) /\ s - 1 \in 0..(CipherBS - 1)
      BY <1>1, <1>2, <1>3
    <2>2. (x + (s - 1)) \div CipherBS = q
      BY <2>1, <1>0, <1>1, DivUnique
    <2>3. (e - 1 - HeaderLen) \div CipherBS = q
      BY <2>1, <2>2, Zenon
    <2> QED  BY <2>3, Zenon DEF CipherOffToBlockNo
  <1>4. c = HeaderLen + (x + r) /\ c > HeaderLen /\ c - HeaderLen = x + r /\ c \in Nat
    BY <1>0, <1>1, <1>2
  <1>5. (c - HeaderLen) % CipherBS = IF r = CipherBS THEN 0 ELSE r
    <2>1. CASE r = CipherBS
      <3>1. q + 1 \in Nat /\ 0 \in 0..(CipherBS - 1)
        BY <1>1
      <3>2. ((q + 1) * CipherBS + 0) % CipherBS = 0
        BY <3>1, <1>1, DivUnique
      <3>3. c - HeaderLen = (q + 1) * CipherBS + 0
        BY <1>1, <1>2, <1>4, <2>1
      <3> QED  BY <2>1, <3>2, <3>3
    <2>2. CASE r # CipherBS
      <3>1. r \in 0..(CipherBS - 1)
        BY <1>1, <2>2
      <3>2. (x + r) % CipherBS = r
        BY <3>1, <1>0, <1>1, DivUnique
      <3> QED  BY <1>4, <2>2, <3>2
    <2> QED  BY <2>1, <2>2
  <1> DEFINE s == IF r <= BlockOverhead THEN BlockOverhead + 1 ELSE r
  <1>6. s \in 1..CipherBS /\ s > BlockOverhead /\ s - BlockOverhead = (IF r <= BlockOverhead THEN 1 ELSE r - BlockOverhead)
    BY <1>1
  <1>7. PadLastBlock(c) = HeaderLen + (x + s)
    <2> DEFINE last == (c - HeaderLen) % CipherBS
    <2>1. CASE r <= BlockOverhead
      <3>1. last = r /\ last > 0 /\ last <= BlockOverhead
        BY <1>1, <1>5, <2>1
      <3>2. PadLastBlock(c) = c - r + BlockOverhead + 1
        BY <3>1 DEF PadLastBlock
      <3> QED  BY <3>2, <2>1, <1>1, <1>2, <1>4
    <2>2. CASE r > BlockOverhead
      <3>1. ~(last > 0 /\ last <= BlockOverhead)
        BY <1>1, <1>5, <2>2
      <3>2. PadLastBlock(c) = c
        BY <3>1 DEF PadLastBlock
      <3> QED  BY <3>2, <2>2, <1>1, <1>2, <1>4
    <2> QED  BY <2>1, <2>2, <1>1
  <1> HIDE DEF s
  <1>8. CipherOffToBlockNo(PadLastBlock(c) - 1) = q
    BY <1>3, <1>6, <1>7, Zenon
  <1>9. PICK padded : padded = PadLastBlock(c)
    OBVIOUS
  <1>10. /\ ~(BlockOverhead * (q + 1) + HeaderLen > padded)
         /\ padded - (BlockOverhead * (q + 1) + HeaderLen) = q * PlainBS + (s - BlockOverhead)
    BY <1>1, <1>2, <1>6, <1>7, <1>9
  <1>11. ~(c <= HeaderLen)
    BY <1>1, <1>4
  <1>12. CipherSizeToPlainSize(c) = q * PlainBS + (s - BlockOverhead)
    BY <1>8, <1>9, <1>11, <1>10, Zenon DEF CipherSizeToPlainSize
  <1>13. CipherOffToBlockNo(c - 1) = q
    BY <1>3, <1>4, Zenon
  <1> QED  BY <1>6, <1>12, <1>13

\* A file that is longer than its header has some blocks and the rest of the last one.
LEMMA BlocksOf ==
    ASSUME NEW c \in Nat, c > HeaderLen
    PROVE  \E q \in Nat, r \in 1..CipherBS : c = HeaderLen + (q * CipherBS + r)
  <1>1. HeaderLen \in Nat /\ CipherBS \in Nat \ {0}
    BY OffsetsAssumption DEF CipherBS
  <1> DEFINE e == c - HeaderLen - 1
  <1>2. e \in Nat /\ c = HeaderLen + (e + 1)
    BY <1>1
  <1> HIDE DEF e
  <1>3. /\ e \div CipherBS \in Nat /\ e % CipherBS \in 0..(CipherBS - 1)
        /\ e = CipherBS * (e \div CipherBS) + (e % CipherBS)
    BY <1>1, <1>2, DivMod
  <1>4. PICK q \in Nat, m \in 0..(CipherBS - 1) : e = CipherBS * q + m
    BY <1>3
  <1>5. m + 1 \in 1..CipherBS /\ CipherBS * q = q * CipherBS /\ q * CipherBS \in Nat
    BY <1>1
  <1>6. c = HeaderLen + (q * CipherBS + (m + 1))
    BY <1>1, <1>2, <1>4, <1>5
  <1> QED  BY <1>5, <1>6

\* Whatever a torn write left, a file that is a byte longer is not reported shorter, and the size
\* reported takes the blocks there are.
LEMMA SizeGrows ==
    ASSUME NEW c \in Nat
    PROVE  /\ CipherSizeToPlainSize(c) <= CipherSizeToPlainSize(c + 1)
           /\ c > HeaderLen => (CipherSizeToPlainSize(c) - 1) \div PlainBS = CipherOffToBlockNo(c - 1)
  <1>1. /\ PlainBS \in Nat \ {0} /\ BlockOverhead \in Nat \ {0} /\ HeaderLen \in Nat \ {0}
        /\ CipherBS \in Nat \ {0} /\ CipherBS = PlainBS + BlockOverhead
    BY OffsetsAssumption DEF CipherBS
  <1>2. CASE c <= HeaderLen
    <2>1. CipherSizeToPlainSize(c) = 0
      BY <1>2 DEF CipherSizeToPlainSize
    <2>2. CipherSizeToPlainSize(c + 1) >= 0
      <3>1. CASE c + 1 <= HeaderLen
        BY <3>1 DEF CipherSizeToPlainSize
      <3>2. CASE c + 1 > HeaderLen
        <4>1. PICK q \in Nat, r \in 1..CipherBS : c + 1 = HeaderLen + (q * CipherBS + r)
          <5>1. c + 1 \in Nat
            OBVIOUS
          <5> QED  BY <3>2, <5>1, BlocksOf, Zenon
        <4>2. CipherSizeToPlainSize(c + 1) = q * PlainBS + (IF r <= BlockOverhead THEN 1 ELSE r - BlockOverhead)
          BY <4>1, SizeOfBlocks
        <4>3. q * PlainBS \in Nat
          BY <1>1
        <4> QED  BY <1>1, <4>2, <4>3
      <3> QED  BY <3>1, <3>2, <1>1
    <2> QED  BY <1>1, <1>2, <2>1, <2>2
  <1>3. CASE c > HeaderLen
    <2>1. PICK q \in Nat, r \in 1..CipherBS : c = HeaderLen + (q * CipherBS + r)
      BY <1>3, BlocksOf
    <2> DEFINE f(s) == IF s <= BlockOverhead THEN 1 ELSE s - BlockOverhead
    <2>2. CipherSizeToPlainSize(c) = q * PlainBS + f(r) /\ CipherOffToBlockNo(c - 1) = q
      BY <2>1, SizeOfBlocks
    <2>3. /\ q * CipherBS \in Nat /\ q * PlainBS \in Nat /\ (q + 1) * CipherBS = q * CipherBS + CipherBS
          /\ (q + 1) * PlainBS = q * PlainBS + PlainBS /\ r \in Nat
      BY <1>1
    <2>4. f(r) \in 1..PlainBS
      BY <1>1, <2>3
    <2>5. ASSUME r < CipherBS PROVE CipherSizeToPlainSize(c) <= CipherSizeToPlainSize(c + 1)
      <3>1. r + 1 \in 1..CipherBS /\ c + 1 = HeaderLen + (q * CipherBS + (r + 1))
        BY <1>1, <2>1, <2>3, <2>5
      <3>2. CipherSizeToPlainSize(c + 1) = q * PlainBS + f(r + 1)
        BY <3>1, SizeOfBlocks
      <3>3. f(r) <= f(r + 1) /\ f(r + 1) \in Nat
        BY <1>1, <2>3
      <3>4. PICK x \in Nat : x = q * PlainBS
        BY <2>3
      <3> HIDE DEF f
      <3>5. x + f(r) <= x + f(r + 1)
        BY <2>4, <3>3
      <3> QED  BY <2>2, <3>2, <3>4, <3>5, Zenon
    <2>6. ASSUME r = CipherBS PROVE CipherSizeToPlainSize(c) <= CipherSizeToPlainSize(c + 1)
      <3>1. q + 1 \in Nat /\ 1 \in 1..CipherBS /\ c + 1 = HeaderLen + ((q + 1) * CipherBS + 1)
        BY <1>1, <2>1, <2>3, <2>6
      <3>2. CipherSizeToPlainSize(c + 1) = (q + 1) * PlainBS + f(1)
        BY <3>1, SizeOfBlocks
      <3>3. f(1) = 1
        BY <1>1
      <3>4. PICK x \in Nat : x = q * PlainBS
        BY <2>3
      <3> HIDE DEF f
      <3>5. x + f(r) <= (x + PlainBS) + f(1)
        BY <1>1, <2>4, <3>3
      <3> QED  BY <2>2, <2>3, <3>2, <3>4, <3>5, Zenon
    <2>7. CipherSizeToPlainSize(c) <= CipherSizeToPlainSize(c + 1)
      BY <1>1, <2>3, <2>5, <2>6
    <2>8. (CipherSizeToPlainSize(c) - 1) \div PlainBS = q
      <3> HIDE DEF f
      <3>1. CipherSizeToPlainSize(c) - 1 = q * PlainBS + (f(r) - 1) /\ f(r) - 1 \in 0..(PlainBS - 1)
        BY <1>1, <2>2, <2>3, <2>4
      <3> QED  BY <3>1, <1>1, DivUnique
    <2> QED  BY <2>2, <2>7, <2>8
  <1> QED  BY <1>1, <1>2, <1>3

\* The same of the state: any length of a file, for any sizes of block, overhead and header
\* (offsets.go:32-87).
THEOREM SizesGrow == ASSUME RequestsFit PROVE Spec => []SizeGuessMonotone
  <1>1. LoopInv => SizeGuessMonotone
    BY SizeGrows, RangesAssumption DEF LoopInv, TypeOK, SizeGuessMonotone
  <1> QED  BY <1>1, LoopInvAlways, PTL
=============================================================================
