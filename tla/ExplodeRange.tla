----------------------------- MODULE ExplodeRange -----------------------------
(***************************************************************************)
(* ExplodePlainRange (internal/contentenc/offsets.go), the loop that cuts  *)
(* a plaintext request into blocks, and what doRead and doWrite (file.go)  *)
(* derive from its result: the ciphertext range they read or write, the    *)
(* int64 check in front of it and the pooled buffers it must fit into.     *)
(*                                                                         *)
(* off0 and len0 are the request; offset, length and blocks are the loop's *)
(* own variables.  One step is one iteration.                              *)
(***************************************************************************)
EXTENDS ContentOffsets

CONSTANTS
    Offsets,   \* the offsets a request may have
    Lengths    \* the lengths a request may have

ASSUME RangesAssumption == Offsets \subseteq Nat /\ Lengths \subseteq Nat

VARIABLES off0, len0, offset, length, blocks

vars == <<off0, len0, offset, length, blocks>>

TypeOK ==
    /\ off0 \in Offsets
    /\ len0 \in Lengths
    /\ offset \in Nat
    /\ length \in Nat
    /\ blocks \in Seq(IntraBlock)

Init ==
    /\ off0 \in Offsets
    /\ len0 \in Lengths
    /\ offset = off0
    /\ length = len0
    /\ blocks = << >>

\* Slip: the block's length ignores where in the block the request starts.
NextBlockNoMin ==
    LET blockNo == PlainOffToBlockNo(offset)
        skip    == offset - BlockNoToPlainOff(blockNo)
    IN  [BlockNo |-> blockNo, Skip |-> skip, Length |-> MinUint64(length, PlainBS)]

\* The block at the current offset, up to the end of the request or the block.
NextBlock ==
    LET blockNo == PlainOffToBlockNo(offset)
        skip    == offset - BlockNoToPlainOff(blockNo)
    IN  [BlockNo |-> blockNo, Skip |-> skip,
         Length  |-> MinUint64(length, PlainBS - skip)]

Iterate ==
    /\ length > 0
    /\ blocks' = Append(blocks, NextBlock)
    /\ offset' = Uint(offset + NextBlock.Length)
    /\ length' = length - NextBlock.Length
    /\ UNCHANGED <<off0, len0>>

Next == Iterate

Spec == Init /\ [][Next]_vars

-----------------------------------------------------------------------------
(* What the callers make of the blocks.                                    *)

Done == length = 0

\* doRead and doWrite refuse an offset that no int64 can hold.
OffsetAccepted == BlockNoToCipherOff(FirstBlock(blocks).BlockNo) <= MaxInt64

\* Plaintext bytes of the complete blocks, as DecryptBlocks may return them.
JointPlaintextLength == PlainBS * Len(blocks)

-----------------------------------------------------------------------------
(* Properties                                                              *)

\* Where the i-th block of the request lies, in closed form.
BlockAt(i) ==
    LET blockNo == PlainOffToBlockNo(off0) + i - 1
        start   == IF i = 1 THEN off0 ELSE blockNo * PlainBS
        end     == MinUint64(off0 + len0, (blockNo + 1) * PlainBS)
    IN  [BlockNo |-> blockNo, Skip |-> start - blockNo * PlainBS,
         Length  |-> end - start]

\* ExplodePlainRange returns the consecutive blocks of the request: the loop,
\* iteration by iteration, builds the closed form, and it stops at the
\* request's end (offsets.go:90-108).
BlocksAreTheRequest ==
    /\ \A i \in 1..Len(blocks) : blocks[i] = BlockAt(i)
    /\ offset + length = off0 + len0
    /\ Done /\ len0 > 0 =>
        blocks # << >> /\ LastBlock(blocks).BlockNo = (off0 + len0 - 1) \div PlainBS

\* Every block but the last is filled to its end and every block but the first
\* starts at its beginning: doWrite (file.go:208-222) never reads back more
\* than two blocks, and never merges into the middle of a request.
OnlyEndsArePartial ==
    \A i \in 1..Len(blocks) :
        /\ blocks[i].Length > 0
        /\ blocks[i].Skip + blocks[i].Length <= PlainBS
        /\ i > 1 => blocks[i].Skip = 0
        /\ i < Len(blocks) => blocks[i].Skip + blocks[i].Length = PlainBS

\* A request of at most MAX_KERNEL_WRITE bytes, aligned or not, fits into the
\* buffers of the request pools: doRead re-slices a CReqPool buffer to the
\* joint ciphertext length (file.go:132-133), which would panic otherwise.
RequestFitsPools ==
    Done /\ blocks # << >> /\ len0 <= MaxKernelWrite =>
        /\ JointCiphertextLength(blocks) <= CReqSize
        /\ JointPlaintextLength <= PReqSize

\* doRead and doWrite accept an offset exactly if the position of its block is
\* one that ReadAt and WriteAt can take ("f.fd.ReadAt takes an int64!",
\* file.go:126-129, 228-232), with one exception: the position of a block far
\* enough up wraps around to a small one before it is compared, and passes.
\* No offset below 2^63 gets there, so a caller that passes a jlong (jni.c:315,
\* 329, 343) is refused rightly, or not at all, unless its offset is negative.
FirstPosition == HeaderLen + FirstBlock(blocks).BlockNo * CipherBS

WronglyAcceptedOnlyNegative ==
    Done /\ blocks # << >> =>
        /\ FirstPosition <= MaxInt64 => OffsetAccepted
        /\ FirstPosition > MaxInt64 /\ OffsetAccepted =>
            FirstPosition >= Word /\ off0 > MaxInt64

\* Whatever length a file on disk has (off0 bytes here, a legal size or one
\* left by a torn write), the reported size never shrinks when the file grows
\* by one byte, and the blocks it counts are the blocks there are.
SizeGuessMonotone ==
    /\ CipherSizeToPlainSize(off0) <= CipherSizeToPlainSize(off0 + 1)
    /\ off0 > HeaderLen =>
        (CipherSizeToPlainSize(off0) - 1) \div PlainBS = CipherOffToBlockNo(off0 - 1)

=============================================================================
