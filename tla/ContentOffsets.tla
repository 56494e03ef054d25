---------------------------- MODULE ContentOffsets ----------------------------
(***************************************************************************)
(* The arithmetic of internal/contentenc/offsets.go and intrablock.go: how *)
(* a plaintext offset or size maps to an offset or size in the encrypted   *)
(* file.  An encrypted file is empty, or a header of HeaderLen bytes       *)
(* followed by blocks of CipherBS bytes, each carrying PlainBS bytes of    *)
(* plaintext and BlockOverhead bytes of nonce and tag.                     *)
(*                                                                         *)
(* The code computes in uint64.  Word stands for 2^64: what can reach it   *)
(* is reduced modulo Word, so that a small Word shows every wrap-around.   *)
(***************************************************************************)
EXTENDS Integers, Sequences

CONSTANTS
    PlainBS,         \* plaintext bytes per block (4096 in the code)
    BlockOverhead,   \* nonce + tag bytes per block (32, or 40 with XChaCha20)
    HeaderLen,       \* version + file ID (18)
    MaxKernelWrite,  \* longest read or write request (131072)
    Word             \* number of values of an unsigned integer (2^64)

\* PlainBS divides MaxKernelWrite: contentenc.New panics otherwise.
ASSUME OffsetsAssumption ==
    /\ PlainBS \in Nat \ {0}
    /\ BlockOverhead \in Nat \ {0}
    /\ HeaderLen \in Nat \ {0}
    /\ MaxKernelWrite \in Nat
    /\ MaxKernelWrite % PlainBS = 0
    /\ Word \in Nat \ {0}

-----------------------------------------------------------------------------
CipherBS == PlainBS + BlockOverhead

\* Unsigned arithmetic drops what does not fit into the word.
Uint(x) == x % Word

MaxInt64 == Word \div 2 - 1

MinUint64(x, y) == IF x < y THEN x ELSE y

PlainOffToBlockNo(plainOffset) == plainOffset \div PlainBS

CipherOffToBlockNo(cipherOffset) == (cipherOffset - HeaderLen) \div CipherBS

\* Slip: the product is taken in a narrower word.
BlockNoToCipherOffUint32(blockNo) ==
    (HeaderLen + blockNo * CipherBS) % (Word \div 4)

BlockNoToCipherOff(blockNo) == Uint(HeaderLen + blockNo * CipherBS)

BlockNoToPlainOff(blockNo) == Uint(blockNo * PlainBS)

PlainOffToCipherOff(plainOff) ==
    Uint(BlockNoToCipherOff(PlainOffToBlockNo(plainOff))
            + (plainOff % PlainBS) + BlockOverhead)

\* An empty file stays empty: it has no header.
PlainSizeToCipherSize(plainSize) ==
    IF plainSize = 0 THEN 0 ELSE PlainOffToCipherOff(plainSize - 1) + 1

\* A last block too short to hold a byte of plaintext counts as one byte.
PadLastBlock(cipherSize) ==
    LET last == (cipherSize - HeaderLen) % CipherBS
    IN  IF last > 0 /\ last <= BlockOverhead
        THEN cipherSize - last + BlockOverhead + 1
        ELSE cipherSize

\* Slip: a torn last block is not padded.
CipherSizeToPlainSizeNoPad(cipherSize) ==
    IF cipherSize <= HeaderLen
    THEN 0
    ELSE LET blockCount == CipherOffToBlockNo(cipherSize - 1) + 1
             overhead   == BlockOverhead * blockCount + HeaderLen
         IN  IF overhead > cipherSize THEN 0 ELSE cipherSize - overhead

CipherSizeToPlainSize(cipherSize) ==
    IF cipherSize <= HeaderLen
    THEN 0
    ELSE LET padded     == PadLastBlock(cipherSize)
             blockCount == CipherOffToBlockNo(padded - 1) + 1
             overhead   == BlockOverhead * blockCount + HeaderLen
         IN  IF overhead > padded THEN 0 ELSE padded - overhead

-----------------------------------------------------------------------------
\* The part of one block that a request touches.
IntraBlock == [BlockNo : Nat, Skip : Nat, Length : Nat]

\* A partial block needs read-modify-write.
IsPartial(b) == b.Skip > 0 \/ b.Length < PlainBS

FirstBlock(blocks) == blocks[1]
LastBlock(blocks)  == blocks[Len(blocks)]

\* Length of the ciphertext of all the blocks, each one complete.
JointCiphertextLength(blocks) ==
    Uint(BlockNoToCipherOff(LastBlock(blocks).BlockNo) + CipherBS
            - BlockNoToCipherOff(FirstBlock(blocks).BlockNo))

\* Sizes of the buffers contentenc.New reserves for one request: an unaligned
\* request touches one block more than its length tells.
CReqSizeAligned == (MaxKernelWrite \div PlainBS) * CipherBS
CReqSize == CReqSizeAligned + CipherBS
PReqSize == MaxKernelWrite + PlainBS
=============================================================================
