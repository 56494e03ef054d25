----------------------------- MODULE FileContent ------------------------------
(***************************************************************************)
(* The content of one encrypted file: doRead, doWrite, truncate and        *)
(* truncateGrowFile of file.go with their file header, file ID cache and   *)
(* block read-modify-write.  Calls come one at a time (HandleTable has the *)
(* concurrent ones); the process may be killed, or the disk be full,       *)
(* between any two system calls that change the file.                      *)
(*                                                                         *)
(* A block of ciphertext is what it opens to and under which file ID; a    *)
(* hole of full size opens to zeros, everything else does not open.        *)
(* A call is the list of the changes it still has to make.                 *)
(***************************************************************************)
EXTENDS Naturals, Sequences

CONSTANTS
    Handles,         \* handles of the file, each with a File object
    Values,          \* what a byte of plaintext can be
    Zero,            \* the zero byte
    BlockSize,       \* PlainBS
    MaxSize,         \* bound: plaintext size of the file
    NumIDs,          \* bound: file IDs in use at a time
    MinBytes,        \* fewest bytes the client reads or writes in a call
    PastEnd,         \* whether it writes beyond a partial last block
    ZeroCached,      \* whether it truncates to 0 a file whose ID is cached
    FullDuring,      \* the calls during which EnospcPrealloc may fail
    MayDie           \* whether the process may be killed

Calls == {"write", "empty", "grow", "shrink"}

ASSUME FileContentAssumption ==
    /\ Zero \in Values
    /\ BlockSize \in Nat \ {0}
    /\ MaxSize \in Nat
    /\ NumIDs \in Nat
    /\ MinBytes \in {0, 1}
    /\ {PastEnd, ZeroCached, MayDie} \subseteq BOOLEAN
    /\ FullDuring \subseteq Calls

IDs == 1..NumIDs

\* In place of an ID: no header, a header of zeros, a hole, ciphertext no key opens.
None   == 0
Blank  == NumIDs + 1
Hole   == NumIDs + 2
Broken == NumIDs + 3

VARIABLES
    header,  \* the file ID in the file's header
    blocks,  \* the encrypted blocks
    files,   \* File of each open handle: its mode and cached ID
    call,    \* the call in progress
    request, \* what it was called for
    alive    \* the process has not panicked

vars == <<header, blocks, files, call, request, alive>>

Pieces(n) == UNION {[1..i -> Values] : i \in 1..n}

Block == [id : IDs \cup {Hole, Broken}, data : Pieces(BlockSize)]

Closed == [mode |-> "closed", id |-> None]

\* What a call is for: to write data at an offset, or to resize to a length.
Request(do, at, data) == [do |-> do, at |-> at, data |-> data]
NoRequest == Request("none", 0, << >>)

\* No call in progress: the outcome of the last one is left.
Done(result) ==
    [h |-> None, op |-> "none", todo |-> << >>, empty |-> FALSE, old |-> << >>, result |-> result]

Zeros(n) == [i \in 1..n |-> Zero]

-----------------------------------------------------------------------------
(* The file                                                                *)

MinOf(a, b) == IF a < b THEN a ELSE b
MaxOf(a, b) == IF a < b THEN b ELSE a

BlockNo(off) == off \div BlockSize

\* The size the library reports: translateSize of the ciphertext size.
PlainSize ==
    IF blocks = << >> THEN 0
    ELSE (Len(blocks) - 1) * BlockSize + Len(blocks[Len(blocks)].data)

\* DecryptBlock
Opens(b, id) == b.id \in {id, Hole}

\* doRead: the plaintext of the whole block number n, and whether it opens.
Readable(n, id) == n < Len(blocks) => Opens(blocks[n + 1], id)
BlockData(n)    == IF n < Len(blocks) THEN blocks[n + 1].data ELSE << >>

\* Slip: the new data goes after the old.
MergeBlocksAppends(oldData, newData, skip) ==
    [i \in 1..Len(oldData) + Len(newData) |->
        IF i <= Len(oldData) THEN oldData[i] ELSE newData[i - Len(oldData)]]

\* MergeBlocks
MergeBlocks(oldData, newData, skip) ==
    [i \in 1..MaxOf(Len(oldData), skip + Len(newData)) |->
        IF i \in skip + 1..skip + Len(newData) THEN newData[i - skip]
        ELSE IF i <= Len(oldData) THEN oldData[i] ELSE Zero]

\* Slip: the first block is written from its beginning.
SkipForgotten(off, n) == 0

\* The part of d, written at off, that falls into block n.
Skip(off, n)     == IF BlockNo(off) = n THEN off % BlockSize ELSE 0
Piece(off, d, n) ==
    SubSeq(d, 1 + MaxOf(off, n * BlockSize) - off, MinOf(off + Len(d), (n + 1) * BlockSize) - off)

Touched(off, d) == BlockNo(off)..BlockNo(off + Len(d) - 1)

\* An incomplete block is read first.
IsPartial(off, d, n) == Len(Piece(off, d, n)) < BlockSize

NewBlock(off, d, n, id) ==
    [id   |-> id,
     data |-> IF IsPartial(off, d, n)
              THEN MergeBlocks(BlockData(n), Piece(off, d, n), Skip(off, n))
              ELSE Piece(off, d, n)]

\* Blocks beyond the end: what was a partial block continues with zeros and
\* opens no more, the others are holes.
Stretched(n) ==
    [i \in 1..n |->
        IF i > Len(blocks) THEN [id |-> Hole, data |-> Zeros(BlockSize)]
        ELSE IF i = Len(blocks) /\ i < n /\ Len(blocks[i].data) < BlockSize
             THEN [id |-> Broken, data |-> Zeros(BlockSize)]
             ELSE blocks[i]]

\* WriteAt of the encrypted blocks of d.
Written(off, d, id) ==
    LET old == Stretched(MaxOf(Len(blocks), BlockNo(off + Len(d) - 1) + 1))
    IN  [i \in DOMAIN old |->
            IF i - 1 \in Touched(off, d) THEN NewBlock(off, d, i - 1, id) ELSE old[i]]

-----------------------------------------------------------------------------
(* The changes a call makes                                                *)

Header          == [do |-> "header"]        \* doWrite: get or create the file ID
NewHeader       == [do |-> "newHeader"]     \* truncateGrowFile: createHeader
PutData(off, d) == [do |-> "put", off |-> off, data |-> d]
Cut(n)          == [do |-> "cut", to |-> n]      \* Ftruncate to n blocks
CutAll          == [do |-> "cutAll"]             \* Ftruncate to 0
Stretch(n)      == [do |-> "stretch", to |-> n]  \* Ftruncate to n blocks

DoWrite(off, d) == <<Header, PutData(off, d)>>

\* Slip: a partial block is left as it is.
ZeroPadSkipped(size) == << >>

ZeroPad(size) ==
    IF size % BlockSize = 0 THEN << >>
    ELSE DoWrite(size, Zeros(BlockSize - (size % BlockSize)))

\* Slip: the byte that ends the file is written behind its end.
TruncateGrowFilePastEnd(old, new) ==
    IF old > 0 /\ BlockNo(old - 1) = BlockNo(new - 1)
    THEN DoWrite(new, <<Zero>>)
    ELSE ZeroPad(old) \o DoWrite(new, <<Zero>>)

TruncateGrowFile(old, new) ==
    IF old > 0 /\ BlockNo(old - 1) = BlockNo(new - 1)
    THEN DoWrite(new - 1, <<Zero>>)
    ELSE ZeroPad(old) \o
         IF new % BlockSize = 0
         THEN (IF old = 0 THEN <<NewHeader>> ELSE << >>) \o <<Stretch(new \div BlockSize)>>
         ELSE DoWrite(new - 1, <<Zero>>)

\* Slip: nothing is read of a block that goes as a whole, and written back.
TruncateShrinkAlwaysWrites(new) ==
    LET n == BlockNo(new)
    IN  <<Cut(n)>> \o DoWrite(n * BlockSize, SubSeq(BlockData(n), 1, new % BlockSize))

\* Shrinking reads the part of the last block that stays before it cuts.
TruncateShrink(new) ==
    LET n    == BlockNo(new)
        part == SubSeq(BlockData(n), 1, new % BlockSize)
    IN  <<Cut(n)>> \o (IF part = << >> THEN << >> ELSE DoWrite(n * BlockSize, part))

-----------------------------------------------------------------------------
(* Init and the beginning of calls                                         *)

TypeOK ==
    /\ header \in IDs \cup {None, Blank}
    /\ blocks \in Seq(Block) /\ Len(blocks) <= MaxSize
    /\ files \in [Handles -> [mode : {"closed", "read", "write"}, id : IDs \cup {None}]]
    /\ call.h \in Handles \cup {None}
    /\ call.op \in Calls \cup {"none", "stuck"}
    /\ call.empty \in BOOLEAN
    /\ Len(call.old) <= MaxSize
    /\ call.result \in {"ok", "failed"}
    /\ request.do \in {"none", "write", "resize"} /\ request.at \in 0..MaxSize
    /\ Len(request.data) <= MaxSize - request.at
    /\ alive \in BOOLEAN
    /\ \A i \in 1..Len(blocks) - 1 : Len(blocks[i].data) = BlockSize

Init ==
    /\ header = None
    /\ blocks = << >>
    /\ files = [h \in Handles |-> Closed]
    /\ call = Done("ok")
    /\ request = NoRequest
    /\ alive = TRUE

IsOpen(h) == files[h].mode # "closed"

\* Slip: the header on disk is not asked.
FileIDOnlyCached(h) == files[h].id

\* readFileID: a file that ends with its header counts as empty.
FileID(h) == IF files[h].id # None THEN files[h].id
             ELSE IF blocks = << >> THEN None ELSE header

UsedIDs == {header} \cup {blocks[i].id : i \in DOMAIN blocks} \cup {files[h].id : h \in Handles}

\* What the file reads as for a new handle.
Content == [i \in 1..PlainSize |-> blocks[1 + BlockNo(i - 1)].data[1 + ((i - 1) % BlockSize)]]

Begin(h, op, r, todo) ==
    /\ call' = [call EXCEPT !.h = h, !.op = op, !.todo = todo, !.old = Content]
    /\ request' = r

Idle  == call.op = "none"
Ready == alive /\ Idle

Open(h, mode) ==
    /\ Ready
    /\ ~IsOpen(h)
    /\ files' = [files EXCEPT ![h].mode = mode]
    /\ UNCHANGED <<header, blocks, call, request, alive>>

Close(h) ==
    /\ Ready
    /\ IsOpen(h)
    /\ files' = [files EXCEPT ![h] = Closed]
    /\ UNCHANGED <<header, blocks, call, request, alive>>

\* gcf_read_file changes nothing but the cached ID; an empty file has none.
Read(h) ==
    /\ Ready
    /\ IsOpen(h)
    /\ FileID(h) \in IDs
    /\ files' = [files EXCEPT ![h].id = FileID(h)]
    /\ UNCHANGED <<header, blocks, call, request, alive>>

\* doRead of no bytes: ExplodePlainRange returns no block, and blocks[0] panics.
ReadNothing(h) ==
    /\ Ready
    /\ IsOpen(h)
    /\ MinBytes = 0
    /\ FileID(h) \in IDs
    /\ alive' = FALSE
    /\ UNCHANGED <<header, blocks, files, call, request>>

\* gcf_write_file; a file opened for reading refuses the first change.
Write(h, off, d) ==
    /\ Ready
    /\ files[h].mode = "write"
    /\ off + Len(d) <= MaxSize
    /\ PastEnd \/ (PlainSize % BlockSize = 0) \/ BlockNo(off) < Len(blocks)
    /\ Begin(h, "write", Request("write", off, d), DoWrite(off, d))
    /\ UNCHANGED <<header, blocks, files, alive>>

\* gcf_truncate takes whichever handle of the path comes first, and the size
\* from the file; nothing is done for a size the file has.
TruncateToZero(h) ==
    /\ Ready
    /\ files[h].mode = "write"
    /\ ZeroCached \/ \A i \in Handles : files[i].id = None
    /\ Begin(h, "empty", Request("resize", 0, << >>), <<CutAll>>)
    /\ UNCHANGED <<header, blocks, files, alive>>

TruncateUp(h, n) ==
    /\ Ready
    /\ files[h].mode = "write"
    /\ n > PlainSize
    /\ Begin(h, "grow", Request("resize", n, << >>), TruncateGrowFile(PlainSize, n))
    /\ UNCHANGED <<header, blocks, files, alive>>

TruncateDown(h, n) ==
    /\ Ready
    /\ files[h].mode = "write"
    /\ 0 < n /\ n < PlainSize
    /\ IF n % BlockSize = 0
       THEN UNCHANGED files
       ELSE /\ FileID(h) \in IDs /\ Readable(BlockNo(n), FileID(h))
            /\ files' = [files EXCEPT ![h].id = FileID(h)]
    /\ Begin(h, "shrink", Request("resize", n, << >>), TruncateShrink(n))
    /\ UNCHANGED <<header, blocks, alive>>

-----------------------------------------------------------------------------
(* The steps of a call                                                     *)

Doing(do) == alive /\ call.todo # << >> /\ Head(call.todo).do = do

Step == Head(call.todo)

\* The call is over.
End(result) ==
    /\ call' = Done(result)
    /\ request' = NoRequest

\* The change is made; after the last one the call has succeeded.
Advance ==
    IF Len(call.todo) = 1 THEN End("ok")
    ELSE /\ call' = [call EXCEPT !.todo = Tail(@)]
         /\ UNCHANGED request

Fail == End("failed")

CacheID(id) == files' = [files EXCEPT ![call.h].id = id]

\* doWrite with a file that has an ID, cached or on disk.
UseFileID ==
    /\ Doing("header")
    /\ FileID(call.h) \in IDs
    /\ CacheID(FileID(call.h))
    /\ Advance
    /\ UNCHANGED <<header, blocks, alive>>

\* The header is all zero.
BadHeader ==
    /\ Doing("header")
    /\ FileID(call.h) = Blank
    /\ Fail
    /\ UNCHANGED <<header, blocks, files, alive>>

NeedsHeader == Doing("newHeader") \/ (Doing("header") /\ FileID(call.h) = None)

CreateHeader ==
    /\ NeedsHeader
    /\ \E id \in IDs \ UsedIDs :
        /\ \A i \in IDs \ UsedIDs : id <= i
        /\ header' = id
        /\ CacheID(id)
    /\ call' = [call EXCEPT !.todo = Tail(@), !.empty = Doing("header")]
    /\ UNCHANGED <<blocks, request, alive>>

DiskFull == call.op \in FullDuring

HeaderNoSpace ==
    /\ DiskFull
    /\ NeedsHeader
    /\ Fail
    /\ UNCHANGED <<header, blocks, files, alive>>

\* The blocks to be read back open, so the merged ones can be written.
Mergeable ==
    \A n \in Touched(Step.off, Step.data) :
        IsPartial(Step.off, Step.data, n) => Readable(n, files[call.h].id)

WriteBlocks ==
    /\ Doing("put")
    /\ Step.data # << >>
    /\ Mergeable
    /\ blocks' = Written(Step.off, Step.data, files[call.h].id)
    /\ header' = IF header = None THEN Blank ELSE header
    /\ Advance
    /\ UNCHANGED <<files, alive>>

ReadBackFails ==
    /\ Doing("put")
    /\ Step.data # << >>
    /\ ~Mergeable
    /\ Fail
    /\ UNCHANGED <<header, blocks, files, alive>>

\* The same with no data to write.
NoBlocks ==
    /\ Doing("put")
    /\ Step.data = << >>
    /\ alive' = FALSE
    /\ UNCHANGED <<header, blocks, files, call, request>>

\* The disk is full.  The header of a file that was empty is removed and
\* the handle closed, which a gcf_write_file never returns from.
WriteNoSpace ==
    /\ DiskFull
    /\ Doing("put")
    /\ Step.data # << >> /\ Mergeable
    /\ IF call.empty
       THEN /\ header' = None /\ blocks' = << >>
            /\ IF call.op = "write"
               THEN /\ call' = [call EXCEPT !.op = "stuck", !.todo = << >>]
                    /\ UNCHANGED <<files, request>>
               ELSE /\ Fail
                    /\ files' = [files EXCEPT ![call.h] = Closed]
       ELSE Fail /\ UNCHANGED <<header, blocks, files>>
    /\ UNCHANGED alive

CutBlocks ==
    /\ Doing("cut")
    /\ blocks' = SubSeq(blocks, 1, Step.to)
    /\ Advance
    /\ UNCHANGED <<header, files, alive>>

\* truncate to zero: the cached file ID stays.
CutFile ==
    /\ Doing("cutAll")
    /\ header' = None
    /\ blocks' = << >>
    /\ Advance
    /\ UNCHANGED <<files, alive>>

StretchFile ==
    /\ Doing("stretch")
    /\ blocks' = Stretched(Step.to)
    /\ header' = IF header = None THEN Blank ELSE header
    /\ Advance
    /\ UNCHANGED <<files, alive>>

\* The process is killed: the file stays as it is, the handles are gone.
Die ==
    /\ MayDie
    /\ files' = [h \in Handles |-> Closed]
    /\ IF Idle THEN UNCHANGED <<call, request>> ELSE Fail
    /\ alive' = TRUE
    /\ UNCHANGED <<header, blocks>>

-----------------------------------------------------------------------------
Next ==
    \/ \E h \in Handles :
        \/ \E mode \in {"read", "write"} : Open(h, mode)
        \/ Close(h)
        \/ Read(h)
        \/ ReadNothing(h)
        \/ \E off \in 0..MaxSize, len \in MinBytes..MaxSize, v \in Values \ {Zero} :
               Write(h, off, [i \in 1..len |-> v])
        \/ TruncateToZero(h)
        \/ \E n \in 1..MaxSize : TruncateUp(h, n) \/ TruncateDown(h, n)
    \/ UseFileID \/ BadHeader \/ CreateHeader \/ HeaderNoSpace
    \/ WriteBlocks \/ ReadBackFails \/ NoBlocks \/ WriteNoSpace
    \/ CutBlocks \/ CutFile \/ StretchFile
    \/ Die

Spec == Init /\ [][Next]_vars

-----------------------------------------------------------------------------
(* Properties                                                              *)

\* file_header.go:26: a non-empty file has a header.  After any number of
\* writes, truncations, failures and kills, whatever blocks the file has can
\* be opened: its header holds the ID each was encrypted under (doWrite takes
\* the ID from the handle's cache, readers from the header).
HeaderOnNonEmptyFile == blocks # << >> => header \in IDs
BlocksOpen ==
    /\ HeaderOnNonEmptyFile
    /\ \A i \in DOMAIN blocks : Opens(blocks[i], header)

\* The ID a handle has cached is the one in the header, also when the file
\* shrank to its header or another handle wrote the header: doWrite never
\* checks a cached ID again.
CachedIDIsHeader == \A h \in Handles : call.op # "stuck" => files[h].id \in {None, header}

\* doWrite, truncate and truncateGrowFile implement a plain file: a call that
\* succeeds puts the data it was given at the offset it was given, or gives the
\* file the length it was given, and changes nothing else; one that fails or is
\* killed leaves a whole file.
OldOrNew == IF Idle THEN Content ELSE call.old

Store == INSTANCE PlainFile WITH content <- OldOrNew, outcome <- call.result
ImplementsPlainFile == Store!Spec

\* The size gcf_get_attrs reports follows the plain file, call by call, even
\* where the content is lost: the same with a single value.
SizeAsked == [request EXCEPT !.data = Zeros(Len(@))]
Sizes == INSTANCE PlainFile WITH content <- Zeros(Len(OldOrNew)), request <- SizeAsked,
                                 Values <- {Zero}, outcome <- call.result
SizeAsPromised == Sizes!Spec

\* The process panics in a call that reads or writes no bytes, and in no other:
\* none of the writes a truncation makes is empty (file.go:180 allows them), be
\* the old and new sizes at the border of a block or not.
PanicsOnlyOnNothing == ~alive => request.do # "resize" /\ request.data = << >>
=============================================================================
