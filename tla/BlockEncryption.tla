---------------------------- MODULE BlockEncryption ----------------------------
(***************************************************************************)
(* contentenc.EncryptBlocks and DecryptBlocks with their buffer pools, as  *)
(* doWrite and doRead call them: blocks sealed by up to two goroutines     *)
(* that take nonces from RandPrefetch, put together into a request buffer, *)
(* written, read again and opened.                                         *)
(*                                                                         *)
(* A buffer holds a sequence of blocks; a sealed block is whose it is, its *)
(* number and its nonce, and opens as this number of this file (external). *)
(***************************************************************************)
EXTENDS RandPrefetch, Sequences

CONSTANTS
    Callers,       \* threads, each with an open file of its own in one volume
    NonceLen,      \* IVLen of the volume
    BlockBufs,     \* buffers of cBlockPool, as many as are in use at a time
    PlainBufs,     \* of pBlockPool
    ReqBufs,       \* of CReqPool
    MaxBlocks,     \* bound: blocks of a request
    FirstBlocks,   \* numbers a request may begin with
    ParallelFrom,  \* blocks from which on goroutines are used
    NumCPU,
    MaxWork        \* bound: blocks written, and requests to read

EncryptMaxSplit == 2
Groups == 0..EncryptMaxSplit - 1

ASSUME BlockEncryptionAssumption ==
    /\ Readers = Callers \X Groups
    /\ NonceLen \in Lengths
    /\ {MaxBlocks, ParallelFrom, NumCPU, MaxWork} \subseteq Nat \ {0}
    /\ FirstBlocks \subseteq Nat
    /\ BlockBufs \cap PlainBufs = {}
    /\ BlockBufs \cap ReqBufs = {}
    /\ PlainBufs \cap ReqBufs = {}
    /\ Nobody \notin BlockBufs \cup PlainBufs \cup ReqBufs

Places == 0..MaxBlocks - 1

Pools == {"block", "plain", "request"}
Bufs  == BlockBufs \cup PlainBufs \cup ReqBufs

VARIABLES
    pool,      \* the buffers in each pool
    content,   \* what is in each buffer
    job,       \* the request of each caller
    running,   \* its goroutines that have not called wg.Done
    part,      \* the blocks of each goroutine: part.i of low..high-1 are done
    sealed,    \* ciphertextBlocks: the buffer of each sealed block, by its place
    disk,      \* the file of each caller: the blocks of its last write
    work

blockVars == <<pool, content, job, running, part, sealed, disk, work>>
vars      == <<prefetchVars, blockVars>>

NoJob == [pc |-> "idle", first |-> 0, n |-> 0, i |-> 0, req |-> Nobody, buf |-> Nobody,
          got |-> << >>]

NoBuffers == [k \in Places |-> Nobody]

At(c, from) == job[c].pc = from

Go(c, to) == job' = [job EXCEPT ![c].pc = to]

\* The number of the block that stands at place k of the request.
BlockNo(c, k) == job[c].first + k

-----------------------------------------------------------------------------
(* Pools                                                                   *)

\* sync.Pool gives any buffer; what a buffer holds that nobody has is never read, so one
\* stands for all.
Free(kind) == CHOOSE b \in pool[kind] : TRUE

\* Slip: the buffer stays in the pool.
GetShared(kind) == pool[kind] # {} /\ UNCHANGED pool

\* The pool makes a buffer when it has none: the model has enough of them.
Get(kind) ==
    /\ pool[kind] # {}
    /\ pool' = [pool EXCEPT ![kind] = @ \ {Free(kind)}]

Put(kind, b) == pool' = [pool EXCEPT ![kind] = @ \cup {b}]

-----------------------------------------------------------------------------
(* EncryptBlocks                                                           *)

Ncpu(n) == IF n >= ParallelFrom /\ NumCPU >= 2 THEN Min2(NumCPU, EncryptMaxSplit) ELSE 1

\* Slip: the last group does not pick up the blocks left over.
GroupEven(n, g) ==
    LET size == n \div Ncpu(n)
    IN  [low |-> g * size, high |-> (g + 1) * size, i |-> 0]

\* low and high of group g.
Group(n, g) ==
    LET size == n \div Ncpu(n)
    IN  [low  |-> g * size,
         high |-> IF g = Ncpu(n) - 1 THEN n ELSE (g + 1) * size,
         i    |-> 0]

\* A group of this request, and one that has no part in it.
PartOf(n, g) == IF g < Ncpu(n) THEN Group(n, g) ELSE [low |-> n, high |-> n, i |-> 0]

EncryptBlocks(c) ==
    /\ At(c, "idle")
    /\ \E n \in 1..MaxBlocks, first \in FirstBlocks :
            /\ work + n <= MaxWork
            /\ work' = work + n
            /\ job' = [job EXCEPT ![c] = [NoJob EXCEPT !.pc = "wait", !.n = n, !.first = first]]
            /\ running' = [running EXCEPT ![c] = 0..Ncpu(n) - 1]
            /\ part' = [r \in Readers |-> IF r[1] = c THEN PartOf(n, r[2]) ELSE part[r]]
    /\ UNCHANGED <<prefetchVars, pool, content, sealed, disk>>

Busy(r) == r[2] \in running[r[1]]

Place(r) == part[r].low + part[r].i

\* IVGenerator.Get of EncryptBlock
GetNonce(r) ==
    /\ Busy(r)
    /\ Place(r) < part[r].high
    /\ Request(r, NonceLen)
    /\ UNCHANGED blockVars

\* Slip: each group counts its blocks from the beginning of the request.
NumberOfLocal(r) == BlockNo(r[1], part[r].i)

\* firstBlockNo + low + i
NumberOf(r) == BlockNo(r[1], Place(r))

\* doEncryptBlock: a buffer, nonce and Seal.
SealBlock(r) ==
    /\ Consume(r)
    /\ Get("block")
    /\ content' = [content EXCEPT ![Free("block")] =
            << [of |-> r[1], no |-> NumberOf(r), nonce |-> out[r]] >>]
    /\ sealed' = [sealed EXCEPT ![r[1]][Place(r)] = Free("block")]
    /\ part' = [part EXCEPT ![r].i = @ + 1]
    /\ UNCHANGED <<job, running, disk, work>>

\* wg.Done
GroupDone(r) ==
    /\ Busy(r)
    /\ at[r] = "idle"
    /\ Place(r) = part[r].high
    /\ running' = [running EXCEPT ![r[1]] = @ \ {r[2]}]
    /\ UNCHANGED <<prefetchVars, pool, content, job, part, sealed, disk, work>>

\* Slip: the caller does not wait.
WaitNot(c) ==
    /\ At(c, "wait")
    /\ Get("request")
    /\ content' = [content EXCEPT ![Free("request")] = << >>]
    /\ job' = [job EXCEPT ![c].pc = "append", ![c].req = Free("request")]
    /\ UNCHANGED <<prefetchVars, running, part, sealed, disk, work>>

\* wg.Wait, and the buffer for the result.
WaitGroup(c) ==
    /\ At(c, "wait")
    /\ running[c] = {}
    /\ Get("request")
    /\ content' = [content EXCEPT ![Free("request")] = << >>]
    /\ job' = [job EXCEPT ![c].pc = "append", ![c].req = Free("request")]
    /\ UNCHANGED <<prefetchVars, running, part, sealed, disk, work>>

\* out.Write(v)
AppendBlock(c) ==
    LET b == sealed[c][job[c].i]
    IN  /\ At(c, "append")
        /\ content' = [content EXCEPT ![job[c].req] = @ \o (IF b = Nobody THEN << >> ELSE content[b])]
        /\ Go(c, "return")
        /\ UNCHANGED <<prefetchVars, pool, running, part, sealed, disk, work>>

\* cBlockPool.Put(v)
ReturnBlock(c) ==
    LET j == job[c]
    IN  /\ At(c, "return")
        /\ Put("block", sealed[c][j.i])
        /\ sealed' = [sealed EXCEPT ![c][j.i] = Nobody]
        /\ job' = [job EXCEPT ![c].i = @ + 1, ![c].pc = IF j.i + 1 < j.n THEN "append" ELSE "write"]
        /\ UNCHANGED <<prefetchVars, content, running, part, disk, work>>

\* doWrite: WriteAt, then CReqPool.Put.
WriteAt(c) ==
    /\ At(c, "write")
    /\ disk' = [disk EXCEPT ![c] = [first |-> job[c].first, data |-> content[job[c].req]]]
    /\ Go(c, "release")
    /\ UNCHANGED <<prefetchVars, pool, content, running, part, sealed, work>>

Release(c) ==
    /\ job[c].pc \in {"release", "failed"}
    /\ Put("request", job[c].req)
    /\ job' = [job EXCEPT ![c] = NoJob]
    /\ UNCHANGED <<prefetchVars, content, running, part, sealed, disk, work>>

-----------------------------------------------------------------------------
(* doRead with DecryptBlocks                                               *)

\* CReqPool.Get and ReadAt
ReadAt(c) ==
    /\ At(c, "idle")
    /\ work < MaxWork
    /\ disk[c].data # << >>
    /\ Get("request")
    /\ content' = [content EXCEPT ![Free("request")] = disk[c].data]
    /\ job' = [job EXCEPT ![c] = [NoJob EXCEPT !.pc = "open", !.req = Free("request"),
            !.first = disk[c].first, !.n = Len(disk[c].data)]]
    /\ work' = work + 1
    /\ UNCHANGED <<prefetchVars, running, part, sealed, disk>>

\* DecryptBlock: a buffer and Open; what is not this block of this file does not open.
OpenBlock(c) ==
    LET j == job[c]
        v == content[j.req][j.i + 1]
    IN  /\ At(c, "open")
        /\ IF v.of = c /\ v.no = BlockNo(c, j.i)
           THEN /\ Get("plain")
                /\ content' = [content EXCEPT ![Free("plain")] = << v >>]
                /\ job' = [job EXCEPT ![c].pc = "copy", ![c].buf = Free("plain")]
           ELSE /\ Go(c, "failed")
                /\ UNCHANGED <<pool, content>>
        /\ UNCHANGED <<prefetchVars, running, part, sealed, disk, work>>

\* pBuf.Write(pBlock), into a buffer of PReqPool, which the caller alone has.
CopyPlain(c) ==
    LET j == job[c]
    IN  /\ At(c, "copy")
        /\ job' = [job EXCEPT ![c].got = @ \o content[j.buf], ![c].pc = "put"]
        /\ UNCHANGED <<prefetchVars, pool, content, running, part, sealed, disk, work>>

\* pBlockPool.Put(pBlock); at the end doRead returns its request buffer.
PutPlain(c) ==
    LET j == job[c]
    IN  /\ At(c, "put")
        /\ Put("plain", j.buf)
        /\ job' = [job EXCEPT ![c].i = @ + 1, ![c].buf = Nobody,
                ![c].pc = IF j.i + 1 < j.n THEN "open" ELSE "release"]
        /\ UNCHANGED <<prefetchVars, content, running, part, sealed, disk, work>>

-----------------------------------------------------------------------------

Init ==
    /\ PrefetchInit
    /\ pool = [k \in Pools |-> CASE k = "block" -> BlockBufs
                                 [] k = "plain" -> PlainBufs
                                 [] k = "request" -> ReqBufs]
    /\ content = [b \in Bufs |-> << >>]
    /\ job = [c \in Callers |-> NoJob]
    /\ running = [c \in Callers |-> {}]
    /\ part = [r \in Readers |-> [low |-> 0, high |-> 0, i |-> 0]]
    /\ sealed = [c \in Callers |-> NoBuffers]
    /\ disk = [c \in Callers |-> [first |-> 0, data |-> << >>]]
    /\ work = 0

Prefetch(r) == ReadStep(r) /\ UNCHANGED blockVars

Worker == RefillWorker /\ UNCHANGED blockVars

Goroutine(r) == GetNonce(r) \/ Prefetch(r) \/ SealBlock(r) \/ GroupDone(r)

Caller(c) ==
    \/ WaitGroup(c) \/ AppendBlock(c) \/ ReturnBlock(c) \/ WriteAt(c) \/ Release(c)
    \/ OpenBlock(c) \/ CopyPlain(c) \/ PutPlain(c)

\* What runs of itself; clients call when they like.
Run ==
    \/ \E c \in Callers : Caller(c)
    \/ \E r \in Readers : Goroutine(r)
    \/ Worker

Next ==
    \/ \E c \in Callers : EncryptBlocks(c) \/ ReadAt(c)
    \/ Run

\* The Go runtime does not idle while a goroutine can run; which one it runs is left open.
Fairness == WF_vars(Run)

Spec == Init /\ [][Next]_vars /\ Fairness

-----------------------------------------------------------------------------
(* Properties                                                              *)

Sealed == [of : Callers, no : Nat, nonce : [from : Nat, len : Nat]]

Waiting  == {"wait", "append", "return", "write"}
Reading  == {"open", "copy", "put", "failed"}

Requests == [pc : {"idle", "release"} \cup Waiting \cup Reading, first : Nat, n : 0..MaxBlocks,
             i : 0..MaxBlocks, req : ReqBufs \cup {Nobody}, buf : PlainBufs \cup {Nobody},
             got : Seq(Sealed)]

TypeOK ==
    /\ PrefetchTypeOK
    /\ pool \in [Pools -> SUBSET Bufs]
    /\ content \in [Bufs -> Seq(Sealed)]
    /\ job \in [Callers -> Requests]
    /\ running \in [Callers -> SUBSET Groups]
    /\ part \in [Readers -> [low : Nat, high : Nat, i : Nat]]
    /\ sealed \in [Callers -> [Places -> BlockBufs \cup {Nobody}]]
    /\ disk \in [Callers -> [first : Nat, data : Seq(Sealed)]]
    /\ work \in 0..MaxWork
    /\ \A b \in Bufs : Len(content[b]) <= MaxBlocks

\* The blocks of s are those of the file of c from number first on.
AreBlocks(s, c, first) == \A k \in DOMAIN s : s[k].of = c /\ s[k].no = first + k - 1

\* The buffers a caller and its goroutines use.
Holds(c) ==
    ({sealed[c][k] : k \in Places} \cup {job[c].req, job[c].buf}) \ {Nobody}

\* A buffer is in its pool or has one user, and is the place of one block only, so nothing is
\* written into memory that another call still reads (bPool.Get and Put around every copy).
BuffersHaveOneOwner ==
    /\ \A c \in Callers :
        /\ \A k \in Pools : Holds(c) \cap pool[k] = {}
        /\ \A d \in Callers \ {c} : Holds(c) \cap Holds(d) = {}
        /\ \A k, l \in Places : k # l /\ sealed[c][k] = sealed[c][l] => sealed[c][k] = Nobody

\* What reaches the file are the blocks of the request in order, each under its own number,
\* although two goroutines filled the slice (encryptBlocksParallel).
WrittenInOrder == \A c \in Callers : AreBlocks(disk[c].data, c, disk[c].first)

\* All blocks of a request are written.
WrittenInFull == \A c \in Callers : At(c, "release") /\ job[c].got = << >> => Len(disk[c].data) = job[c].n

\* What was written opens when it is read, in the same order.
ReadsBack == \A c \in Callers : ~At(c, "failed") /\ AreBlocks(job[c].got, c, job[c].first)

\* No two blocks that are sealed, in memory or on disk, have nonces with a common byte.
BlocksIn(f, S) == UNION {{f[b][k] : k \in DOMAIN f[b]} : b \in S}

SealedBlocks == BlocksIn(content, Bufs) \cup BlocksIn([c \in Callers |-> disk[c].data], Callers)

NoncesDiffer ==
    \A v, w \in SealedBlocks : v # w => Bytes(v.nonce) \cap Bytes(w.nonce) = {}

\* Every request comes to its end, however the goroutines wait for the mutex, the worker and
\* each other (wg.Wait, refill).
RequestsReturn == \A c \in Callers : ~At(c, "idle") ~> At(c, "idle")
=============================================================================
