------------------------- MODULE BlockEncryptionProofs -------------------------
(***************************************************************************)
(* Theorems about RandPrefetch, for any readers, chunk size and lengths of *)
(* nonces, and about BlockEncryption.                                      *)
(***************************************************************************)
EXTENDS BlockEncryption, SequenceTheorems, TLAPS

-----------------------------------------------------------------------------
(* RandPrefetch                                                            *)

InRead == {"read", "advance", "refill"}

\* The buffer is a part of a chunk that was taken, at most one more is drawn.
StreamInv ==
    /\ buf.next <= buf.end
    /\ buf.end <= chunk
    /\ made \in {chunk, chunk + PrefetchN}
    /\ \A x \in used : x < buf.next

\* Whoever is in the critical section has the mutex, and is alone.
MutexInv == \A r \in Readers : at[r] \in InRead => mutex = r

ReaderInv ==
    \A r \in Readers :
        /\ at[r] # "idle" => out[r].len \in Lengths
        /\ at[r] = "advance" => out[r].from = buf.next

PrefetchInv == PrefetchTypeOK /\ StreamInv /\ MutexInv /\ ReaderInv

LEMMA PrefetchInitOK == PrefetchInit => PrefetchInv
BY RandPrefetchAssumption
   DEF PrefetchInit, PrefetchInv, PrefetchTypeOK, StreamInv, MutexInv, ReaderInv, InRead, None

LEMMA BytesOf ==
    ASSUME NEW o \in [from : Nat, len : Nat], NEW x
    PROVE  x \in Bytes(o) <=> x \in Nat /\ o.from <= x /\ x < o.from + o.len
BY DEF Bytes

LEMMA LeftIsNat == ASSUME PrefetchTypeOK, StreamInv PROVE Left \in Nat
BY DEF PrefetchTypeOK, StreamInv, Left

LEMMA PrefetchStepOK ==
    ASSUME PrefetchInv, [PrefetchNext]_prefetchVars
    PROVE  PrefetchInv'
<1> USE RandPrefetchAssumption DEF PrefetchInv
<1>1. ASSUME NEW r \in Readers, NEW n \in Lengths, Request(r, n) PROVE PrefetchInv'
  BY <1>1 DEF Request, PrefetchTypeOK, StreamInv, MutexInv, ReaderInv, InRead
<1>2. ASSUME NEW r \in Readers, Consume(r) PROVE PrefetchInv'
  BY <1>2 DEF Consume, PrefetchTypeOK, StreamInv, MutexInv, ReaderInv, InRead, None
<1>3. ASSUME NEW r \in Readers, Lock(r) PROVE PrefetchInv'
  BY <1>3 DEF Lock, PrefetchTypeOK, StreamInv, MutexInv, ReaderInv, InRead
<1>4. ASSUME NEW r \in Readers, CopyBuf(r) PROVE PrefetchInv'
  BY <1>4 DEF CopyBuf, PrefetchTypeOK, StreamInv, MutexInv, ReaderInv, InRead
<1>5. ASSUME NEW r \in Readers, AdvanceBuf(r) PROVE PrefetchInv'
  <2>1. CASE Left >= out[r].len
    BY <1>5, <2>1, BytesOf, LeftIsNat DEF AdvanceBuf, Unlock, Min2, Left, PrefetchTypeOK, StreamInv, MutexInv, ReaderInv, InRead
  <2>2. CASE ~(Left >= out[r].len)
    BY <1>5, <2>2, LeftIsNat DEF AdvanceBuf, Unlock, Min2, Left, PrefetchTypeOK, StreamInv, MutexInv, ReaderInv, InRead
  <2> QED BY <2>1, <2>2
<1>6. ASSUME NEW r \in Readers, Refill(r) PROVE PrefetchInv'
  BY <1>6, BytesOf DEF Refill, Unlock, PrefetchTypeOK, StreamInv, MutexInv, ReaderInv, InRead
<1>7. ASSUME RefillWorker PROVE PrefetchInv'
  BY <1>7 DEF RefillWorker, PrefetchTypeOK, StreamInv, MutexInv, ReaderInv, InRead
<1>8. ASSUME UNCHANGED prefetchVars PROVE PrefetchInv'
  BY <1>8 DEF prefetchVars, PrefetchTypeOK, StreamInv, MutexInv, ReaderInv, InRead, Left
<1> QED BY <1>1, <1>2, <1>3, <1>4, <1>5, <1>6, <1>7, <1>8 DEF PrefetchNext, ReadStep

\* The step in which a reader returns takes bytes that nobody had.
LEMMA NoByteTwiceStep ==
    ASSUME PrefetchInv, [PrefetchNext]_prefetchVars,
           NEW r \in Readers, at[r] # "done", at'[r] = "done"
    PROVE  Bytes(out'[r]) \cap used = {}
<1> USE RandPrefetchAssumption DEF PrefetchInv
<1>1. at[r] \in {"advance", "refill"} /\ (AdvanceBuf(r) \/ Refill(r))
  BY DEF PrefetchNext, ReadStep, Request, Consume, Lock, CopyBuf, AdvanceBuf, Refill, Unlock, RefillWorker,
         prefetchVars, PrefetchTypeOK
<1>2. CASE AdvanceBuf(r)
  BY <1>1, <1>2, BytesOf DEF AdvanceBuf, PrefetchTypeOK, StreamInv, ReaderInv
<1>3. CASE Refill(r)
  BY <1>1, <1>3, BytesOf DEF Refill, PrefetchTypeOK, StreamInv, ReaderInv
<1> QED BY <1>1, <1>2, <1>3

\* The variables of the prefetcher keep their types (randPrefetcherT).
THEOREM PrefetchTypes == PrefetchSpec => []PrefetchTypeOK
<1>1. PrefetchInv => PrefetchTypeOK
  BY DEF PrefetchInv
<1> QED BY <1>1, PrefetchInitOK, PrefetchStepOK, PTL DEF PrefetchSpec

\* No byte of the random source is returned twice, for any number of goroutines and any
\* lengths of nonces up to a chunk (randPrefetcherT.read).
THEOREM BytesOnce == PrefetchSpec => NoByteTwice
<1>1. PrefetchInv /\ [PrefetchNext]_prefetchVars
      => [\A r \in Readers :
            at[r] # "done" /\ at'[r] = "done" => Bytes(out'[r]) \cap used = {}]_prefetchVars
  BY NoByteTwiceStep
<1> QED BY <1>1, PrefetchInitOK, PrefetchStepOK, PTL DEF PrefetchSpec, NoByteTwice

-----------------------------------------------------------------------------
(* BlockEncryption uses the prefetcher and nothing else touches it         *)

LEMMA StepUsesPrefetch == ASSUME [Next]_vars PROVE [PrefetchNext]_prefetchVars
<1> USE BlockEncryptionAssumption
<1>1. ASSUME NEW r \in Readers, Goroutine(r) PROVE [PrefetchNext]_prefetchVars
  BY <1>1 DEF Goroutine, GetNonce, Prefetch, SealBlock, GroupDone, PrefetchNext, prefetchVars
<1>2. ASSUME Worker PROVE [PrefetchNext]_prefetchVars
  BY <1>2 DEF Worker, PrefetchNext
<1>3. ASSUME NEW c \in Callers, EncryptBlocks(c) \/ ReadAt(c) \/ Caller(c) PROVE [PrefetchNext]_prefetchVars
  BY <1>3 DEF Caller, EncryptBlocks, ReadAt, WaitGroup, AppendBlock, ReturnBlock, WriteAt, Release, OpenBlock, CopyPlain, PutPlain
<1>4. ASSUME UNCHANGED vars PROVE UNCHANGED prefetchVars
  BY <1>4 DEF vars
<1> QED BY <1>1, <1>2, <1>3, <1>4 DEF Next, Run

\* Encryption is a user of the prefetcher: its steps are steps of PrefetchSpec.
THEOREM UsesPrefetch == Spec => PrefetchSpec
<1>1. Init => PrefetchInit
  BY DEF Init
<1> QED BY <1>1, StepUsesPrefetch, PTL DEF Spec, PrefetchSpec

\* The nonces of all blocks are made of different random bytes (EncryptBlock).
THEOREM NonceBytesOnce == Spec => NoByteTwice
BY UsesPrefetch, BytesOnce

-----------------------------------------------------------------------------
(* Requests                                                                *)

\* The groups of a request divide its places, and each has sealed those it has passed.
SplitInv(c) ==
    LET p == part[<<c, 0>>]
        q == part[<<c, 1>>]
    IN  /\ p.low = 0 /\ p.high = q.low /\ q.high = job[c].n
        /\ p.i <= p.high /\ q.low + q.i <= q.high
        /\ 0 \in running[c] \/ p.i = p.high
        /\ 1 \in running[c] \/ q.low + q.i = q.high
        /\ \A k \in Places : sealed[c][k] # Nobody <=> k < p.i \/ (q.low <= k /\ k < q.low + q.i)

\* The buffer at place k holds the block of that place.
SealedRight(c, k) ==
    LET s == content[sealed[c][k]]
    IN  Len(s) = 1 /\ s[1].of = c /\ s[1].no = BlockNo(c, k)

\* What the request buffer of c holds: the first m blocks of the request.
ReqHolds(c, m) ==
    /\ job[c].req # Nobody
    /\ Len(content[job[c].req]) = m
    /\ AreBlocks(content[job[c].req], c, job[c].first)

GotBlocks(c, m) == Len(job[c].got) = m /\ AreBlocks(job[c].got, c, job[c].first)

RequestInv(c) ==
    LET j == job[c]
    IN  /\ j.pc = "idle" => j = NoJob
        /\ j.pc # "idle" => j.n > 0
        /\ j.pc # "wait" => running[c] = {}
        /\ j.pc = "wait" => SplitInv(c) /\ j.i = 0 /\ j.req = Nobody
        /\ j.pc \notin {"wait", "append", "return"} => sealed[c] = NoBuffers
        /\ j.pc \in {"append", "return"} =>
                /\ j.i < j.n
                /\ \A k \in Places : sealed[c][k] # Nobody <=> j.i <= k /\ k < j.n
        /\ \A k \in Places : sealed[c][k] # Nobody => SealedRight(c, k)
        /\ j.pc = "append" => ReqHolds(c, j.i)
        /\ j.pc = "return" => ReqHolds(c, j.i + 1)
        /\ j.pc = "write" => ReqHolds(c, j.n)
        /\ j.pc \in Waiting => j.got = << >> /\ j.buf = Nobody
        /\ j.pc \in Reading => ReqHolds(c, j.n) /\ j.i < j.n
        /\ j.pc = "open" => GotBlocks(c, j.i) /\ j.buf = Nobody
        /\ j.pc = "copy" => /\ GotBlocks(c, j.i) /\ j.buf # Nobody
                            /\ Len(content[j.buf]) = 1
                            /\ content[j.buf][1].of = c /\ content[j.buf][1].no = BlockNo(c, j.i)
        /\ j.pc = "put" => GotBlocks(c, j.i + 1) /\ j.buf # Nobody
        /\ j.pc = "release" =>
                /\ j.req # Nobody /\ j.buf = Nobody
                /\ IF j.got = << >> THEN Len(disk[c].data) = j.n ELSE GotBlocks(c, j.n)
        /\ j.pc # "failed"
        /\ Len(disk[c].data) <= MaxBlocks
        /\ AreBlocks(disk[c].data, c, disk[c].first)

RequestsInv == \A c \in Callers : RequestInv(c)

\* A goroutine that wants or has a nonce has a block to seal with it.
GoroutineInv ==
    \A r \in Readers : at[r] # "idle" => Busy(r) /\ Place(r) < part[r].high

PoolInv ==
    /\ pool["block"] \subseteq BlockBufs
    /\ pool["plain"] \subseteq PlainBufs
    /\ pool["request"] \subseteq ReqBufs

\* Nonces: that of a sealed block and that a goroutine is about to use.
NonceInv ==
    /\ \A v \in SealedBlocks : Bytes(v.nonce) \subseteq used
    /\ \A r \in Readers : at[r] = "done" =>
            /\ Bytes(out[r]) \subseteq used
            /\ \A v \in SealedBlocks : Bytes(v.nonce) \cap Bytes(out[r]) = {}
            /\ \A q \in Readers \ {r} : at[q] = "done" => Bytes(out[q]) \cap Bytes(out[r]) = {}
    /\ NoncesDiffer

IInv ==
    /\ PrefetchInv
    /\ TypeOK
    /\ PoolInv
    /\ BuffersHaveOneOwner
    /\ RequestsInv
    /\ GoroutineInv
    /\ NonceInv

-----------------------------------------------------------------------------
(* Lemmas                                                                  *)

LEMMA ReaderIsPair ==
    /\ \A r \in Readers : r[1] \in Callers /\ r[2] \in {0, 1} /\ r = <<r[1], r[2]>>
    /\ \A c \in Callers, g \in {0, 1} : <<c, g>> \in Readers
BY BlockEncryptionAssumption DEF Groups, EncryptMaxSplit

LEMMA BlocksPositive == MaxBlocks \in Nat /\ MaxBlocks >= 1
BY BlockEncryptionAssumption

\* What a pool hands out is no longer in it, is of its kind and has no other user.
LEMMA GetFree ==
    ASSUME TypeOK, PoolInv, BuffersHaveOneOwner, NEW kind \in Pools, Get(kind)
    PROVE  /\ Free(kind) \in pool[kind]
           /\ Free(kind) \in Bufs
           /\ \A c \in Callers : Free(kind) \notin Holds(c)
BY DEF Get, Free, TypeOK, BuffersHaveOneOwner, Pools

\* A request depends on its own variables and the buffers it holds.
LEMMA RequestFrame ==
    ASSUME TypeOK, NEW c \in Callers, RequestInv(c),
           job'[c] = job[c], running'[c] = running[c], sealed'[c] = sealed[c], disk'[c] = disk[c],
           part'[<<c, 0>>] = part[<<c, 0>>], part'[<<c, 1>>] = part[<<c, 1>>],
           \A b \in Holds(c) : content'[b] = content[b]
    PROVE  RequestInv(c)'
<1>1. \A k \in Places : sealed[c][k] # Nobody => content'[sealed[c][k]] = content[sealed[c][k]]
  BY DEF Holds
<1>2. job[c].req # Nobody => content'[job[c].req] = content[job[c].req]
  BY DEF Holds
<1>3. job[c].buf # Nobody => content'[job[c].buf] = content[job[c].buf]
  BY DEF Holds
<1>4. \A k \in Places : sealed[c][k] # Nobody => SealedRight(c, k)'
  BY <1>1 DEF SealedRight, BlockNo, RequestInv
<1>5. \A m : ReqHolds(c, m) => ReqHolds(c, m)'
  BY <1>2 DEF ReqHolds, AreBlocks
<1>6. \A m : GotBlocks(c, m) => GotBlocks(c, m)'
  BY DEF GotBlocks, AreBlocks
<1>7. SplitInv(c) => SplitInv(c)'
  BY DEF SplitInv
<1>8. AreBlocks(disk[c].data, c, disk[c].first)'
  BY DEF AreBlocks, RequestInv
<1> QED BY <1>3, <1>4, <1>5, <1>6, <1>7, <1>8 DEF RequestInv, BlockNo

\* Sealed blocks come from buffers and files: what steps may add is known to the nonces.
LEMMA SealedIs ==
    \A v : v \in SealedBlocks <=>
            \/ \E b \in Bufs : \E k \in DOMAIN content[b] : v = content[b][k]
            \/ \E c \in Callers : \E k \in DOMAIN disk[c].data : v = disk[c].data[k]
BY DEF SealedBlocks, BlocksIn

LEMMA SealedFrame ==
    ASSUME NEW S,
           \A b \in Bufs : \A k \in DOMAIN content'[b] : content'[b][k] \in S,
           \A c \in Callers : \A k \in DOMAIN disk'[c].data : disk'[c].data[k] \in S
    PROVE  SealedBlocks' \subseteq S
BY DEF SealedBlocks, BlocksIn

LEMMA NonceFrame ==
    ASSUME NonceInv, SealedBlocks' \subseteq SealedBlocks, UNCHANGED <<at, out, used>>
    PROVE  NonceInv'
BY DEF NonceInv, NoncesDiffer, Bytes

LEMMA BlockVarsKeep ==
    ASSUME TypeOK, PrefetchTypeOK', PoolInv, BuffersHaveOneOwner, RequestsInv, UNCHANGED blockVars
    PROVE  /\ TypeOK' /\ PoolInv' /\ BuffersHaveOneOwner' /\ RequestsInv'
           /\ SealedBlocks' = SealedBlocks
<1>1. TypeOK'
  BY DEF blockVars, TypeOK
<1>2. PoolInv'
  BY DEF blockVars, PoolInv
<1>3. BuffersHaveOneOwner'
  BY DEF blockVars, BuffersHaveOneOwner, Holds
<1>4. RequestsInv'
  BY RequestFrame DEF blockVars, RequestsInv
<1>5. SealedBlocks' = SealedBlocks
  BY DEF blockVars, SealedBlocks
<1> QED BY <1>1, <1>2, <1>3, <1>4, <1>5

LEMMA GetNonceOK ==
    ASSUME IInv, NEW r \in Readers, GetNonce(r), PrefetchInv'
    PROVE  IInv'
<1>1. PrefetchTypeOK'
  BY DEF PrefetchInv
<1>2. TypeOK' /\ PoolInv' /\ BuffersHaveOneOwner' /\ RequestsInv' /\ SealedBlocks' = SealedBlocks
  BY <1>1, BlockVarsKeep DEF IInv, GetNonce
<1>3. GoroutineInv'
  BY DEF IInv, GoroutineInv, GetNonce, Request, blockVars, Busy, Place, PrefetchInv, PrefetchTypeOK
<1>4. NonceInv'
  BY <1>2 DEF IInv, NonceInv, NoncesDiffer, GetNonce, Request, PrefetchInv, PrefetchTypeOK
<1> QED BY <1>2, <1>3, <1>4 DEF IInv

LEMMA WorkerOK ==
    ASSUME IInv, Worker, PrefetchInv'
    PROVE  IInv'
<1>1. PrefetchTypeOK'
  BY DEF PrefetchInv
<1>2. TypeOK' /\ PoolInv' /\ BuffersHaveOneOwner' /\ RequestsInv' /\ SealedBlocks' = SealedBlocks
  BY <1>1, BlockVarsKeep DEF IInv, Worker
<1>3. GoroutineInv'
  BY DEF IInv, GoroutineInv, Worker, RefillWorker, blockVars, Busy, Place
<1>4. NonceInv'
  BY <1>2, NonceFrame DEF IInv, Worker, RefillWorker
<1> QED BY <1>2, <1>3, <1>4 DEF IInv

\* A reader that returns has bytes that no block and no other reader has.
LEMMA PrefetchOK ==
    ASSUME IInv, NEW r \in Readers, Prefetch(r), PrefetchInv'
    PROVE  IInv'
<1>1. PrefetchTypeOK'
  BY DEF PrefetchInv
<1>2. TypeOK' /\ PoolInv' /\ BuffersHaveOneOwner' /\ RequestsInv' /\ SealedBlocks' = SealedBlocks
  BY <1>1, BlockVarsKeep DEF IInv, Prefetch
<1>3. /\ at[r] \notin {"idle", "done"}
      /\ \A q \in Readers \ {r} : at'[q] = at[q] /\ out'[q] = out[q]
      /\ used' = used \/ used' = used \cup Bytes(out'[r])
      /\ at'[r] = "done" => used' = used \cup Bytes(out'[r])
  <2> USE DEF IInv, PrefetchInv, PrefetchTypeOK
  <2>1. CASE Lock(r) \/ CopyBuf(r)
    BY <2>1 DEF Lock, CopyBuf
  <2>2. CASE AdvanceBuf(r)
    BY <2>2 DEF AdvanceBuf, Unlock
  <2>3. CASE Refill(r)
    BY <2>3 DEF Refill, Unlock
  <2> QED BY <2>1, <2>2, <2>3 DEF Prefetch, ReadStep
<1>4. GoroutineInv'
  BY <1>3 DEF IInv, GoroutineInv, Prefetch, blockVars, Busy, Place
<1>5. at'[r] = "done" => Bytes(out'[r]) \cap used = {}
  <2>1. PrefetchNext
    BY DEF Prefetch, PrefetchNext
  <2> QED BY <2>1, <1>3, NoByteTwiceStep DEF IInv
<1>6. \A q \in Readers : Bytes(out[q])' = Bytes(out'[q])
  BY DEF Bytes
<1>7. NonceInv'
  <2>1. \A v \in SealedBlocks' : Bytes(v.nonce)' = Bytes(v.nonce) /\ Bytes(v.nonce) \subseteq used /\ used \subseteq used'
    BY <1>2, <1>3 DEF IInv, NonceInv, Bytes
  <2>2. \A q \in Readers \ {r} : at'[q] = "done" => Bytes(out'[q]) \subseteq used
    BY <1>3 DEF IInv, NonceInv
  <2>3. \A q \in Readers : at'[q] = "done" => Bytes(out'[q]) \subseteq used'
    BY <1>3, <2>2
  <2>4. \A q \in Readers, v \in SealedBlocks' : at'[q] = "done" => Bytes(v.nonce) \cap Bytes(out'[q]) = {}
    BY <1>2, <1>3, <1>5, <2>1 DEF IInv, NonceInv
  <2>5. \A q, u \in Readers : q # u /\ at'[q] = "done" /\ at'[u] = "done" => Bytes(out'[q]) \cap Bytes(out'[u]) = {}
    <3>1. \A q, u \in Readers \ {r} : q # u /\ at'[q] = "done" /\ at'[u] = "done" => Bytes(out'[q]) \cap Bytes(out'[u]) = {}
      BY <1>3 DEF IInv, NonceInv
    <3>2. \A q \in Readers \ {r} : at'[q] = "done" /\ at'[r] = "done" => Bytes(out'[q]) \cap Bytes(out'[r]) = {}
      BY <2>2, <1>5
    <3> QED BY <3>1, <3>2
  <2>6. NoncesDiffer'
    BY <1>2, <2>1 DEF IInv, NonceInv, NoncesDiffer
  <2> QED BY <1>6, <2>1, <2>3, <2>4, <2>5, <2>6 DEF NonceInv
<1> QED BY <1>2, <1>4, <1>7 DEF IInv

LEMMA GroupDoneOK ==
    ASSUME IInv, NEW c \in Callers, NEW g \in {0, 1}, GroupDone(<<c, g>>), PrefetchInv'
    PROVE  IInv'
<1> DEFINE r == <<c, g>>
<1> USE DEF IInv
<1>1. r \in Readers
  BY ReaderIsPair
<1>2. /\ running' = [running EXCEPT ![c] = @ \ {g}]
      /\ UNCHANGED <<pool, content, job, part, sealed, disk, work, at, out, used>>
      /\ g \in running[c] /\ at[r] = "idle" /\ part[r].low + part[r].i = part[r].high
  BY DEF GroupDone, Busy, Place, prefetchVars
<1>3. TypeOK'
  BY <1>1, <1>2 DEF TypeOK, PrefetchInv
<1>4. PoolInv' /\ BuffersHaveOneOwner'
  BY <1>2 DEF PoolInv, BuffersHaveOneOwner, Holds
<1>5. job[c].pc = "wait"
  BY <1>1, <1>2 DEF RequestsInv, RequestInv
<1>6. RequestInv(c)'
  <2>1. running'[c] = running[c] \ {g}
    BY <1>1, <1>2 DEF TypeOK
  <2>2. RequestInv(c) /\ SplitInv(c)
    BY <1>5 DEF RequestsInv, RequestInv
  <2>3. part[r] \in [low : Nat, high : Nat, i : Nat]
    BY <1>1 DEF TypeOK
  <2>4. SplitInv(c)'
    <3>1. CASE g = 0
      BY <1>2, <2>1, <2>2, <2>3, <3>1 DEF SplitInv
    <3>2. CASE g = 1
      BY <1>2, <2>1, <2>2, <2>3, <3>2 DEF SplitInv
    <3> QED BY <3>1, <3>2
  <2>5. \A k \in Places : sealed'[c][k] # Nobody => SealedRight(c, k)'
    BY <1>2, <2>2 DEF RequestInv, SealedRight, BlockNo
  <2>6. AreBlocks(disk[c].data, c, disk[c].first)'
    BY <1>2, <2>2 DEF RequestInv, AreBlocks
  <2>7. job' = job /\ disk' = disk /\ sealed' = sealed
    BY <1>2
  <2> HIDE <1>2, <1>3, <1>4 DEF IInv
  <2> QED BY <1>5, <2>2, <2>4, <2>5, <2>6, <2>7 DEF RequestInv, Waiting, Reading
<1>7. \A d \in Callers \ {c} : RequestInv(d)'
  <2> TAKE d \in Callers \ {c}
  <2>1. running'[d] = running[d]
    BY <1>1, <1>2 DEF TypeOK
  <2> QED BY <1>2, <2>1, RequestFrame DEF RequestsInv
<1>8. GoroutineInv'
  <2> SUFFICES ASSUME NEW q \in Readers, at'[q] # "idle" PROVE (Busy(q) /\ Place(q) < part[q].high)'
    BY DEF GoroutineInv
  <2>1. q # r /\ Busy(q) /\ Place(q) < part[q].high
    BY <1>2 DEF GoroutineInv
  <2>2. q[1] # c \/ q[2] # g
    BY <2>1, ReaderIsPair
  <2> QED BY <1>1, <1>2, <2>1, <2>2, ReaderIsPair DEF Busy, Place, TypeOK
<1>9. SealedBlocks' \subseteq SealedBlocks
  BY <1>2 DEF SealedBlocks, BlocksIn
<1>10. NonceInv'
  BY <1>2, <1>9, NonceFrame
<1> QED BY <1>3, <1>4, <1>6, <1>7, <1>8, <1>10 DEF RequestsInv

\* Two buffers of different kinds differ.
LEMMA KindsDiffer ==
    /\ \A b \in BlockBufs : b # Nobody /\ b \notin PlainBufs /\ b \notin ReqBufs /\ b \in Bufs
    /\ \A b \in PlainBufs : b # Nobody /\ b \notin ReqBufs /\ b \in Bufs
    /\ \A b \in ReqBufs : b # Nobody /\ b \in Bufs
BY BlockEncryptionAssumption DEF Bufs

LEMMA SealBlockOK ==
    ASSUME IInv, NEW c \in Callers, NEW g \in {0, 1}, SealBlock(<<c, g>>), PrefetchInv'
    PROVE  IInv'
<1> DEFINE r == <<c, g>>
           w == Free("block")
           p == Place(r)
           v == [of |-> c, no |-> NumberOf(r), nonce |-> out[r]]
<1>t. TypeOK /\ PoolInv /\ BuffersHaveOneOwner /\ RequestsInv /\ GoroutineInv /\ NonceInv
  BY DEF IInv
<1>1. r \in Readers /\ r[1] = c
  BY ReaderIsPair
<1>2. /\ at[r] = "done" /\ at' = [at EXCEPT ![r] = "idle"] /\ out' = [out EXCEPT ![r] = None]
      /\ pool' = [pool EXCEPT !["block"] = @ \ {w}]
      /\ content' = [content EXCEPT ![w] = <<v>>]
      /\ sealed' = [sealed EXCEPT ![c][p] = w]
      /\ part' = [part EXCEPT ![r].i = @ + 1]
      /\ UNCHANGED <<job, running, disk, work, used>>
  BY <1>1 DEF SealBlock, Consume, Get
<1>3. w \in pool["block"] /\ w \in BlockBufs /\ w \in Bufs /\ \A d \in Callers : w \notin Holds(d)
  <2>1. Get("block") /\ "block" \in Pools
    BY DEF SealBlock, Pools
  <2> QED BY <1>t, <2>1, GetFree DEF PoolInv
<1>4. /\ g \in running[c] /\ p = part[r].low + part[r].i /\ p < part[r].high
      /\ part[r] \in [low : Nat, high : Nat, i : Nat]
  BY <1>t, <1>1, <1>2 DEF GoroutineInv, Busy, Place, TypeOK
<1>5. job[c].pc = "wait" /\ RequestInv(c) /\ SplitInv(c)
  BY <1>t, <1>4 DEF RequestsInv, RequestInv
<1>6. p \in Places /\ p < job[c].n /\ sealed[c][p] = Nobody
  <2>1. job[c].n \in 0..MaxBlocks /\ part[<<c, 0>>] \in [low : Nat, high : Nat, i : Nat] /\ part[<<c, 1>>] \in [low : Nat, high : Nat, i : Nat]
    BY <1>t, ReaderIsPair DEF TypeOK, Requests
  <2>2. p \in Places /\ p < job[c].n
    BY <1>4, <1>5, <2>1, BlocksPositive DEF SplitInv, Places
  <2>3. CASE g = 0
    BY <1>4, <1>5, <2>1, <2>2, <2>3 DEF SplitInv
  <2>4. CASE g = 1
    BY <1>4, <1>5, <2>1, <2>2, <2>4 DEF SplitInv
  <2> QED BY <2>2, <2>3, <2>4
<1>7. v \in Sealed
  <2>1. out[r] \in [from : Nat, len : Nat] /\ job[c].first \in Nat
    BY <1>t, <1>1 DEF TypeOK, PrefetchTypeOK, Requests
  <2> QED BY <1>1, <1>4, <2>1 DEF NumberOf, BlockNo, Sealed
<1>8. /\ sealed'[c] = [sealed[c] EXCEPT ![p] = w]
      /\ \A d \in Callers \ {c} : sealed'[d] = sealed[d]
      /\ content'[w] = <<v>> /\ \A b \in Bufs \ {w} : content'[b] = content[b]
      /\ sealed[c] \in [Places -> BlockBufs \cup {Nobody}]
  BY <1>t, <1>2, <1>3 DEF TypeOK
<1>9. TypeOK'
  <2>1. PrefetchTypeOK'
    BY DEF PrefetchInv
  <2>2. content' \in [Bufs -> Seq(Sealed)] /\ \A b \in Bufs : Len(content'[b]) <= MaxBlocks
    <3>1. <<v>> \in Seq(Sealed) /\ Len(<<v>>) = 1
      BY <1>7
    <3>2. content' \in [Bufs -> Seq(Sealed)]
      BY <1>t, <1>2, <3>1 DEF TypeOK
    <3>3. \A b \in Bufs : Len(content'[b]) <= MaxBlocks
      BY <1>t, <1>8, <3>1, BlocksPositive DEF TypeOK
    <3> QED BY <3>2, <3>3
  <2>3. sealed' \in [Callers -> [Places -> BlockBufs \cup {Nobody}]]
    BY <1>t, <1>2, <1>3, <1>6, <1>8 DEF TypeOK
  <2>4. part' \in [Readers -> [low : Nat, high : Nat, i : Nat]]
    <3>1. [part[r] EXCEPT !.i = @ + 1] \in [low : Nat, high : Nat, i : Nat]
      BY <1>4
    <3>2. part \in [Readers -> [low : Nat, high : Nat, i : Nat]]
      BY <1>t DEF TypeOK
    <3>3. part' = [part EXCEPT ![r] = [part[r] EXCEPT !.i = @ + 1]]
      BY <1>2
    <3> HIDE DEF r
    <3> QED BY <3>1, <3>2, <3>3
  <2>5. pool' \in [Pools -> SUBSET Bufs]
    BY <1>t, <1>2 DEF TypeOK, Pools
  <2> QED BY <1>t, <1>2, <2>1, <2>2, <2>3, <2>4, <2>5 DEF TypeOK
<1>10. PoolInv'
  BY <1>t, <1>2 DEF PoolInv, TypeOK, Pools
<1>11. Holds(c)' = Holds(c) \cup {w} /\ \A d \in Callers \ {c} : Holds(d)' = Holds(d)
  <2>1. \A k \in Places : sealed'[c][k] = IF k = p THEN w ELSE sealed[c][k]
    BY <1>8
  <2>2. Holds(c)' = Holds(c) \cup {w}
    BY <1>2, <1>3, <1>6, <2>1, KindsDiffer DEF Holds
  <2>3. job' = job /\ \A d \in Callers \ {c} : sealed'[d] = sealed[d]
    BY <1>2, <1>8
  <2>4. \A d \in Callers \ {c} : Holds(d)' = Holds(d)
    BY <2>3 DEF Holds
  <2> QED BY <2>2, <2>4
<1>12. BuffersHaveOneOwner'
  <2>1. \A k \in Pools : pool'[k] \subseteq pool[k] /\ w \notin pool'[k]
    <3>1. w \notin PlainBufs /\ w \notin ReqBufs
      BY <1>3, KindsDiffer
    <3> QED BY <1>t, <1>2, <3>1 DEF TypeOK, PoolInv, Pools
  <2>2. \A d \in Callers, k \in Pools : Holds(d)' \cap pool'[k] = {}
    BY <1>t, <1>11, <2>1 DEF BuffersHaveOneOwner
  <2>3. \A d, e \in Callers : d # e => Holds(d)' \cap Holds(e)' = {}
    BY <1>t, <1>3, <1>11 DEF BuffersHaveOneOwner
  <2>4. \A d \in Callers : \A k, l \in Places : k # l /\ sealed'[d][k] = sealed'[d][l] => sealed'[d][k] = Nobody
    <3>1. \A k \in Places : sealed[c][k] # w
      BY <1>3, KindsDiffer DEF Holds
    <3> QED BY <1>t, <1>8, <3>1 DEF BuffersHaveOneOwner
  <2> QED BY <2>2, <2>3, <2>4 DEF BuffersHaveOneOwner
<1>13. RequestInv(c)'
  <2>1. job' = job /\ disk' = disk /\ running' = running
    BY <1>2
  <2>2. SplitInv(c)'
    <3>1. part[<<c, 0>>] \in [low : Nat, high : Nat, i : Nat] /\ part[<<c, 1>>] \in [low : Nat, high : Nat, i : Nat]
      BY <1>t, ReaderIsPair DEF TypeOK
    <3>2. \A k \in Places : sealed'[c][k] = IF k = p THEN w ELSE sealed[c][k]
      BY <1>8
    <3>3. w # Nobody /\ Places \subseteq Nat
      BY <1>3, KindsDiffer DEF Places
    <3>4. CASE g = 0
      <4>1. part'[<<c, 0>>] = [part[<<c, 0>>] EXCEPT !.i = @ + 1] /\ part'[<<c, 1>>] = part[<<c, 1>>]
        BY <1>t, <1>1, <1>2, <3>4, ReaderIsPair DEF TypeOK
      <4> QED BY <1>4, <1>5, <2>1, <3>1, <3>2, <3>3, <3>4, <4>1 DEF SplitInv
    <3>5. CASE g = 1
      <4>1. part'[<<c, 1>>] = [part[<<c, 1>>] EXCEPT !.i = @ + 1] /\ part'[<<c, 0>>] = part[<<c, 0>>]
        BY <1>t, <1>1, <1>2, <3>5, ReaderIsPair DEF TypeOK
      <4> QED BY <1>4, <1>5, <2>1, <3>1, <3>2, <3>3, <3>5, <4>1 DEF SplitInv
    <3> QED BY <3>4, <3>5
  <2>3. ASSUME NEW k \in Places, sealed'[c][k] # Nobody PROVE SealedRight(c, k)'
    <3>1. CASE k = p
      BY <1>1, <1>6, <1>8, <2>1, <3>1 DEF SealedRight, NumberOf, BlockNo
    <3>2. CASE k # p
      <4>1. sealed'[c][k] = sealed[c][k] /\ sealed[c][k] # w /\ sealed[c][k] \in Bufs
        BY <1>3, <1>8, <2>3, <3>2, KindsDiffer DEF Holds
      <4>2. content'[sealed'[c][k]] = content[sealed[c][k]]
        BY <1>8, <4>1
      <4> QED BY <1>5, <2>1, <2>3, <4>1, <4>2 DEF RequestInv, SealedRight, BlockNo
    <3> QED BY <3>1, <3>2
  <2>4. AreBlocks(disk[c].data, c, disk[c].first)'
    BY <1>5, <2>1 DEF RequestInv, AreBlocks
  <2> QED BY <1>5, <2>1, <2>2, <2>3, <2>4 DEF RequestInv, Waiting, Reading
<1>14. \A d \in Callers \ {c} : RequestInv(d)'
  <2> TAKE d \in Callers \ {c}
  <2>1. part'[<<d, 0>>] = part[<<d, 0>>] /\ part'[<<d, 1>>] = part[<<d, 1>>]
    BY <1>t, <1>1, <1>2, ReaderIsPair DEF TypeOK
  <2>2. \A b \in Holds(d) : content'[b] = content[b]
    BY <1>t, <1>2, <1>3 DEF TypeOK
  <2> QED BY <1>t, <1>2, <1>8, <2>1, <2>2, RequestFrame DEF RequestsInv
<1>15. GoroutineInv'
  <2> SUFFICES ASSUME NEW q \in Readers, at'[q] # "idle" PROVE (Busy(q) /\ Place(q) < part[q].high)'
    BY DEF GoroutineInv
  <2>1. q # r /\ at[q] # "idle"
    BY <1>t, <1>1, <1>2 DEF TypeOK, PrefetchTypeOK
  <2>2. part'[q] = part[q]
    BY <1>t, <1>2, <2>1 DEF TypeOK
  <2> QED BY <1>t, <1>2, <2>1, <2>2 DEF GoroutineInv, Busy, Place
<1>16. NonceInv'
  <2>1. SealedBlocks' \subseteq SealedBlocks \cup {v}
    <3>1. \A b \in Bufs : \A k \in DOMAIN content'[b] : content'[b][k] \in SealedBlocks \cup {v}
      <4> TAKE b \in Bufs
      <4>1. CASE b = w
        BY <1>8, <4>1
      <4>2. CASE b # w
        BY <1>8, <4>2, SealedIs
      <4> QED BY <4>1, <4>2
    <3>2. \A d \in Callers : \A k \in DOMAIN disk'[d].data : disk'[d].data[k] \in SealedBlocks \cup {v}
      BY <1>2, SealedIs
    <3> QED BY <3>1, <3>2, SealedFrame
  <2>2. \A o : Bytes(o)' = Bytes(o)
    OBVIOUS
  <2>3. v.nonce = out[r] /\ Bytes(out[r]) \subseteq used /\ \A u \in SealedBlocks : Bytes(u.nonce) \cap Bytes(out[r]) = {}
    BY <1>t, <1>1, <1>2 DEF NonceInv
  <2>4. \A q \in Readers : at'[q] = "done" => q # r /\ at[q] = "done" /\ out'[q] = out[q]
    BY <1>t, <1>1, <1>2 DEF TypeOK, PrefetchTypeOK
  <2>5. \A u \in SealedBlocks' : Bytes(u.nonce) \subseteq used
    BY <1>t, <2>1, <2>3 DEF NonceInv
  <2>6. \A u, x \in SealedBlocks' : u # x => Bytes(u.nonce) \cap Bytes(x.nonce) = {}
    BY <1>t, <2>1, <2>3 DEF NonceInv, NoncesDiffer
  <2>7. \A q \in Readers : at'[q] = "done" =>
            /\ Bytes(out'[q]) \subseteq used
            /\ \A u \in SealedBlocks' : Bytes(u.nonce) \cap Bytes(out'[q]) = {}
            /\ \A x \in Readers \ {q} : at'[x] = "done" => Bytes(out'[x]) \cap Bytes(out'[q]) = {}
    BY <1>t, <1>1, <1>2, <2>1, <2>3, <2>4 DEF NonceInv
  <2> QED BY <1>2, <2>5, <2>6, <2>7 DEF NonceInv, NoncesDiffer, Bytes
<1> QED BY <1>9, <1>10, <1>12, <1>13, <1>14, <1>15, <1>16 DEF IInv, RequestsInv

-----------------------------------------------------------------------------
(* The steps of a caller                                                   *)

\* Goroutines of a caller whose request is not being sealed are idle.
LEMMA CallerIsAlone ==
    ASSUME IInv, NEW c \in Callers, running[c] = {}, NEW r \in Readers, r[1] = c
    PROVE  at[r] = "idle"
BY DEF IInv, GoroutineInv, Busy

\* What a step of c has to show: the rest of the invariant is about others.
LEMMA CallerStepOK ==
    ASSUME IInv, NEW c \in Callers, running[c] = {}, UNCHANGED prefetchVars, PrefetchInv',
           TypeOK', PoolInv',
           \A d \in Callers \ {c} : /\ job'[d] = job[d] /\ running'[d] = running[d]
                                    /\ sealed'[d] = sealed[d] /\ disk'[d] = disk[d],
           \A r \in Readers : r[1] # c => part'[r] = part[r],
           \A d \in Callers \ {c} : \A b \in Holds(d) : content'[b] = content[b],
           \* c and the pools share the buffers they had
           \A b \in Holds(c)' : b \in Holds(c) \/ \E k \in Pools : b \in pool[k],
           \A k \in Pools : \A b \in pool'[k] : b \in Holds(c) \/ b \in pool[k],
           \A k \in Pools : Holds(c)' \cap pool'[k] = {},
           \A k, l \in Places : k # l /\ sealed'[c][k] = sealed'[c][l] => sealed'[c][k] = Nobody,
           SealedBlocks' \subseteq SealedBlocks,
           RequestInv(c)'
    PROVE  IInv'
<1>t. TypeOK /\ PoolInv /\ BuffersHaveOneOwner /\ RequestsInv /\ GoroutineInv /\ NonceInv
  BY DEF IInv
<1>1. \A d \in Callers \ {c} : RequestInv(d)'
  <2> TAKE d \in Callers \ {c}
  <2>1. part'[<<d, 0>>] = part[<<d, 0>>] /\ part'[<<d, 1>>] = part[<<d, 1>>]
    BY ReaderIsPair
  <2> QED BY <1>t, <2>1, RequestFrame DEF RequestsInv
<1>2. \A d \in Callers \ {c} : Holds(d)' = Holds(d)
  BY DEF Holds
<1>3. BuffersHaveOneOwner'
  <2>1. \A d \in Callers, k \in Pools : Holds(d)' \cap pool'[k] = {}
    BY <1>t, <1>2 DEF BuffersHaveOneOwner
  <2>2. \A d \in Callers \ {c} : Holds(c)' \cap Holds(d)' = {}
    BY <1>t, <1>2 DEF BuffersHaveOneOwner
  <2>3. \A d, e \in Callers : d # e => Holds(d)' \cap Holds(e)' = {}
    BY <1>t, <1>2, <2>2 DEF BuffersHaveOneOwner
  <2>4. \A d \in Callers : \A k, l \in Places : k # l /\ sealed'[d][k] = sealed'[d][l] => sealed'[d][k] = Nobody
    BY <1>t DEF BuffersHaveOneOwner
  <2> QED BY <2>1, <2>3, <2>4 DEF BuffersHaveOneOwner
<1>4. GoroutineInv'
  <2> SUFFICES ASSUME NEW r \in Readers, at'[r] # "idle" PROVE (Busy(r) /\ Place(r) < part[r].high)'
    BY DEF GoroutineInv
  <2>1. at[r] # "idle"
    BY DEF prefetchVars
  <2>2. r[1] # c /\ r[1] \in Callers
    BY <2>1, CallerIsAlone, ReaderIsPair
  <2> QED BY <1>t, <2>1, <2>2 DEF GoroutineInv, Busy, Place
<1>5. NonceInv'
  BY <1>t, NonceFrame DEF prefetchVars
<1> QED BY <1>1, <1>3, <1>4, <1>5 DEF IInv, RequestsInv

LEMMA EncryptBlocksOK ==
    ASSUME IInv, NEW c \in Callers, EncryptBlocks(c), PrefetchInv'
    PROVE  IInv'
<1>t. TypeOK /\ PoolInv /\ BuffersHaveOneOwner /\ RequestInv(c)
  BY DEF IInv, RequestsInv
<1>1. PICK n \in 1..MaxBlocks, first \in FirstBlocks :
            /\ work + n <= MaxWork /\ work' = work + n
            /\ job' = [job EXCEPT ![c] = [NoJob EXCEPT !.pc = "wait", !.n = n, !.first = first]]
            /\ running' = [running EXCEPT ![c] = 0..Ncpu(n) - 1]
            /\ part' = [r \in Readers |-> IF r[1] = c THEN PartOf(n, r[2]) ELSE part[r]]
  BY DEF EncryptBlocks
<1>2. UNCHANGED <<prefetchVars, pool, content, sealed, disk>> /\ job[c] = NoJob
  BY <1>t DEF EncryptBlocks, At, RequestInv
<1>3. running[c] = {} /\ sealed[c] = NoBuffers
  BY <1>t, <1>2 DEF RequestInv, NoJob
<1>4. n \in Nat /\ n >= 1 /\ n <= MaxBlocks /\ first \in Nat
  BY BlockEncryptionAssumption
<1>5. /\ job'[c] = [NoJob EXCEPT !.pc = "wait", !.n = n, !.first = first]
      /\ running'[c] = 0..Ncpu(n) - 1
      /\ part'[<<c, 0>>] = PartOf(n, 0) /\ part'[<<c, 1>>] = PartOf(n, 1)
  BY <1>t, <1>1, ReaderIsPair DEF TypeOK
<1>6. /\ PartOf(n, 0) \in [low : Nat, high : Nat, i : Nat]
      /\ PartOf(n, 1) \in [low : Nat, high : Nat, i : Nat]
      /\ PartOf(n, 0).low = 0 /\ PartOf(n, 0).high = PartOf(n, 1).low /\ PartOf(n, 1).high = n
      /\ PartOf(n, 0).i = 0 /\ PartOf(n, 1).i = 0
      /\ PartOf(n, 1).low <= n
      /\ Ncpu(n) \in {1, 2}
      /\ Ncpu(n) = 1 => PartOf(n, 1).low = n
  <2>1. Ncpu(n) \in {1, 2}
    BY <1>4, BlockEncryptionAssumption DEF Ncpu, Min2, EncryptMaxSplit
  <2>2. CASE Ncpu(n) = 1
    BY <1>4, <2>2 DEF PartOf, Group
  <2>3. CASE Ncpu(n) = 2
    BY <1>4, <2>3 DEF PartOf, Group
  <2> QED BY <2>1, <2>2, <2>3
<1>7. TypeOK'
  <2>1. PrefetchTypeOK' /\ work' \in 0..MaxWork
    BY <1>t, <1>1, <1>4, BlockEncryptionAssumption DEF PrefetchInv, TypeOK
  <2>2. job' \in [Callers -> Requests]
    <3>1. << >> \in Seq(Sealed) /\ 0 \in 0..MaxBlocks /\ n \in 0..MaxBlocks
      BY <1>4, BlocksPositive
    <3>2. [NoJob EXCEPT !.pc = "wait", !.n = n, !.first = first] \in Requests
      BY <1>4, <3>1 DEF NoJob, Requests, Waiting
    <3> QED BY <1>t, <1>1, <3>2 DEF TypeOK
  <2>3. running' \in [Callers -> SUBSET Groups]
    <3>1. 0..Ncpu(n) - 1 \subseteq Groups
      BY <1>6 DEF Groups, EncryptMaxSplit
    <3> QED BY <1>t, <1>1, <3>1 DEF TypeOK
  <2>4. part' \in [Readers -> [low : Nat, high : Nat, i : Nat]]
    <3>1. ASSUME NEW r \in Readers PROVE part'[r] \in [low : Nat, high : Nat, i : Nat]
      BY <1>t, <1>1, <1>6, ReaderIsPair DEF TypeOK
    <3> QED BY <1>1, <3>1
  <2> QED BY <1>t, <1>2, <2>1, <2>2, <2>3, <2>4 DEF TypeOK
<1>8. RequestInv(c)'
  <2>1. \A k \in Places : sealed'[c][k] = Nobody
    BY <1>2, <1>3 DEF NoBuffers
  <2>2. SplitInv(c)'
    <3>1. 0 \in running'[c] /\ (Ncpu(n) = 2 => 1 \in running'[c])
      BY <1>5, <1>6
    <3>2. Places \subseteq Nat
      BY DEF Places
    <3>3. job'[c].n = n
      BY <1>5 DEF NoJob
    <3> QED BY <1>4, <1>5, <1>6, <2>1, <3>1, <3>2, <3>3 DEF SplitInv
  <2>3. job'[c].pc = "wait" /\ job'[c].n = n /\ job'[c].i = 0 /\ job'[c].req = Nobody /\ job'[c].buf = Nobody /\ job'[c].got = << >>
    BY <1>5 DEF NoJob
  <2>4. disk' = disk /\ Len(disk[c].data) <= MaxBlocks /\ AreBlocks(disk[c].data, c, disk[c].first)'
    BY <1>t, <1>2 DEF RequestInv, AreBlocks
  <2> QED BY <1>4, <2>1, <2>2, <2>3, <2>4 DEF RequestInv, Waiting, Reading
<1>9. PoolInv' /\ SealedBlocks' \subseteq SealedBlocks
  BY <1>t, <1>2 DEF PoolInv, SealedBlocks, BlocksIn
<1>10. Holds(c)' \subseteq Holds(c)
  BY <1>2, <1>5 DEF Holds, NoJob
<1>11. /\ \A d \in Callers \ {c} : job'[d] = job[d] /\ running'[d] = running[d]
       /\ \A r \in Readers : r[1] # c => part'[r] = part[r]
  BY <1>t, <1>1 DEF TypeOK
<1>12. \A k, l \in Places : k # l /\ sealed'[c][k] = sealed'[c][l] => sealed'[c][k] = Nobody
  BY <1>t, <1>2 DEF BuffersHaveOneOwner
<1>13. \A k \in Pools : Holds(c)' \cap pool'[k] = {}
  BY <1>t, <1>2, <1>10 DEF BuffersHaveOneOwner
<1> QED BY <1>2, <1>3, <1>7, <1>8, <1>9, <1>10, <1>11, <1>12, <1>13, CallerStepOK

\* Blocks that stay sealed in buffers that stay as they are.
LEMMA SealedKeep ==
    ASSUME NEW c \in Callers, RequestInv(c), job'[c].first = job[c].first,
           \A k \in Places : sealed'[c][k] # Nobody =>
                sealed'[c][k] = sealed[c][k] /\ content'[sealed[c][k]] = content[sealed[c][k]]
    PROVE  \A k \in Places : sealed'[c][k] # Nobody => SealedRight(c, k)'
BY DEF RequestInv, SealedRight, BlockNo

LEMMA DiskKeep ==
    ASSUME NEW c \in Callers, RequestInv(c), disk' = disk
    PROVE  (Len(disk[c].data) <= MaxBlocks /\ AreBlocks(disk[c].data, c, disk[c].first))'
BY DEF RequestInv, AreBlocks

\* The request of a caller is typed.
LEMMA JobIs ==
    ASSUME TypeOK, NEW c \in Callers
    PROVE  /\ job[c] \in Requests
           /\ job[c].n \in Nat /\ job[c].n <= MaxBlocks /\ job[c].i \in Nat /\ job[c].first \in Nat
           /\ job[c].got \in Seq(Sealed)
           /\ job[c].req \in ReqBufs \cup {Nobody} /\ job[c].buf \in PlainBufs \cup {Nobody}
           /\ job[c].req # Nobody => job[c].req \in Bufs /\ content[job[c].req] \in Seq(Sealed)
           /\ job[c].buf # Nobody => job[c].buf \in Bufs /\ content[job[c].buf] \in Seq(Sealed)
           /\ \A k \in Places : sealed[c][k] \in BlockBufs \cup {Nobody}
BY KindsDiffer, BlocksPositive DEF TypeOK, Requests

LEMMA WaitGroupOK ==
    ASSUME IInv, NEW c \in Callers, WaitGroup(c), PrefetchInv'
    PROVE  IInv'
<1> DEFINE w == Free("request")
           j == [job[c] EXCEPT !.pc = "append", !.req = w]
<1>t. TypeOK /\ PoolInv /\ BuffersHaveOneOwner /\ RequestInv(c)
  BY DEF IInv, RequestsInv
<1>1. /\ job[c].pc = "wait" /\ running[c] = {}
      /\ pool' = [pool EXCEPT !["request"] = @ \ {w}]
      /\ content' = [content EXCEPT ![w] = << >>]
      /\ job' = [job EXCEPT ![c] = j]
      /\ UNCHANGED <<prefetchVars, running, part, sealed, disk, work>>
  BY DEF WaitGroup, At, Get
<1>2. w \in pool["request"] /\ w \in ReqBufs /\ w \in Bufs /\ w # Nobody /\ \A d \in Callers : w \notin Holds(d)
  <2>1. Get("request") /\ "request" \in Pools
    BY DEF WaitGroup, Pools
  <2> QED BY <1>t, <2>1, GetFree, KindsDiffer DEF PoolInv
<1> HIDE DEF w
<1>3. /\ job'[c] = j /\ \A d \in Callers \ {c} : job'[d] = job[d]
      /\ content'[w] = << >> /\ \A b \in Bufs \ {w} : content'[b] = content[b]
  BY <1>t, <1>1, <1>2 DEF TypeOK
<1>4. /\ j.pc = "append" /\ j.req = w /\ j.n = job[c].n /\ j.i = job[c].i /\ j.first = job[c].first
      /\ j.buf = job[c].buf /\ j.got = job[c].got /\ j \in Requests
  BY <1>t, <1>2, JobIs DEF Requests, Waiting
<1>5. TypeOK'
  <2>1. PrefetchTypeOK' /\ job' \in [Callers -> Requests]
    BY <1>t, <1>1, <1>4 DEF PrefetchInv, TypeOK
  <2>2. content' \in [Bufs -> Seq(Sealed)] /\ \A b \in Bufs : Len(content'[b]) <= MaxBlocks
    <3>1. << >> \in Seq(Sealed) /\ Len(<< >>) = 0
      OBVIOUS
    <3>2. content' \in [Bufs -> Seq(Sealed)]
      BY <1>t, <1>1, <3>1 DEF TypeOK
    <3>3. \A b \in Bufs : Len(content[b]) <= MaxBlocks
      BY <1>t DEF TypeOK
    <3> QED BY <1>3, <3>1, <3>2, <3>3, BlocksPositive
  <2>3. pool' \in [Pools -> SUBSET Bufs]
    BY <1>t, <1>1 DEF TypeOK, Pools
  <2> QED BY <1>t, <1>1, <2>1, <2>2, <2>3 DEF TypeOK
<1>6. PoolInv'
  BY <1>t, <1>1 DEF PoolInv, TypeOK, Pools
<1>7. \A k \in Pools : pool'[k] \subseteq pool[k] /\ w \notin pool'[k]
  <2>1. w \notin BlockBufs /\ w \notin PlainBufs
    BY <1>2, KindsDiffer
  <2> QED BY <1>t, <1>1, <2>1 DEF TypeOK, PoolInv, Pools
<1>8. Holds(c)' \subseteq Holds(c) \cup {w}
  BY <1>1, <1>3, <1>4 DEF Holds
<1>9. \A d \in Callers : \A b \in Holds(d) : content'[b] = content[b]
  <2> SUFFICES ASSUME NEW d \in Callers, NEW b \in Holds(d) PROVE content'[b] = content[b]
    OBVIOUS
  <2> QED BY <1>t, <1>1, <1>2 DEF TypeOK
<1>10. RequestInv(c)'
  <2>1. SplitInv(c) /\ job[c].i = 0 /\ job[c].got = << >> /\ job[c].buf = Nobody /\ job[c].n > 0
    BY <1>t, <1>1 DEF RequestInv, Waiting
  <2>2. \A k \in Places : sealed'[c][k] # Nobody => SealedRight(c, k)'
    <3>1. \A k \in Places : sealed[c][k] # Nobody => content'[sealed[c][k]] = content[sealed[c][k]]
      BY <1>9 DEF Holds
    <3> QED BY <1>t, <1>1, <1>3, <1>4, <3>1, SealedKeep
  <2>3. \A k \in Places : sealed'[c][k] # Nobody <=> 0 <= k /\ k < job[c].n
    <3>1. part[<<c, 0>>] \in [low : Nat, high : Nat, i : Nat] /\ part[<<c, 1>>] \in [low : Nat, high : Nat, i : Nat]
      BY <1>t, ReaderIsPair DEF TypeOK
    <3> QED BY <1>1, <2>1, <3>1, JobIs, <1>t DEF SplitInv, Places
  <2>4. ReqHolds(c, 0)'
    BY <1>2, <1>3, <1>4 DEF ReqHolds, AreBlocks
  <2>5. (Len(disk[c].data) <= MaxBlocks /\ AreBlocks(disk[c].data, c, disk[c].first))'
    BY <1>t, <1>1, DiskKeep
  <2> QED BY <1>1, <1>3, <1>4, <2>1, <2>2, <2>3, <2>4, <2>5 DEF RequestInv, Waiting, Reading
<1>11. SealedBlocks' \subseteq SealedBlocks
  BY <1>1, <1>3, SealedIs, SealedFrame
<1>12. \A k, l \in Places : k # l /\ sealed'[c][k] = sealed'[c][l] => sealed'[c][k] = Nobody
  BY <1>t, <1>1 DEF BuffersHaveOneOwner
<1>13. \A k \in Pools : Holds(c)' \cap pool'[k] = {}
  BY <1>t, <1>7, <1>8 DEF BuffersHaveOneOwner
<1>14. \A b \in Holds(c)' : b \in Holds(c) \/ \E k \in Pools : b \in pool[k]
  BY <1>2, <1>8 DEF Pools
<1> QED BY <1>1, <1>3, <1>5, <1>6, <1>7, <1>9, <1>10, <1>11, <1>12, <1>13, <1>14, CallerStepOK

\* A block put at the end of the first m blocks makes m + 1.
LEMMA AppendOne ==
    ASSUME NEW S, NEW s \in Seq(S), NEW t \in Seq(S), Len(t) = 1,
           NEW c, NEW first \in Nat, AreBlocks(s, c, first), t[1].of = c, t[1].no = first + Len(s)
    PROVE  /\ s \o t \in Seq(S) /\ Len(s \o t) = Len(s) + 1
           /\ AreBlocks(s \o t, c, first)
           /\ \A k \in DOMAIN (s \o t) : \/ \E l \in DOMAIN s : (s \o t)[k] = s[l]
                                        \/ \E l \in DOMAIN t : (s \o t)[k] = t[l]
<1>1. Len(s) \in Nat /\ DOMAIN s = 1..Len(s) /\ DOMAIN t = 1..1
  OBVIOUS
<1>2. s \o t \in Seq(S) /\ Len(s \o t) = Len(s) + 1 /\ DOMAIN (s \o t) = 1..Len(s) + 1
  <2>1. s \o t \in Seq(S) /\ Len(s \o t) = Len(s) + 1
    BY ConcatProperties
  <2> QED BY <2>1, LenProperties
<1>3. \A k \in 1..Len(s) : (s \o t)[k] = s[k]
  BY <1>1, ConcatProperties
<1>4. (s \o t)[Len(s) + 1] = t[1]
  BY <1>1, ConcatProperties
<1>5. \A k \in DOMAIN (s \o t) : k \in 1..Len(s) \/ k = Len(s) + 1
  BY <1>1, <1>2
<1>6. AreBlocks(s \o t, c, first)
  <2> SUFFICES ASSUME NEW k \in DOMAIN (s \o t) PROVE (s \o t)[k].of = c /\ (s \o t)[k].no = first + k - 1
    BY DEF AreBlocks
  <2>1. CASE k \in 1..Len(s)
    BY <1>1, <1>3, <2>1 DEF AreBlocks
  <2>2. CASE k = Len(s) + 1
    BY <1>1, <1>4, <2>2
  <2> QED BY <1>5, <2>1, <2>2
<1> QED BY <1>1, <1>2, <1>3, <1>4, <1>5, <1>6

LEMMA AppendBlockOK ==
    ASSUME IInv, NEW c \in Callers, AppendBlock(c), PrefetchInv'
    PROVE  IInv'
<1> DEFINE b == sealed[c][job[c].i]
           w == job[c].req
           j == [job[c] EXCEPT !.pc = "return"]
           s == content[w] \o content[b]
<1>t. TypeOK /\ PoolInv /\ BuffersHaveOneOwner /\ RequestInv(c)
  BY DEF IInv, RequestsInv
<1>1. job[c].pc = "append"
  BY DEF AppendBlock, At
<1>2. /\ running[c] = {} /\ job[c].i < job[c].n /\ job[c].i \in Places /\ b # Nobody
      /\ SealedRight(c, job[c].i) /\ ReqHolds(c, job[c].i) /\ job[c].got = << >> /\ job[c].buf = Nobody
  <2>1. /\ running[c] = {} /\ job[c].i < job[c].n /\ ReqHolds(c, job[c].i)
        /\ job[c].got = << >> /\ job[c].buf = Nobody
        /\ \A k \in Places : sealed[c][k] # Nobody <=> job[c].i <= k /\ k < job[c].n
        /\ \A k \in Places : sealed[c][k] # Nobody => SealedRight(c, k)
    BY <1>t, <1>1 DEF RequestInv, Waiting
  <2>2. job[c].i \in Places
    BY <1>t, <2>1, JobIs, BlocksPositive DEF Places
  <2>3. b # Nobody
    BY <1>t, <2>1, <2>2, JobIs
  <2> QED BY <2>1, <2>2, <2>3
<1>3. b \in BlockBufs /\ b \in Bufs /\ w \in ReqBufs /\ w \in Bufs /\ w # Nobody
  BY <1>t, <1>2, JobIs, KindsDiffer DEF ReqHolds
<1>4. /\ content' = [content EXCEPT ![w] = s] /\ job' = [job EXCEPT ![c] = j]
      /\ UNCHANGED <<prefetchVars, pool, running, part, sealed, disk, work>>
  BY <1>2 DEF AppendBlock, Go
<1>5. content[w] \in Seq(Sealed) /\ content[b] \in Seq(Sealed) /\ s \in Seq(Sealed)
  BY <1>t, <1>3 DEF TypeOK
<1>6. /\ Len(s) = job[c].i + 1 /\ AreBlocks(s, c, job[c].first)
      /\ \A k \in DOMAIN s : (\E l \in DOMAIN content[w] : s[k] = content[w][l])
                             \/ (\E l \in DOMAIN content[b] : s[k] = content[b][l])
  <2>1. Len(content[w]) = job[c].i /\ Len(content[b]) = 1 /\ job[c].first \in Nat
    BY <1>t, <1>2, JobIs DEF ReqHolds, SealedRight
  <2>2. AreBlocks(content[w], c, job[c].first)
    BY <1>2 DEF ReqHolds
  <2>3. content[b][1].of = c /\ content[b][1].no = job[c].first + job[c].i
    BY <1>2 DEF SealedRight, BlockNo
  <2>4. \A x \in Seq(Sealed), y \in Seq(Sealed) : \A first \in Nat :
            Len(y) = 1 /\ AreBlocks(x, c, first) /\ y[1].of = c /\ y[1].no = first + Len(x) =>
                /\ Len(x \o y) = Len(x) + 1 /\ AreBlocks(x \o y, c, first)
                /\ \A k \in DOMAIN (x \o y) : \/ \E l \in DOMAIN x : (x \o y)[k] = x[l]
                                             \/ \E l \in DOMAIN y : (x \o y)[k] = y[l]
    BY AppendOne
  <2> HIDE DEF w, b
  <2> QED BY <1>5, <2>1, <2>2, <2>3, <2>4
<1> HIDE DEF s
<1>7. /\ job'[c] = j /\ \A d \in Callers \ {c} : job'[d] = job[d]
      /\ content'[w] = s /\ \A x \in Bufs \ {w} : content'[x] = content[x]
  BY <1>t, <1>3, <1>4 DEF TypeOK
<1>8. /\ j.pc = "return" /\ j.req = w /\ j.n = job[c].n /\ j.i = job[c].i /\ j.first = job[c].first
      /\ j.buf = job[c].buf /\ j.got = job[c].got /\ j \in Requests
  BY <1>t, JobIs DEF Requests, Waiting
<1>9. TypeOK'
  <2>1. PrefetchTypeOK' /\ job' \in [Callers -> Requests]
    BY <1>t, <1>4, <1>8 DEF PrefetchInv, TypeOK
  <2>2. content' \in [Bufs -> Seq(Sealed)]
    BY <1>t, <1>4, <1>5 DEF TypeOK
  <2>3. \A x \in Bufs : Len(content'[x]) <= MaxBlocks
    <3>1. \A x \in Bufs : Len(content[x]) <= MaxBlocks
      BY <1>t DEF TypeOK
    <3>2. Len(s) <= MaxBlocks
      BY <1>t, <1>2, <1>6, JobIs, BlocksPositive
    <3> QED BY <1>7, <3>1, <3>2
  <2> QED BY <1>t, <1>4, <2>1, <2>2, <2>3 DEF TypeOK
<1>10. PoolInv' /\ Holds(c)' = Holds(c)
  BY <1>t, <1>4, <1>7, <1>8 DEF PoolInv, Holds
<1>11. \A d \in Callers \ {c} : \A x \in Holds(d) : content'[x] = content[x]
  <2> SUFFICES ASSUME NEW d \in Callers \ {c}, NEW x \in Holds(d) PROVE content'[x] = content[x]
    OBVIOUS
  <2>1. w \in Holds(c) /\ Holds(c) \cap Holds(d) = {}
    BY <1>t, <1>3 DEF Holds, BuffersHaveOneOwner
  <2> QED BY <1>t, <1>4, <2>1 DEF TypeOK
<1>12. RequestInv(c)'
  <2>1. \A k \in Places : sealed'[c][k] # Nobody => SealedRight(c, k)'
    <3>1. \A k \in Places : sealed[c][k] # Nobody => content'[sealed[c][k]] = content[sealed[c][k]]
      BY <1>t, <1>3, <1>7, JobIs, KindsDiffer
    <3> QED BY <1>t, <1>4, <1>7, <1>8, <3>1, SealedKeep
  <2>2. ReqHolds(c, job[c].i + 1)'
    BY <1>3, <1>6, <1>7, <1>8 DEF ReqHolds, AreBlocks
  <2>3. (Len(disk[c].data) <= MaxBlocks /\ AreBlocks(disk[c].data, c, disk[c].first))'
    BY <1>t, <1>4, DiskKeep
  <2>4. job[c].n > 0 /\ \A k \in Places : sealed[c][k] # Nobody <=> job[c].i <= k /\ k < job[c].n
    BY <1>t, <1>1 DEF RequestInv
  <2>5. job'[c].i = job[c].i /\ (job[c].i + 1)' = job'[c].i + 1
    BY <1>7, <1>8
  <2> QED BY <1>2, <1>4, <1>7, <1>8, <2>1, <2>2, <2>3, <2>4, <2>5 DEF RequestInv, Waiting, Reading
<1>13. SealedBlocks' \subseteq SealedBlocks
  <2>1. \A x \in Bufs : \A k \in DOMAIN content'[x] : content'[x][k] \in SealedBlocks
    <3> TAKE x \in Bufs
    <3>1. CASE x = w
      BY <1>3, <1>6, <1>7, <3>1, SealedIs
    <3>2. CASE x # w
      BY <1>7, <3>2, SealedIs
    <3> QED BY <3>1, <3>2
  <2> QED BY <1>4, <2>1, SealedIs, SealedFrame
<1>14. \A k, l \in Places : k # l /\ sealed'[c][k] = sealed'[c][l] => sealed'[c][k] = Nobody
  BY <1>t, <1>4 DEF BuffersHaveOneOwner
<1>15. \A k \in Pools : Holds(c)' \cap pool'[k] = {}
  BY <1>t, <1>4, <1>10 DEF BuffersHaveOneOwner
<1> QED BY <1>2, <1>4, <1>7, <1>9, <1>10, <1>11, <1>12, <1>13, <1>14, <1>15, CallerStepOK

LEMMA ReturnBlockOK ==
    ASSUME IInv, NEW c \in Callers, ReturnBlock(c), PrefetchInv'
    PROVE  IInv'
<1> DEFINE p == job[c].i
           b == sealed[c][p]
           j == [job[c] EXCEPT !.i = @ + 1, !.pc = IF p + 1 < job[c].n THEN "append" ELSE "write"]
<1>t. TypeOK /\ PoolInv /\ BuffersHaveOneOwner /\ RequestInv(c)
  BY DEF IInv, RequestsInv
<1>1. job[c].pc = "return"
  BY DEF ReturnBlock, At
<1>2. /\ running[c] = {} /\ p < job[c].n /\ ReqHolds(c, p + 1)
      /\ job[c].got = << >> /\ job[c].buf = Nobody
      /\ \A k \in Places : sealed[c][k] # Nobody <=> p <= k /\ k < job[c].n
  BY <1>t, <1>1 DEF RequestInv, Waiting
<1>3. p \in Places /\ b \in BlockBufs /\ b # Nobody
  <2>1. p \in Places
    BY <1>t, <1>2, JobIs, BlocksPositive DEF Places
  <2> QED BY <1>t, <1>2, <2>1, JobIs
<1>4. /\ pool' = [pool EXCEPT !["block"] = @ \cup {b}]
      /\ sealed' = [sealed EXCEPT ![c][p] = Nobody]
      /\ job' = [job EXCEPT ![c] = j]
      /\ UNCHANGED <<prefetchVars, content, running, part, disk, work>>
  BY DEF ReturnBlock, Put
<1>5. /\ job'[c] = j /\ \A d \in Callers \ {c} : job'[d] = job[d] /\ sealed'[d] = sealed[d]
      /\ sealed'[c] = [sealed[c] EXCEPT ![p] = Nobody]
      /\ sealed[c] \in [Places -> BlockBufs \cup {Nobody}]
  BY <1>t, <1>4 DEF TypeOK
<1>6. \A k \in Places : sealed'[c][k] = IF k = p THEN Nobody ELSE sealed[c][k]
  BY <1>5
<1>7. /\ j.req = job[c].req /\ j.n = job[c].n /\ j.i = p + 1 /\ j.first = job[c].first
      /\ j.buf = job[c].buf /\ j.got = job[c].got /\ j \in Requests
      /\ j.pc = IF p + 1 < job[c].n THEN "append" ELSE "write"
  <2>1. p + 1 \in 0..MaxBlocks /\ (IF p + 1 < job[c].n THEN "append" ELSE "write") \in Waiting
    BY <1>t, <1>2, JobIs, BlocksPositive DEF Waiting
  <2>2. job[c] \in Requests
    BY <1>t, JobIs
  <2> QED BY <2>1, <2>2 DEF Requests
<1> HIDE DEF j
<1>8. TypeOK'
  <2>1. PrefetchTypeOK' /\ job' \in [Callers -> Requests]
    BY <1>t, <1>4, <1>7 DEF PrefetchInv, TypeOK
  <2>2. sealed' \in [Callers -> [Places -> BlockBufs \cup {Nobody}]]
    BY <1>t, <1>3, <1>4, <1>5 DEF TypeOK
  <2>3. pool' \in [Pools -> SUBSET Bufs]
    BY <1>t, <1>3, <1>4, KindsDiffer DEF TypeOK, Pools
  <2> QED BY <1>t, <1>4, <2>1, <2>2, <2>3 DEF TypeOK
<1>9. PoolInv'
  BY <1>t, <1>3, <1>4 DEF PoolInv, TypeOK, Pools
<1>10. Holds(c)' = Holds(c) \ {b}
  <2>1. b # job[c].req /\ b # job[c].buf
    BY <1>t, <1>3, JobIs, KindsDiffer
  <2>2. \A k \in Places : k # p => sealed[c][k] # b
    BY <1>t, <1>3 DEF BuffersHaveOneOwner
  <2> QED BY <1>3, <1>5, <1>6, <1>7, <2>1, <2>2 DEF Holds
<1>11. b \in Holds(c)
  BY <1>3 DEF Holds
<1>12. \A k \in Pools : pool'[k] \subseteq pool[k] \cup {b}
  BY <1>t, <1>4 DEF TypeOK, Pools
<1>13. RequestInv(c)'
  <2>1. \A k \in Places : sealed'[c][k] # Nobody => SealedRight(c, k)'
    BY <1>t, <1>4, <1>5, <1>6, <1>7, SealedKeep
  <2>2. \A k \in Places : sealed'[c][k] # Nobody <=> p + 1 <= k /\ k < job[c].n
    <3>1. Places \subseteq Nat
      BY DEF Places
    <3>2. p \in Nat /\ job[c].n \in Nat
      BY <1>t, JobIs
    <3>3. ASSUME NEW k \in Places
          PROVE  sealed'[c][k] # Nobody <=> p + 1 <= k /\ k < job[c].n
      <4>1. k \in Nat /\ (sealed[c][k] # Nobody <=> p <= k /\ k < job[c].n)
        BY <1>2, <3>1
      <4>2. sealed'[c][k] # Nobody <=> k # p /\ p <= k /\ k < job[c].n
        BY <1>6, <4>1
      <4>3. k # p /\ p <= k <=> p + 1 <= k
        BY <3>2, <4>1
      <4> QED BY <4>2, <4>3
    <3> QED BY <3>3
  <2>3. /\ job'[c].req # Nobody /\ Len(content'[job'[c].req]) = p + 1
        /\ AreBlocks(content[job[c].req], c, job[c].first)'
    BY <1>2, <1>4, <1>5, <1>7 DEF ReqHolds, AreBlocks
  <2>4. (Len(disk[c].data) <= MaxBlocks /\ AreBlocks(disk[c].data, c, disk[c].first))'
    BY <1>t, <1>4, DiskKeep
  <2>5. CASE p + 1 < job[c].n
    <3>1. job'[c].pc = "append" /\ job'[c].i = p + 1 /\ p + 1 < job'[c].n
      BY <1>5, <1>7, <2>5
    <3>2. ReqHolds(c, job[c].i)'
      BY <2>3, <3>1 DEF ReqHolds
    <3>3. job'[c].n > 0
      BY <1>t, <1>2, <1>5, <1>7, JobIs
    <3> QED BY <1>2, <1>4, <1>5, <1>7, <2>1, <2>2, <2>4, <3>1, <3>2, <3>3 DEF RequestInv, Waiting, Reading
  <2>6. CASE ~(p + 1 < job[c].n)
    <3>1. p + 1 = job[c].n /\ job'[c].n = p + 1 /\ job'[c].pc = "write" /\ job'[c].n = job'[c].i /\ job'[c].n > 0
      BY <1>t, <1>2, <1>5, <1>7, <2>6, JobIs
    <3>2. ReqHolds(c, job[c].n)'
      BY <2>3, <3>1 DEF ReqHolds
    <3>3. sealed'[c] = NoBuffers
      <4>1. \A k \in Places : sealed'[c][k] = Nobody
        BY <1>t, <2>2, <3>1, JobIs DEF Places
      <4>2. sealed'[c] \in [Places -> BlockBufs \cup {Nobody}]
        BY <1>8 DEF TypeOK
      <4> QED BY <4>1, <4>2 DEF NoBuffers
    <3> QED BY <1>2, <1>4, <1>5, <1>7, <2>1, <2>4, <3>1, <3>2, <3>3 DEF RequestInv, Waiting, Reading
  <2> QED BY <2>5, <2>6
<1>14. \A k, l \in Places : k # l /\ sealed'[c][k] = sealed'[c][l] => sealed'[c][k] = Nobody
  BY <1>t, <1>6 DEF BuffersHaveOneOwner
<1>15. \A k \in Pools : Holds(c)' \cap pool'[k] = {}
  BY <1>t, <1>10, <1>12 DEF BuffersHaveOneOwner
<1>16. SealedBlocks' \subseteq SealedBlocks
  BY <1>4 DEF SealedBlocks, BlocksIn
<1>17. \A k \in Pools : \A x \in pool'[k] : x \in Holds(c) \/ x \in pool[k]
  BY <1>11, <1>12
<1> QED BY <1>2, <1>4, <1>5, <1>8, <1>9, <1>10, <1>13, <1>14, <1>15, <1>16, <1>17, CallerStepOK

LEMMA WriteAtOK ==
    ASSUME IInv, NEW c \in Callers, WriteAt(c), PrefetchInv'
    PROVE  IInv'
<1> DEFINE j == [job[c] EXCEPT !.pc = "release"]
           f == [first |-> job[c].first, data |-> content[job[c].req]]
<1>t. TypeOK /\ PoolInv /\ BuffersHaveOneOwner /\ RequestInv(c)
  BY DEF IInv, RequestsInv
<1>1. /\ job[c].pc = "write" /\ disk' = [disk EXCEPT ![c] = f] /\ job' = [job EXCEPT ![c] = j]
      /\ UNCHANGED <<prefetchVars, pool, content, running, part, sealed, work>>
  BY DEF WriteAt, At, Go
<1>2. /\ running[c] = {} /\ ReqHolds(c, job[c].n) /\ job[c].n > 0
      /\ job[c].got = << >> /\ job[c].buf = Nobody /\ sealed[c] = NoBuffers
  BY <1>t, <1>1 DEF RequestInv, Waiting
<1>3. /\ j.pc = "release" /\ j.req = job[c].req /\ j.n = job[c].n /\ j.i = job[c].i /\ j.first = job[c].first
      /\ j.buf = job[c].buf /\ j.got = job[c].got /\ j \in Requests
  BY <1>t, JobIs DEF Requests
<1>4. /\ job'[c] = j /\ disk'[c] = f /\ \A d \in Callers \ {c} : job'[d] = job[d] /\ disk'[d] = disk[d]
  BY <1>t, <1>1 DEF TypeOK
<1>5. f \in [first : Nat, data : Seq(Sealed)] /\ job[c].req \in Bufs
  BY <1>t, <1>2, JobIs DEF ReqHolds
<1>6. TypeOK'
  <2>1. PrefetchTypeOK' /\ job' \in [Callers -> Requests]
    BY <1>t, <1>1, <1>3 DEF PrefetchInv, TypeOK
  <2>2. disk' \in [Callers -> [first : Nat, data : Seq(Sealed)]]
    BY <1>t, <1>1, <1>5 DEF TypeOK
  <2> QED BY <1>t, <1>1, <2>1, <2>2 DEF TypeOK
<1>7. PoolInv' /\ Holds(c)' = Holds(c)
  BY <1>t, <1>1, <1>3, <1>4 DEF PoolInv, Holds
<1>8. RequestInv(c)'
  <2>1. \A k \in Places : sealed'[c][k] = Nobody
    BY <1>1, <1>2 DEF NoBuffers
  <2>2. Len(f.data) = job[c].n /\ AreBlocks(f.data, c, f.first)
    BY <1>2 DEF ReqHolds
  <2>3. AreBlocks(disk[c].data, c, disk[c].first)'
    BY <1>4, <2>2 DEF AreBlocks
  <2>4. Len(disk'[c].data) = job'[c].n /\ Len(disk'[c].data) <= MaxBlocks
    BY <1>t, <1>3, <1>4, <2>2, JobIs
  <2>5. job[c].req # Nobody
    BY <1>2 DEF ReqHolds
  <2> QED BY <1>1, <1>2, <1>3, <1>4, <2>1, <2>3, <2>4, <2>5 DEF RequestInv, Waiting, Reading
<1>9. SealedBlocks' \subseteq SealedBlocks
  <2>1. \A d \in Callers : \A k \in DOMAIN disk'[d].data : disk'[d].data[k] \in SealedBlocks
    BY <1>4, <1>5, SealedIs
  <2> QED BY <1>1, <2>1, SealedIs, SealedFrame
<1>10. \A k, l \in Places : k # l /\ sealed'[c][k] = sealed'[c][l] => sealed'[c][k] = Nobody
  BY <1>t, <1>1 DEF BuffersHaveOneOwner
<1>11. \A k \in Pools : Holds(c)' \cap pool'[k] = {}
  BY <1>t, <1>1, <1>7 DEF BuffersHaveOneOwner
<1> QED BY <1>1, <1>2, <1>4, <1>6, <1>7, <1>8, <1>9, <1>10, <1>11, CallerStepOK

LEMMA ReleaseOK ==
    ASSUME IInv, NEW c \in Callers, Release(c), PrefetchInv'
    PROVE  IInv'
<1> DEFINE b == job[c].req
<1>t. TypeOK /\ PoolInv /\ BuffersHaveOneOwner /\ RequestInv(c)
  BY DEF IInv, RequestsInv
<1>1. /\ job[c].pc = "release" /\ running[c] = {} /\ sealed[c] = NoBuffers /\ b # Nobody
  BY <1>t DEF Release, RequestInv
<1>2. /\ pool' = [pool EXCEPT !["request"] = @ \cup {b}] /\ job' = [job EXCEPT ![c] = NoJob]
      /\ UNCHANGED <<prefetchVars, content, running, part, sealed, disk, work>>
  BY DEF Release, Put
<1>3. job'[c] = NoJob /\ \A d \in Callers \ {c} : job'[d] = job[d]
  BY <1>t, <1>2 DEF TypeOK
<1>4. b \in ReqBufs /\ b \in Bufs /\ b \in Holds(c)
  BY <1>t, <1>1, JobIs DEF Holds
<1>5. \A k \in Places : sealed[c][k] = Nobody
  BY <1>1 DEF NoBuffers
<1>6. TypeOK'
  <2>1. << >> \in Seq(Sealed) /\ 0 \in 0..MaxBlocks
    BY BlocksPositive
  <2>2. NoJob \in Requests
    BY <2>1 DEF NoJob, Requests
  <2>3. PrefetchTypeOK' /\ job' \in [Callers -> Requests]
    BY <1>t, <1>2, <2>2 DEF PrefetchInv, TypeOK
  <2>4. pool' \in [Pools -> SUBSET Bufs]
    BY <1>t, <1>2, <1>4 DEF TypeOK, Pools
  <2> QED BY <1>t, <1>2, <2>3, <2>4 DEF TypeOK
<1>7. PoolInv'
  BY <1>t, <1>2, <1>4 DEF PoolInv, TypeOK, Pools
<1>8. Holds(c)' = {}
  BY <1>2, <1>3, <1>5 DEF Holds, NoJob
<1>9. \A k \in Pools : pool'[k] \subseteq pool[k] \cup {b}
  BY <1>t, <1>2 DEF TypeOK, Pools
<1>10. RequestInv(c)'
  <2>1. (Len(disk[c].data) <= MaxBlocks /\ AreBlocks(disk[c].data, c, disk[c].first))'
    BY <1>t, <1>2, DiskKeep
  <2>2. job'[c].pc = "idle"
    BY <1>3 DEF NoJob
  <2> QED BY <1>1, <1>2, <1>3, <1>5, <2>1, <2>2 DEF RequestInv, Waiting, Reading, NoJob
<1>11. SealedBlocks' \subseteq SealedBlocks
  BY <1>2 DEF SealedBlocks, BlocksIn
<1>12. \A k, l \in Places : k # l /\ sealed'[c][k] = sealed'[c][l] => sealed'[c][k] = Nobody
  BY <1>2, <1>5
<1>13. \A k \in Pools : \A x \in pool'[k] : x \in Holds(c) \/ x \in pool[k]
  BY <1>4, <1>9
<1> QED BY <1>1, <1>2, <1>3, <1>6, <1>7, <1>8, <1>10, <1>11, <1>12, <1>13, CallerStepOK

LEMMA ReadAtOK ==
    ASSUME IInv, NEW c \in Callers, ReadAt(c), PrefetchInv'
    PROVE  IInv'
<1> DEFINE w == Free("request")
           s == disk[c].data
           j == [NoJob EXCEPT !.pc = "open", !.req = w, !.first = disk[c].first, !.n = Len(s)]
<1>t. TypeOK /\ PoolInv /\ BuffersHaveOneOwner /\ RequestInv(c)
  BY DEF IInv, RequestsInv
<1>1. /\ job[c].pc = "idle" /\ s # << >> /\ work < MaxWork
      /\ pool' = [pool EXCEPT !["request"] = @ \ {w}]
      /\ content' = [content EXCEPT ![w] = s]
      /\ job' = [job EXCEPT ![c] = j] /\ work' = work + 1
      /\ UNCHANGED <<prefetchVars, running, part, sealed, disk>>
  BY DEF ReadAt, At, Get
<1>2. w \in pool["request"] /\ w \in ReqBufs /\ w \in Bufs /\ w # Nobody /\ \A d \in Callers : w \notin Holds(d)
  <2>1. Get("request") /\ "request" \in Pools
    BY DEF ReadAt, Pools
  <2> QED BY <1>t, <2>1, GetFree, KindsDiffer DEF PoolInv
<1>3. running[c] = {} /\ sealed[c] = NoBuffers /\ Len(s) <= MaxBlocks /\ AreBlocks(s, c, disk[c].first)
  BY <1>t, <1>1 DEF RequestInv
<1>4. s \in Seq(Sealed) /\ disk[c].first \in Nat /\ Len(s) \in Nat /\ Len(s) > 0
  <2>1. s \in Seq(Sealed) /\ disk[c].first \in Nat
    BY <1>t DEF TypeOK
  <2> QED BY <1>1, <2>1, EmptySeq
<1> HIDE DEF w, s
<1>5. /\ job'[c] = j /\ \A d \in Callers \ {c} : job'[d] = job[d]
      /\ content'[w] = s /\ \A b \in Bufs \ {w} : content'[b] = content[b]
  BY <1>t, <1>1, <1>2 DEF TypeOK
<1>6. /\ j.pc = "open" /\ j.req = w /\ j.n = Len(s) /\ j.i = 0 /\ j.first = disk[c].first
      /\ j.buf = Nobody /\ j.got = << >> /\ j \in Requests
  <2>1. << >> \in Seq(Sealed) /\ 0 \in 0..MaxBlocks /\ Len(s) \in 0..MaxBlocks
    BY <1>3, <1>4, BlocksPositive
  <2> QED BY <1>2, <1>4, <2>1 DEF NoJob, Requests, Reading
<1> HIDE DEF j
<1>7. \A k \in Places : sealed'[c][k] = Nobody
  BY <1>1, <1>3 DEF NoBuffers
<1>8. TypeOK'
  <2>1. PrefetchTypeOK' /\ job' \in [Callers -> Requests]
    BY <1>t, <1>1, <1>6 DEF PrefetchInv, TypeOK
  <2>2. content' \in [Bufs -> Seq(Sealed)]
    BY <1>t, <1>1, <1>4 DEF TypeOK
  <2>3. \A b \in Bufs : Len(content'[b]) <= MaxBlocks
    <3>1. \A b \in Bufs : Len(content[b]) <= MaxBlocks
      BY <1>t DEF TypeOK
    <3> QED BY <1>3, <1>5, <3>1
  <2>4. pool' \in [Pools -> SUBSET Bufs]
    BY <1>t, <1>1 DEF TypeOK, Pools
  <2>5. work' \in 0..MaxWork
    BY <1>t, <1>1, BlockEncryptionAssumption DEF TypeOK
  <2> QED BY <1>t, <1>1, <2>1, <2>2, <2>3, <2>4, <2>5 DEF TypeOK
<1>9. PoolInv'
  BY <1>t, <1>1 DEF PoolInv, TypeOK, Pools
<1>10. \A k \in Pools : pool'[k] \subseteq pool[k] /\ w \notin pool'[k]
  <2>1. w \notin BlockBufs /\ w \notin PlainBufs
    BY <1>2, KindsDiffer
  <2> QED BY <1>t, <1>1, <2>1 DEF TypeOK, PoolInv, Pools
<1>11. Holds(c)' \subseteq {w}
  BY <1>5, <1>6, <1>7 DEF Holds
<1>12. \A d \in Callers : \A b \in Holds(d) : content'[b] = content[b]
  <2> SUFFICES ASSUME NEW d \in Callers, NEW b \in Holds(d) PROVE content'[b] = content[b]
    OBVIOUS
  <2> QED BY <1>t, <1>1, <1>2 DEF TypeOK
<1>13. RequestInv(c)'
  <2>1. ReqHolds(c, job[c].n)' /\ GotBlocks(c, job[c].i)'
    <3>1. DOMAIN << >> = {} /\ Len(<< >>) = 0
      OBVIOUS
    <3> QED BY <1>2, <1>3, <1>5, <1>6, <3>1 DEF ReqHolds, GotBlocks, AreBlocks
  <2>2. (Len(disk[c].data) <= MaxBlocks /\ AreBlocks(disk[c].data, c, disk[c].first))'
    BY <1>t, <1>1, DiskKeep
  <2>3. job'[c].n > 0 /\ job'[c].i < job'[c].n
    BY <1>4, <1>5, <1>6
  <2>4. sealed'[c] = NoBuffers /\ running'[c] = {}
    BY <1>1, <1>3
  <2> QED BY <1>5, <1>6, <1>7, <2>1, <2>2, <2>3, <2>4 DEF RequestInv, Waiting, Reading
<1>14. SealedBlocks' \subseteq SealedBlocks
  <2>1. \A b \in Bufs : \A k \in DOMAIN content'[b] : content'[b][k] \in SealedBlocks
    <3> TAKE b \in Bufs
    <3>1. CASE b = w
      BY <1>5, <3>1, SealedIs DEF s
    <3>2. CASE b # w
      BY <1>5, <3>2, SealedIs
    <3> QED BY <3>1, <3>2
  <2> QED BY <1>1, <2>1, SealedIs, SealedFrame
<1>15. \A k, l \in Places : k # l /\ sealed'[c][k] = sealed'[c][l] => sealed'[c][k] = Nobody
  BY <1>7
<1>16. \A k \in Pools : Holds(c)' \cap pool'[k] = {}
  BY <1>10, <1>11
<1>17. \A b \in Holds(c)' : b \in Holds(c) \/ \E k \in Pools : b \in pool[k]
  BY <1>2, <1>11 DEF Pools
<1> QED BY <1>1, <1>3, <1>5, <1>8, <1>9, <1>10, <1>12, <1>13, <1>14, <1>15, <1>16, <1>17, CallerStepOK

LEMMA OpenBlockOK ==
    ASSUME IInv, NEW c \in Callers, OpenBlock(c), PrefetchInv'
    PROVE  IInv'
<1> DEFINE w == Free("plain")
           v == content[job[c].req][job[c].i + 1]
           j == [job[c] EXCEPT !.pc = "copy", !.buf = w]
<1>t. TypeOK /\ PoolInv /\ BuffersHaveOneOwner /\ RequestInv(c)
  BY DEF IInv, RequestsInv
<1>1. job[c].pc = "open"
  BY DEF OpenBlock, At
<1>2. /\ running[c] = {} /\ sealed[c] = NoBuffers /\ ReqHolds(c, job[c].n) /\ job[c].i < job[c].n
      /\ GotBlocks(c, job[c].i) /\ job[c].buf = Nobody
  BY <1>t, <1>1 DEF RequestInv, Reading
<1>3. /\ job[c].req \in ReqBufs /\ job[c].req \in Bufs /\ job[c].i + 1 \in DOMAIN content[job[c].req]
      /\ v \in Sealed /\ v.of = c /\ v.no = BlockNo(c, job[c].i)
  <2>1. job[c].req \in ReqBufs /\ job[c].req \in Bufs /\ content[job[c].req] \in Seq(Sealed)
    BY <1>t, <1>2, JobIs, KindsDiffer DEF ReqHolds
  <2>2. job[c].i + 1 \in DOMAIN content[job[c].req]
    BY <1>t, <1>2, <2>1, JobIs, LenProperties DEF ReqHolds
  <2>3. v \in Sealed
    BY <2>1, <2>2, LenProperties, ElementOfSeq
  <2>4. v.of = c /\ v.no = job[c].first + (job[c].i + 1) - 1
    BY <1>2, <2>2 DEF ReqHolds, AreBlocks
  <2> QED BY <1>t, <2>1, <2>2, <2>3, <2>4, JobIs DEF BlockNo
<1>4. /\ Get("plain") /\ pool' = [pool EXCEPT !["plain"] = @ \ {w}]
      /\ content' = [content EXCEPT ![w] = <<v>>]
      /\ job' = [job EXCEPT ![c] = j]
      /\ UNCHANGED <<prefetchVars, running, part, sealed, disk, work>>
  BY <1>3 DEF OpenBlock, Get
<1>5. w \in pool["plain"] /\ w \in PlainBufs /\ w \in Bufs /\ w # Nobody /\ \A d \in Callers : w \notin Holds(d)
  BY <1>t, <1>4, GetFree, KindsDiffer DEF PoolInv, Pools
<1> HIDE DEF w, v
<1>6. /\ job'[c] = j /\ \A d \in Callers \ {c} : job'[d] = job[d]
      /\ content'[w] = <<v>> /\ \A b \in Bufs \ {w} : content'[b] = content[b]
  BY <1>t, <1>4, <1>5 DEF TypeOK
<1>7. /\ j.pc = "copy" /\ j.req = job[c].req /\ j.n = job[c].n /\ j.i = job[c].i /\ j.first = job[c].first
      /\ j.buf = w /\ j.got = job[c].got /\ j \in Requests
  BY <1>t, <1>5, JobIs DEF Requests, Reading
<1> HIDE DEF j
<1>8. \A k \in Places : sealed'[c][k] = Nobody
  BY <1>2, <1>4 DEF NoBuffers
<1>9. TypeOK'
  <2>1. PrefetchTypeOK' /\ job' \in [Callers -> Requests]
    BY <1>t, <1>4, <1>7 DEF PrefetchInv, TypeOK
  <2>2. <<v>> \in Seq(Sealed) /\ Len(<<v>>) = 1
    BY <1>3
  <2>3. content' \in [Bufs -> Seq(Sealed)]
    BY <1>t, <1>4, <2>2 DEF TypeOK
  <2>4. \A b \in Bufs : Len(content'[b]) <= MaxBlocks
    <3>1. \A b \in Bufs : Len(content[b]) <= MaxBlocks
      BY <1>t DEF TypeOK
    <3> QED BY <1>6, <2>2, <3>1, BlocksPositive
  <2>5. pool' \in [Pools -> SUBSET Bufs]
    BY <1>t, <1>4 DEF TypeOK, Pools
  <2> QED BY <1>t, <1>4, <2>1, <2>3, <2>4, <2>5 DEF TypeOK
<1>10. PoolInv'
  BY <1>t, <1>4 DEF PoolInv, TypeOK, Pools
<1>11. \A k \in Pools : pool'[k] \subseteq pool[k] /\ w \notin pool'[k]
  <2>1. w \notin BlockBufs /\ w \notin ReqBufs
    BY <1>5, KindsDiffer
  <2> QED BY <1>t, <1>4, <2>1 DEF TypeOK, PoolInv, Pools
<1>12. Holds(c)' \subseteq Holds(c) \cup {w}
  BY <1>4, <1>6, <1>7 DEF Holds
<1>13. \A d \in Callers : \A b \in Holds(d) : content'[b] = content[b]
  <2> SUFFICES ASSUME NEW d \in Callers, NEW b \in Holds(d) PROVE content'[b] = content[b]
    OBVIOUS
  <2> QED BY <1>t, <1>4, <1>5 DEF TypeOK
<1>14. RequestInv(c)'
  <2>1. ReqHolds(c, job[c].n)' /\ GotBlocks(c, job[c].i)'
    <3>1. job[c].req # w
      BY <1>3, <1>5, KindsDiffer
    <3> QED BY <1>2, <1>3, <1>6, <1>7, <3>1 DEF ReqHolds, GotBlocks, AreBlocks
  <2>2. (Len(disk[c].data) <= MaxBlocks /\ AreBlocks(disk[c].data, c, disk[c].first))'
    BY <1>t, <1>4, DiskKeep
  <2>3. job'[c].n > 0 /\ job'[c].i < job'[c].n
    BY <1>t, <1>2, <1>6, <1>7, JobIs
  <2>4. sealed'[c] = NoBuffers /\ running'[c] = {}
    BY <1>2, <1>4
  <2>5. Len(content'[w]) = 1 /\ content'[w][1].of = c /\ content'[w][1].no = BlockNo(c, job[c].i)'
    BY <1>3, <1>6, <1>7 DEF BlockNo
  <2> QED BY <1>5, <1>6, <1>7, <1>8, <2>1, <2>2, <2>3, <2>4, <2>5 DEF RequestInv, Waiting, Reading
<1>15. SealedBlocks' \subseteq SealedBlocks
  <2>1. v \in SealedBlocks
    BY <1>3, SealedIs DEF v
  <2>2. \A b \in Bufs : \A k \in DOMAIN content'[b] : content'[b][k] \in SealedBlocks
    <3> TAKE b \in Bufs
    <3>1. CASE b = w
      BY <1>6, <2>1, <3>1
    <3>2. CASE b # w
      BY <1>6, <3>2, SealedIs
    <3> QED BY <3>1, <3>2
  <2> QED BY <1>4, <2>2, SealedIs, SealedFrame
<1>16. \A k, l \in Places : k # l /\ sealed'[c][k] = sealed'[c][l] => sealed'[c][k] = Nobody
  BY <1>8
<1>17. \A k \in Pools : Holds(c)' \cap pool'[k] = {}
  BY <1>t, <1>11, <1>12 DEF BuffersHaveOneOwner
<1>18. \A b \in Holds(c)' : b \in Holds(c) \/ \E k \in Pools : b \in pool[k]
  BY <1>5, <1>12 DEF Pools
<1> QED BY <1>2, <1>4, <1>6, <1>9, <1>10, <1>11, <1>13, <1>14, <1>15, <1>16, <1>17, <1>18, CallerStepOK

LEMMA CopyPlainOK ==
    ASSUME IInv, NEW c \in Callers, CopyPlain(c), PrefetchInv'
    PROVE  IInv'
<1> DEFINE s == job[c].got \o content[job[c].buf]
           j == [job[c] EXCEPT !.got = s, !.pc = "put"]
<1>t. TypeOK /\ PoolInv /\ BuffersHaveOneOwner /\ RequestInv(c)
  BY DEF IInv, RequestsInv
<1>1. /\ job[c].pc = "copy" /\ job' = [job EXCEPT ![c] = j]
      /\ UNCHANGED <<prefetchVars, pool, content, running, part, sealed, disk, work>>
  BY DEF CopyPlain, At
<1>2. /\ running[c] = {} /\ sealed[c] = NoBuffers /\ ReqHolds(c, job[c].n) /\ job[c].i < job[c].n
      /\ GotBlocks(c, job[c].i) /\ job[c].buf # Nobody
      /\ Len(content[job[c].buf]) = 1
      /\ content[job[c].buf][1].of = c /\ content[job[c].buf][1].no = BlockNo(c, job[c].i)
  BY <1>t, <1>1 DEF RequestInv, Reading
<1>3. job[c].got \in Seq(Sealed) /\ content[job[c].buf] \in Seq(Sealed)
  BY <1>t, <1>2, JobIs
<1>4. s \in Seq(Sealed) /\ Len(s) = job[c].i + 1 /\ AreBlocks(s, c, job[c].first)
  <2>1. \A x \in Seq(Sealed), y \in Seq(Sealed) : \A first \in Nat :
            Len(y) = 1 /\ AreBlocks(x, c, first) /\ y[1].of = c /\ y[1].no = first + Len(x) =>
                /\ x \o y \in Seq(Sealed) /\ Len(x \o y) = Len(x) + 1
                /\ AreBlocks(x \o y, c, first)
    BY AppendOne
  <2> QED BY <1>t, <1>2, <1>3, <2>1, JobIs DEF GotBlocks, BlockNo
<1> HIDE DEF s
<1>5. /\ j.pc = "put" /\ j.req = job[c].req /\ j.n = job[c].n /\ j.i = job[c].i /\ j.first = job[c].first
      /\ j.buf = job[c].buf /\ j.got = s /\ j \in Requests
  BY <1>t, <1>4, JobIs DEF Requests, Reading
<1> HIDE DEF j
<1>6. job'[c] = j /\ \A d \in Callers \ {c} : job'[d] = job[d]
  BY <1>t, <1>1 DEF TypeOK
<1>7. \A k \in Places : sealed'[c][k] = Nobody
  BY <1>1, <1>2 DEF NoBuffers
<1>8. TypeOK'
  <2>1. PrefetchTypeOK' /\ job' \in [Callers -> Requests]
    BY <1>t, <1>1, <1>5 DEF PrefetchInv, TypeOK
  <2> QED BY <1>t, <1>1, <2>1 DEF TypeOK
<1>9. PoolInv' /\ Holds(c)' = Holds(c)
  BY <1>t, <1>1, <1>5, <1>6 DEF PoolInv, Holds
<1>10. RequestInv(c)'
  <2>1. ReqHolds(c, job[c].n)' /\ GotBlocks(c, job[c].i + 1)'
    BY <1>1, <1>2, <1>4, <1>5, <1>6 DEF ReqHolds, GotBlocks, AreBlocks
  <2>2. (Len(disk[c].data) <= MaxBlocks /\ AreBlocks(disk[c].data, c, disk[c].first))'
    BY <1>t, <1>1, DiskKeep
  <2>3. job'[c].n > 0 /\ job'[c].i < job'[c].n
    BY <1>t, <1>2, <1>5, <1>6, JobIs
  <2>4. sealed'[c] = NoBuffers /\ running'[c] = {}
    BY <1>1, <1>2
  <2> QED BY <1>2, <1>5, <1>6, <1>7, <2>1, <2>2, <2>3, <2>4 DEF RequestInv, Waiting, Reading
<1>11. SealedBlocks' \subseteq SealedBlocks
  BY <1>1 DEF SealedBlocks, BlocksIn
<1>12. \A k, l \in Places : k # l /\ sealed'[c][k] = sealed'[c][l] => sealed'[c][k] = Nobody
  BY <1>7
<1>13. \A k \in Pools : Holds(c)' \cap pool'[k] = {}
  BY <1>t, <1>1, <1>9 DEF BuffersHaveOneOwner
<1> QED BY <1>1, <1>2, <1>6, <1>8, <1>9, <1>10, <1>11, <1>12, <1>13, CallerStepOK

LEMMA PutPlainOK ==
    ASSUME IInv, NEW c \in Callers, PutPlain(c), PrefetchInv'
    PROVE  IInv'
<1> DEFINE b == job[c].buf
           j == [job[c] EXCEPT !.i = @ + 1, !.buf = Nobody,
                    !.pc = IF job[c].i + 1 < job[c].n THEN "open" ELSE "release"]
<1>t. TypeOK /\ PoolInv /\ BuffersHaveOneOwner /\ RequestInv(c)
  BY DEF IInv, RequestsInv
<1>1. /\ job[c].pc = "put" /\ job' = [job EXCEPT ![c] = j]
      /\ pool' = [pool EXCEPT !["plain"] = @ \cup {b}]
      /\ UNCHANGED <<prefetchVars, content, running, part, sealed, disk, work>>
  BY DEF PutPlain, Put, At
<1>2. /\ running[c] = {} /\ sealed[c] = NoBuffers /\ ReqHolds(c, job[c].n) /\ job[c].i < job[c].n
      /\ GotBlocks(c, job[c].i + 1) /\ b # Nobody
  BY <1>t, <1>1 DEF RequestInv, Reading
<1>3. b \in PlainBufs /\ b \in Bufs /\ b \in Holds(c)
  BY <1>t, <1>2, JobIs DEF Holds
<1>4. /\ j.req = job[c].req /\ j.n = job[c].n /\ j.i = job[c].i + 1 /\ j.first = job[c].first
      /\ j.buf = Nobody /\ j.got = job[c].got /\ j \in Requests
      /\ j.pc = IF job[c].i + 1 < job[c].n THEN "open" ELSE "release"
  <2>1. /\ job[c].i + 1 \in 0..MaxBlocks
        /\ (IF job[c].i + 1 < job[c].n THEN "open" ELSE "release") \in {"idle", "release"} \cup Reading
    BY <1>t, <1>2, JobIs, BlocksPositive DEF Reading
  <2>2. job[c] \in Requests
    BY <1>t, JobIs
  <2> QED BY <2>1, <2>2 DEF Requests
<1> HIDE DEF j
<1>5. job'[c] = j /\ \A d \in Callers \ {c} : job'[d] = job[d]
  BY <1>t, <1>1 DEF TypeOK
<1>6. \A k \in Places : sealed'[c][k] = Nobody
  BY <1>1, <1>2 DEF NoBuffers
<1>7. TypeOK'
  <2>1. PrefetchTypeOK' /\ job' \in [Callers -> Requests]
    BY <1>t, <1>1, <1>4 DEF PrefetchInv, TypeOK
  <2>2. pool' \in [Pools -> SUBSET Bufs]
    BY <1>t, <1>1, <1>3 DEF TypeOK, Pools
  <2> QED BY <1>t, <1>1, <2>1, <2>2 DEF TypeOK
<1>8. PoolInv'
  BY <1>t, <1>1, <1>3 DEF PoolInv, TypeOK, Pools
<1>9. Holds(c)' = Holds(c) \ {b}
  <2>1. b # job[c].req
    BY <1>t, <1>3, JobIs, KindsDiffer
  <2>2. \A k \in Places : sealed[c][k] = Nobody
    BY <1>2 DEF NoBuffers
  <2> QED BY <1>4, <1>5, <1>6, <2>1, <2>2 DEF Holds
<1>10. \A k \in Pools : pool'[k] \subseteq pool[k] \cup {b}
  BY <1>t, <1>1 DEF TypeOK, Pools
<1>11. RequestInv(c)'
  <2>1. (Len(disk[c].data) <= MaxBlocks /\ AreBlocks(disk[c].data, c, disk[c].first))'
    BY <1>t, <1>1, DiskKeep
  <2>2. sealed'[c] = NoBuffers /\ running'[c] = {}
    BY <1>1, <1>2
  <2>3. ReqHolds(c, job[c].n)'
    BY <1>1, <1>2, <1>4, <1>5 DEF ReqHolds, AreBlocks
  <2>4. GotBlocks(c, job[c].i)'
    BY <1>2, <1>4, <1>5 DEF GotBlocks, AreBlocks
  <2>5. CASE job[c].i + 1 < job[c].n
    <3>1. job'[c].pc = "open" /\ job'[c].i < job'[c].n /\ job'[c].n > 0 /\ job'[c].buf = Nobody
      BY <1>t, <1>4, <1>5, <2>5, JobIs
    <3> QED BY <1>6, <2>1, <2>2, <2>3, <2>4, <3>1 DEF RequestInv, Waiting, Reading
  <2>6. CASE ~(job[c].i + 1 < job[c].n)
    <3>1. /\ job'[c].pc = "release" /\ job'[c].i = job'[c].n /\ job'[c].n > 0
          /\ job'[c].buf = Nobody /\ job'[c].req # Nobody
      BY <1>t, <1>2, <1>4, <1>5, <2>6, JobIs DEF ReqHolds
    <3>2. job'[c].got # << >> /\ GotBlocks(c, job[c].n)'
      <4>1. Len(job'[c].got) = job'[c].n
        BY <2>4, <3>1 DEF GotBlocks
      <4> QED BY <2>4, <3>1, <4>1, EmptySeq DEF GotBlocks
    <3> QED BY <1>6, <2>1, <2>2, <3>1, <3>2 DEF RequestInv, Waiting, Reading
  <2> QED BY <2>5, <2>6
<1>12. SealedBlocks' \subseteq SealedBlocks
  BY <1>1 DEF SealedBlocks, BlocksIn
<1>13. \A k, l \in Places : k # l /\ sealed'[c][k] = sealed'[c][l] => sealed'[c][k] = Nobody
  BY <1>6
<1>14. \A k \in Pools : Holds(c)' \cap pool'[k] = {}
  BY <1>t, <1>9, <1>10 DEF BuffersHaveOneOwner
<1>15. \A k \in Pools : \A x \in pool'[k] : x \in Holds(c) \/ x \in pool[k]
  BY <1>3, <1>10
<1> QED BY <1>1, <1>2, <1>5, <1>7, <1>8, <1>9, <1>11, <1>12, <1>13, <1>14, <1>15, CallerStepOK

-----------------------------------------------------------------------------
(* The invariant is inductive                                              *)

LEMMA InitOK == Init => IInv
<1> SUFFICES ASSUME Init PROVE IInv
  OBVIOUS
<1>1. PrefetchInv
  BY PrefetchInitOK DEF Init
<1>2. << >> \in Seq(Sealed) /\ Len(<< >>) = 0 /\ DOMAIN << >> = {} /\ 0 \in 0..MaxBlocks
  BY BlocksPositive
<1>3. /\ pool = [k \in Pools |-> CASE k = "block" -> BlockBufs
                                   [] k = "plain" -> PlainBufs
                                   [] k = "request" -> ReqBufs]
      /\ content = [b \in Bufs |-> << >>]
      /\ job = [c \in Callers |-> NoJob]
      /\ running = [c \in Callers |-> {}]
      /\ part = [r \in Readers |-> [low |-> 0, high |-> 0, i |-> 0]]
      /\ sealed = [c \in Callers |-> NoBuffers]
      /\ disk = [c \in Callers |-> [first |-> 0, data |-> << >>]]
      /\ work = 0
  BY DEF Init
<1>4. TypeOK
  <2>1. NoJob \in Requests
    BY <1>2 DEF NoJob, Requests
  <2>2. pool \in [Pools -> SUBSET Bufs]
    BY <1>3 DEF Pools, Bufs
  <2>3. NoBuffers \in [Places -> BlockBufs \cup {Nobody}] /\ work \in 0..MaxWork
    BY <1>3, BlockEncryptionAssumption DEF NoBuffers
  <2>4. content \in [Bufs -> Seq(Sealed)] /\ \A b \in Bufs : Len(content[b]) <= MaxBlocks
    BY <1>2, <1>3, BlocksPositive
  <2>5. disk \in [Callers -> [first : Nat, data : Seq(Sealed)]]
    BY <1>2, <1>3
  <2> QED BY <1>1, <1>3, <2>1, <2>2, <2>3, <2>4, <2>5 DEF TypeOK, PrefetchInv
<1>5. PoolInv
  BY <1>3 DEF PoolInv, Pools
<1>6. \A c \in Callers : Holds(c) = {}
  BY <1>3 DEF Holds, NoJob, NoBuffers
<1>7. BuffersHaveOneOwner
  BY <1>3, <1>6 DEF BuffersHaveOneOwner, NoBuffers
<1>8. RequestsInv
  BY <1>2, <1>3, BlocksPositive DEF RequestsInv, RequestInv, NoJob, NoBuffers, Waiting, Reading, AreBlocks
<1>9. GoroutineInv /\ \A r \in Readers : at[r] = "idle"
  BY DEF Init, PrefetchInit, GoroutineInv
<1>10. SealedBlocks = {}
  BY <1>2, <1>3, SealedIs
<1>11. NonceInv
  BY <1>9, <1>10 DEF NonceInv, NoncesDiffer
<1> QED BY <1>1, <1>4, <1>5, <1>7, <1>8, <1>9, <1>11 DEF IInv

LEMMA StepOK == ASSUME IInv, [Next]_vars PROVE IInv'
<1>1. PrefetchInv'
  BY StepUsesPrefetch, PrefetchStepOK DEF IInv
<1>2. ASSUME NEW c \in Callers, EncryptBlocks(c) \/ ReadAt(c) PROVE IInv'
  BY <1>1, <1>2, EncryptBlocksOK, ReadAtOK
<1>3. ASSUME NEW c \in Callers, Caller(c) PROVE IInv'
  BY <1>1, <1>3, WaitGroupOK, AppendBlockOK, ReturnBlockOK, WriteAtOK, ReleaseOK, OpenBlockOK, CopyPlainOK, PutPlainOK
     DEF Caller
<1>4. ASSUME NEW r \in Readers, Goroutine(r) PROVE IInv'
  <2>1. PICK c \in Callers, g \in {0, 1} : r = <<c, g>>
    BY ReaderIsPair
  <2>2. CASE GetNonce(r) \/ Prefetch(r)
    BY <1>1, <2>2, GetNonceOK, PrefetchOK
  <2>3. CASE SealBlock(r) \/ GroupDone(r)
    BY <1>1, <2>1, <2>3, SealBlockOK, GroupDoneOK
  <2> QED BY <1>4, <2>2, <2>3 DEF Goroutine
<1>5. ASSUME Worker PROVE IInv'
  BY <1>1, <1>5, WorkerOK
<1>6. ASSUME UNCHANGED vars PROVE IInv'
  <2>1. UNCHANGED blockVars /\ UNCHANGED <<at, out, used>> /\ PrefetchTypeOK'
    BY <1>1, <1>6 DEF vars, prefetchVars, PrefetchInv
  <2>2. TypeOK' /\ PoolInv' /\ BuffersHaveOneOwner' /\ RequestsInv' /\ SealedBlocks' = SealedBlocks
    BY <2>1, BlockVarsKeep DEF IInv
  <2>3. GoroutineInv'
    BY <2>1 DEF IInv, GoroutineInv, blockVars, Busy, Place
  <2>4. NonceInv'
    BY <2>1, <2>2, NonceFrame DEF IInv
  <2> QED BY <1>1, <2>2, <2>3, <2>4 DEF IInv
<1> QED BY <1>2, <1>3, <1>4, <1>5, <1>6 DEF Next, Run

LEMMA Invariant == Spec => []IInv
BY InitOK, StepOK, PTL DEF Spec

\* The variables keep their types.
THEOREM Types == Spec => []TypeOK
<1>1. IInv => TypeOK
  BY DEF IInv
<1> QED BY <1>1, Invariant, PTL

\* No buffer of a pool is handed to two users, or put back while one still reads it, for any
\* number of callers and buffers (bPool.Get, Put).
THEOREM OneOwner == Spec => []BuffersHaveOneOwner
<1>1. IInv => BuffersHaveOneOwner
  BY DEF IInv
<1> QED BY <1>1, Invariant, PTL

\* The file gets the blocks of a request in order and under their numbers, for requests of any
\* length and any schedule of the goroutines (encryptBlocksParallel).
THEOREM InOrder == Spec => []WrittenInOrder
<1>1. IInv => WrittenInOrder
  BY DEF IInv, RequestsInv, RequestInv, WrittenInOrder
<1> QED BY <1>1, Invariant, PTL

\* A write that returns has written all its blocks: the groups leave out none (EncryptBlocks).
THEOREM InFull == Spec => []WrittenInFull
<1>1. IInv => WrittenInFull
  BY DEF IInv, RequestsInv, RequestInv, WrittenInFull, At
<1> QED BY <1>1, Invariant, PTL

\* What was written is read as it was, and never fails to open (DecryptBlocks).
THEOREM ReadBack == Spec => []ReadsBack
<1>1. IInv => ReadsBack
  <2> SUFFICES ASSUME IInv, NEW c \in Callers PROVE ~At(c, "failed") /\ AreBlocks(job[c].got, c, job[c].first)
    BY DEF ReadsBack
  <2>1. RequestInv(c) /\ job[c] \in Requests
    BY JobIs DEF IInv, RequestsInv
  <2>2. job[c].got = << >> \/ AreBlocks(job[c].got, c, job[c].first)
    BY <2>1 DEF RequestInv, Requests, Waiting, Reading, GotBlocks, NoJob
  <2> QED BY <2>1, <2>2 DEF RequestInv, At, AreBlocks
<1> QED BY <1>1, Invariant, PTL

\* No two sealed blocks, in memory or in a file, have a byte of a nonce in common (EncryptBlock).
THEOREM Nonces == Spec => []NoncesDiffer
<1>1. IInv => NoncesDiffer
  BY DEF IInv, NonceInv
<1> QED BY <1>1, Invariant, PTL
=============================================================================
