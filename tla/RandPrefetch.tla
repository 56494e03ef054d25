------------------------------ MODULE RandPrefetch ------------------------------
(***************************************************************************)
(* cryptocore/randprefetch.go: the buffer of random bytes that all nonces  *)
(* of the process come from, its mutex, and the worker goroutine that      *)
(* keeps a chunk ready in the unbuffered channel refill.                   *)
(*                                                                         *)
(* The random source is a stream; a byte is its position in the stream.    *)
(***************************************************************************)
EXTENDS Naturals

CONSTANTS
    Readers,    \* goroutines
    Lengths,    \* lengths of nonces
    PrefetchN,  \* bytes in a chunk
    Nobody

ASSUME RandPrefetchAssumption ==
    /\ PrefetchN \in Nat \ {0}
    /\ Lengths \subseteq 1..PrefetchN
    /\ Nobody \notin Readers

VARIABLES
    made,   \* bytes that RandBytes has drawn from the source
    chunk,  \* where the chunk begins that the worker offers; made if there is none
    buf,    \* the unread bytes of bytes.Buffer: from buf.next to before buf.end
    mutex,  \* who holds the Mutex
    at,     \* where each reader is in read
    out,    \* the bytes it asked for: out.len of them from out.from on
    used    \* every byte that read has returned

prefetchVars == <<made, chunk, buf, mutex, at, out, used>>

None == [from |-> 0, len |-> 0]

Bytes(o) == o.from..(o.from + o.len - 1)

Min2(a, b) == IF a < b THEN a ELSE b

Left == buf.end - buf.next

\* read begins, and a nonce is done with.
Request(r, n) ==
    /\ at[r] = "idle"
    /\ at' = [at EXCEPT ![r] = "lock"]
    /\ out' = [out EXCEPT ![r] = [from |-> 0, len |-> n]]
    /\ UNCHANGED <<made, chunk, buf, mutex, used>>

Consume(r) ==
    /\ at[r] = "done"
    /\ at' = [at EXCEPT ![r] = "idle"]
    /\ out' = [out EXCEPT ![r] = None]
    /\ UNCHANGED <<made, chunk, buf, mutex, used>>

\* Slip: no Lock.
LockNot(r) ==
    /\ at[r] = "lock"
    /\ at' = [at EXCEPT ![r] = "read"]
    /\ UNCHANGED <<made, chunk, buf, mutex, out, used>>

Lock(r) ==
    /\ at[r] = "lock"
    /\ mutex = Nobody
    /\ mutex' = r
    /\ at' = [at EXCEPT ![r] = "read"]
    /\ UNCHANGED <<made, chunk, buf, out, used>>

\* buf.Read(out) copies what there is
CopyBuf(r) ==
    /\ at[r] = "read"
    /\ at' = [at EXCEPT ![r] = "advance"]
    /\ out' = [out EXCEPT ![r].from = buf.next]
    /\ UNCHANGED <<made, chunk, buf, mutex, used>>

\* Unlock and return of the bytes o.
Unlock(r, o) ==
    /\ mutex' = Nobody
    /\ at' = [at EXCEPT ![r] = "done"]
    /\ used' = used \cup Bytes(o)

\* Slip: the fast path returns without Unlock.
AdvanceLocked(r) ==
    /\ at[r] = "advance"
    /\ buf' = [buf EXCEPT !.next = @ + Min2(Left, out[r].len)]
    /\ IF Left >= out[r].len
       THEN at' = [at EXCEPT ![r] = "done"] /\ used' = used \cup Bytes(out[r])
       ELSE at' = [at EXCEPT ![r] = "refill"] /\ UNCHANGED used
    /\ UNCHANGED <<made, chunk, mutex, out>>

\* and counts it as read, although a reader that got too little throws it away.
AdvanceBuf(r) ==
    /\ at[r] = "advance"
    /\ buf' = [buf EXCEPT !.next = @ + Min2(Left, out[r].len)]
    /\ IF Left >= out[r].len
       THEN Unlock(r, out[r])
       ELSE at' = [at EXCEPT ![r] = "refill"] /\ UNCHANGED <<mutex, used>>
    /\ UNCHANGED <<made, chunk, out>>

\* fresh := <-r.refill, then Reset, Write and Read.
Refill(r) ==
    LET o == [out[r] EXCEPT !.from = chunk]
    IN  /\ at[r] = "refill"
        /\ chunk < made
        /\ buf' = [next |-> chunk + o.len, end |-> chunk + PrefetchN]
        /\ out' = [out EXCEPT ![r] = o]
        /\ chunk' = made
        /\ Unlock(r, o)
        /\ UNCHANGED made

\* refillWorker draws the next chunk when the last has been taken.
RefillWorker ==
    /\ chunk = made
    /\ made' = made + PrefetchN
    /\ UNCHANGED <<chunk, buf, mutex, at, out, used>>

ReadStep(r) == Lock(r) \/ CopyBuf(r) \/ AdvanceBuf(r) \/ Refill(r)

PrefetchInit ==
    /\ made = 0
    /\ chunk = 0
    /\ buf = [next |-> 0, end |-> 0]
    /\ mutex = Nobody
    /\ at = [r \in Readers |-> "idle"]
    /\ out = [r \in Readers |-> None]
    /\ used = {}

PrefetchNext ==
    \/ \E r \in Readers :
            \/ \E n \in Lengths : Request(r, n)
            \/ ReadStep(r)
            \/ Consume(r)
    \/ RefillWorker

PrefetchSpec == PrefetchInit /\ [][PrefetchNext]_prefetchVars

-----------------------------------------------------------------------------
(* Properties                                                              *)

PrefetchTypeOK ==
    /\ made \in Nat
    /\ chunk \in Nat
    /\ buf \in [next : Nat, end : Nat]
    /\ mutex \in Readers \cup {Nobody}
    /\ at \in [Readers -> {"idle", "lock", "read", "advance", "refill", "done"}]
    /\ out \in [Readers -> [from : Nat, len : Nat]]
    /\ used \subseteq Nat

\* No random byte is returned twice, by one reader or two, whatever is left over in the buffer
\* when a chunk replaces it: nonces that share no byte differ as random values do.
NoByteTwice ==
    [][\A r \in Readers :
            at[r] # "done" /\ at'[r] = "done" => Bytes(out'[r]) \cap used = {}]_prefetchVars
=============================================================================
