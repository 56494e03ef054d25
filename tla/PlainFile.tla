------------------------------ MODULE PlainFile -------------------------------
(***************************************************************************)
(* What the content calls of the library promise for one file, seen        *)
(* between calls: a sequence of values into which a call puts the data it  *)
(* was given, or which it resizes as it was asked; if the call fails or is *)
(* killed, the bytes before the block it works in are as they were.        *)
(***************************************************************************)
EXTENDS Naturals, Sequences

CONSTANTS Values, Zero, BlockSize, MaxSize

VARIABLES
    content,  \* the bytes of the file
    request,  \* what the call in progress was given: data and an offset, or a size
    outcome   \* how the last call ended

Data == UNION {[1..n -> Values] : n \in 0..MaxSize}

NoRequest == [do |-> "none", at |-> 0, data |-> << >>]

\* d written at offset off; what lies between the old end and off is zero.
Put(off, d) ==
    [i \in 1..(IF d # << >> /\ Len(content) < off + Len(d) THEN off + Len(d) ELSE Len(content)) |->
        IF i \in off + 1..off + Len(d) THEN d[i - off]
        ELSE IF i <= Len(content) THEN content[i] ELSE Zero]

Resized(n) == [i \in 1..n |-> IF i <= Len(content) THEN content[i] ELSE Zero]

Init == content = << >> /\ request = NoRequest /\ outcome = "ok"

Ask ==
    /\ request = NoRequest
    /\ request' \in [do : {"write", "resize"}, at : 0..MaxSize, data : Data]
    /\ request'.at + Len(request'.data) <= MaxSize
    /\ UNCHANGED <<content, outcome>>

Write ==
    /\ request.do = "write"
    /\ content' = Put(request.at, request.data)
    /\ request' = NoRequest
    /\ outcome' = "ok"

Resize ==
    /\ request.do = "resize"
    /\ content' = Resized(request.at)
    /\ request' = NoRequest
    /\ outcome' = "ok"

\* The lengths a call may leave when it fails, or is killed, half way.  Growing
\* got to some length in between; shrinking lost at most the block the new end
\* lies in; a write changed nothing.
Leftovers ==
    LET len == Len(content)
        n   == request.at
    IN  {len} \cup IF request.do = "write" THEN {}
                   ELSE IF len <= n THEN len..n
                   ELSE {n - (n % BlockSize)}

Fail ==
    /\ request # NoRequest
    /\ \E m \in Leftovers : content' = Resized(m)
    /\ request' = NoRequest
    /\ outcome' = "failed"

Next == Ask \/ Write \/ Resize \/ Fail

Spec == Init /\ [][Next]_<<content, request, outcome>>
=============================================================================
