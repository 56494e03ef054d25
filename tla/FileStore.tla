------------------------------ MODULE FileStore ------------------------------
(***************************************************************************)
(* What the file calls of the library promise: a set of open handles, each *)
(* of one path, and for each path a content of at most two parts that is   *)
(* written, extended and cut in one step.                                  *)
(***************************************************************************)
EXTENDS Naturals, Sequences

CONSTANTS Paths, Values, Zero, None, Handles

VARIABLES content, handles

vars == <<content, handles>>

Init ==
    /\ content = [p \in Paths |-> << >>]
    /\ handles = [h \in Handles |-> None]

IsHandleOf(h, p) == handles[h] = p /\ p # None

Open(h, p) ==
    /\ handles[h] = None
    /\ handles' = [handles EXCEPT ![h] = p]
    /\ UNCHANGED content

Close(h) ==
    /\ handles[h] # None
    /\ handles' = [handles EXCEPT ![h] = None]
    /\ UNCHANGED content

\* c with part k set to v, and cut or extended with zeros to n parts.
Put(c, k, v) ==
    [i \in (DOMAIN c) \cup 1..k |->
        IF i = k THEN v ELSE IF i \in DOMAIN c THEN c[i] ELSE Zero]

Resized(c, n) == [i \in 1..n |-> IF i \in DOMAIN c THEN c[i] ELSE Zero]

Write(h, p, k, v) ==
    /\ IsHandleOf(h, p)
    /\ content' = [content EXCEPT ![p] = Put(@, k, v)]
    /\ UNCHANGED handles

Resize(h, p, n) ==
    /\ IsHandleOf(h, p)
    /\ content' = [content EXCEPT ![p] = Resized(@, n)]
    /\ UNCHANGED handles

Next == \E h \in Handles, p \in Paths :
    \/ Open(h, p)
    \/ Close(h)
    \/ \E k \in 1..2, v \in Values \ {Zero} : Write(h, p, k, v)
    \/ \E n \in 0..2 : Resize(h, p, n)

Spec == Init /\ [][Next]_vars
=============================================================================
