--------------------------- MODULE MCBlockEncryption ---------------------------
(* An instance of BlockEncryption: two threads, and chunks that nonces do not fill. *)
EXTENDS BlockEncryption, TLC

CONSTANTS c1, c2, b1, b2, b3, b4, b5, b6, p1, p2, q1, q2

TwoCallers == {c1, c2}
AllReaders == Callers \X {0, 1}
Nonces     == {2}
SomeFirst  == {7}

Blocks6 == {b1, b2, b3, b4, b5, b6}
Plain2  == {p1, p2}
Req2    == {q1, q2}
=============================================================================
