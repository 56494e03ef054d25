---------------------------- MODULE MCHandleTable -----------------------------
(* Instances of HandleTable: a few threads, one or two files.              *)
EXTENDS HandleTable, TLC

CONSTANTS t1, t2, p1, p2, v1

TwoThreads   == {t1, t2}
OnePath      == {p1}
TwoPaths     == {p1, p2}
OneValue     == {Zero, v1}

Symmetry == Permutations(Threads) \cup Permutations(Paths)

FileOps == {"open", "read", "write", "close"}
=============================================================================
