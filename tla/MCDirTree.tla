------------------------------ MODULE MCDirTree -------------------------------
(* Instances of DirTree: a short and a long name, two levels.              *)
EXTENDS DirTree, TLC

CONSTANTS t1, t2, short, long

OneThread  == {t1}
TwoThreads == {t1, t2}
Short      == {short}
NoDirs     == {}
Long       == {long}
TwoLevels  == {<<short>>, <<long>>, <<short, long>>}

Symmetry == Permutations(Threads)
=============================================================================
