---------------------------- MODULE MCFileContent -----------------------------
(* Instances of FileContent: one or two handles, blocks of two bytes.      *)
EXTENDS FileContent, TLC

CONSTANTS h1, h2

OneHandle  == {h1}
TwoHandles == {h1, h2}
Bits       == {0, 1}

AllCalls   == Calls
NotShrink  == Calls \ {"shrink"}
NoCalls    == {}

Symmetry == Permutations(Handles)
=============================================================================
