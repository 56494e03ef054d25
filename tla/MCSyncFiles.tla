----------------------------- MODULE MCSyncFiles ------------------------------
(* Instances of SyncFiles: a file in the root and one in a directory.      *)
EXTENDS SyncFiles, TLC

CONSTANTS dir, file, a, b

TreeNames == {dir, file}
TreePaths == {<<file>>, <<dir>>, <<dir, file>>}
TreeDirs  == {<<dir>>}
Data      == {a, b}
LongFile  == {<<dir, file>>}
Mirrors   == {{"delete"}, {"checksum"}, {"delete", "dryRun"}}

Symmetry == Permutations(Data)
=============================================================================
