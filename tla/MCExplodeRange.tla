---------------------------- MODULE MCExplodeRange ----------------------------
(* Small words and blocks for ExplodeRange.                                *)
EXTENDS ExplodeRange

\* Every offset of a request that ends within the word.  The positions of the
\* blocks from 84 on are above MaxInt64, and those from 172 on wrap around.
SmallOffsets == 0..(Word - 1 - MaxKernelWrite)
RequestLengths == 0..MaxKernelWrite
=============================================================================
