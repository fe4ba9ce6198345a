------------------------------- MODULE MCKvCache -------------------------------
(***************************************************************************)
(* Two sequences with the same two blocks and one that shares the first.   *)
(***************************************************************************)
EXTENDS KvCache

CONSTANTS s1, s2, s3, h1, h2, h3

BlockSymmetry == Permutations(Blocks)

MCChain == [s \in Seqs |-> IF s = s3 THEN <<h1, h3>> ELSE <<h1, h2>>]
===============================================================================
