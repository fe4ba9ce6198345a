--------------------------- MODULE MCDecodeScheduler ---------------------------
(***************************************************************************)
(* TLC instances of DecodeScheduler.                                       *)
(***************************************************************************)
EXTENDS DecodeScheduler, TLC

ReqSymmetry == Permutations(Req)
===============================================================================
