----------------------------- MODULE MCDeployment -----------------------------
(***************************************************************************)
(* Deployment with an answer of one token and two of two, one collected,   *)
(* one streamed to a client that may stall.                                *)
(***************************************************************************)
EXTENDS Deployment, TLC

CONSTANTS r1, r2, r3

MCMaxTokens == r1 :> 2 @@ r2 :> 2 @@ r3 :> 1
===============================================================================
