---------------------------- MODULE MCPrefillWorker ----------------------------
(***************************************************************************)
(* Instances of the prefill worker: prompts of two and three tokens, and   *)
(* an empty one.                                                           *)
(***************************************************************************)
EXTENDS PrefillWorker

MCPrompts == {[r \in Req |-> IF r = 1 THEN 3 ELSE 2],
              [r \in Req |-> IF r = NumReq THEN 0 ELSE r + 1]}
MCPairs == {[r \in Req |-> 2]}
===============================================================================
