--------------------------- MODULE MCCapacityBridge ---------------------------
(***************************************************************************)
(* CapacityBridge with a short and a chunked prompt in every mode, and in  *)
(* live mode also with a second short one: two generations, which a cap of *)
(* one cannot run together, and a prompt that waits while one is stalled.  *)
(***************************************************************************)
EXTENDS CapacityBridge

MCPrompt == <<1, 1, 2>>
MCMaxNew == <<2, 2, 1>>

MCSetups ==
  [mode : {"shadow", "live"}, probing : BOOLEAN, requests : {{2, 3}}]
  \cup [mode : {"live"}, probing : {FALSE}, requests : {{1, 2, 3}}]
===============================================================================
