------------------------------- MODULE MCRouter -------------------------------
(***************************************************************************)
(* Router over prompts that share prefixes of every length, two prefill    *)
(* and two decode workers.                                                 *)
(***************************************************************************)
EXTENDS Router

MCPrompts == {<<1, 1, 1>>, <<1, 2>>, <<1>>, <<1, 1, 2>>}
MCPrefillLoads == {[queued |-> 0, rate |-> 0], [queued |-> 3, rate |-> 2]}
MCDecodeLoads == {[headroom |-> 1, util |-> 1], [headroom |-> -1, util |-> 0]}
===============================================================================
