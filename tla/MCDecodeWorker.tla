---------------------------- MODULE MCDecodeWorker ----------------------------
(***************************************************************************)
(* One request needs two pages, the others one each.                       *)
(***************************************************************************)
EXTENDS DecodeWorker

MCNeed == [r \in Req |-> IF r = 2 THEN 2 ELSE 1]
===============================================================================
