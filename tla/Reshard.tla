-------------------------------- MODULE Reshard --------------------------------
(***************************************************************************)
(* From a prefill worker's tensor-parallel layout of the KV heads to a     *)
(* decode worker's, crates/transfer/src/reshard.rs.  An edge moves one     *)
(* head from a source rank to a destination rank.                          *)
(***************************************************************************)
EXTENDS Integers

Edge(head, src, dst) == [head |-> head, src |-> src, dst |-> dst]

(* plan() is an error: a side has more ranks than heads and cannot give    *)
(* each head as many of them as every other.                               *)
PlanRefused(heads, src_tp, dst_tp) ==
  \/ heads = 0 \/ src_tp = 0 \/ dst_tp = 0
  \/ \E tp \in {src_tp, dst_tp} : tp > heads /\ tp % heads # 0

(* The rank that sends a head: its owner, or the first of its owners.      *)
SrcRank(heads, tp, head) ==
  IF tp <= heads THEN head \div (heads \div tp) ELSE head * (tp \div heads)

(* Mutant of DstRanks: the replicas of a head a head's number apart.       *)
DstRanksModulo(heads, tp, head) ==
  IF tp <= heads THEN {head % tp} ELSE {r \in 0 .. tp - 1 : r % heads = head}

(* The ranks that want a head: its owner, or each of its replicas.         *)
DstRanks(heads, tp, head) ==
  IF tp <= heads THEN {head \div (heads \div tp)}
  ELSE LET rep == tp \div heads IN head * rep .. head * rep + rep - 1

(* plan(), where it is not refused.                                        *)
PlanEdges(heads, src_tp, dst_tp) ==
  UNION {{Edge(head, SrcRank(heads, src_tp, head), dst) :
            dst \in DstRanks(heads, dst_tp, head)} : head \in 0 .. heads - 1}

-------------------------------------------------------------------------------
(* The layout, as reshard.rs:4-8 describes it: contiguous heads per rank,  *)
(* or contiguous ranks per head.                                           *)
Owned(heads, tp, rank) ==
  IF tp <= heads THEN rank * (heads \div tp) .. (rank + 1) * (heads \div tp) - 1
  ELSE {rank \div (tp \div heads)}

Divides(heads, tp) == IF tp <= heads THEN heads % tp = 0 ELSE tp % heads = 0

(* Every destination rank is sent exactly the heads it owns, each once and *)
(* by a rank that owns it.                                                 *)
CarriesTheLayout(heads, src_tp, dst_tp) ==
  LET edges == PlanEdges(heads, src_tp, dst_tp) IN
  /\ \A e \in edges : e.head \in Owned(heads, src_tp, e.src)
  /\ \A rank \in 0 .. dst_tp - 1 :
       LET arriving == {e \in edges : e.dst = rank} IN
       /\ {e.head : e \in arriving} = Owned(heads, dst_tp, rank)
       /\ \A e, f \in arriving : e.head = f.head => e = f
===============================================================================
