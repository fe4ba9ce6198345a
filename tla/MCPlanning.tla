------------------------------ MODULE MCPlanning ------------------------------
(* Sixteen GPUs, four KV heads, and numbers small enough for exact         *)
(* fractions: TP2 prefill fits with fp8 KV and not with fp16 and the full  *)
(* token budget, and each of the three resources binds somewhere.          *)
EXTENDS OperatorSession

MCSpecRatio == <<11, 19>>
MCTolerance == <<3, 20>>
MCSlo == [itl |-> 20, ttft |-> 10, target |-> <<2, 3>>]
MCHw == [sm |-> 90, quant |-> "fp8"]
MCWindow == [start |-> 5, end |-> 10]
MCCalibration ==
  [tok |-> 4, tp_ref |-> 4, ar |-> <<1, 4>>, duty |-> <<9, 10>>, params |-> 2,
   peak |-> 100, con |-> F(6), itl_ref |-> 17, slope |-> One,
   extrapolation |-> F(2), isl |-> 3, osl |-> 200, itl |-> 20,
   safety |-> <<9, 10>>, good |-> <<9, 10>>, xfer_ms |-> 400, weights |-> 22,
   gpu |-> 14, activation |-> 1, kv |-> 2, kv_heads |-> 4,
   concurrency |-> 4, seq_len |-> 2]

Base ==
  [pw |-> 4, ptp |-> 2, dw |-> 2, dtp |-> 4, total |-> 16, spec |-> FALSE,
   cp |-> 1, ep |-> 1, moe |-> "AUTO", compile |-> "0", spin |-> FALSE,
   allreduce |-> "AUTO", graph |-> 96, attention_dp |-> FALSE,
   kv_dtype |-> "fp8", dtype |-> 1, budget |-> 2, xfer |-> 16]
MCStart ==
  {Base,
   [Base EXCEPT !.dw = 1, !.dtp = 8, !.xfer = 1],
   [Base EXCEPT !.pw = 2, !.ptp = 4, !.dw = 4, !.dtp = 2, !.ep = 4, !.moe = "TRITON",
                !.kv_dtype = "fp16", !.dtype = 2, !.budget = 1, !.compile = "1",
                !.spin = TRUE, !.allreduce = "NCCL"]}

RunOf(served, goodput, itl, ttft) ==
  [served |-> served, goodput |-> goodput, itl |-> itl, ttft |-> ttft]
(* Nothing served, the prediction met, both gates kept, one missed, both   *)
(* missed with the larger factor on either side, and a tie.                *)
MCRuns ==
  {RunOf(FALSE, 0, 0, 0), RunOf(TRUE, 14, 21, 11)}
  \cup {RunOf(TRUE, 0, m[1], m[2]) :
          m \in {<<20, 10>>, <<20, 11>>, <<21, 10>>, <<21, 11>>, <<40, 11>>, <<40, 20>>}}

(* Latencies on and just past each budget, requests before and after the   *)
(* window, one that was cut off and one of a single token.                 *)
Outcome(arrival, ttft, span, out, requested) ==
  [arrival |-> arrival, ttft |-> ttft, span |-> span, out |-> out,
   requested |-> requested]
MCSimResults ==
  {<<Outcome(5, 10, 40, 3, 3), Outcome(9, 2, 60, 4, 4), Outcome(7, 11, 40, 3, 3)>>,
   <<Outcome(6, 3, 60, 3, 3), Outcome(8, 1, 0, 1, 1)>>,
   <<Outcome(4, 1, 1, 9, 9), Outcome(10, 1, 1, 9, 9), Outcome(5, 12, 41, 3, 3),
     Outcome(6, 4, 20, 2, 3)>>}

Side(tp, pp, dp, spelled, workers) ==
  [tp |-> tp, pp |-> pp, dp |-> dp, spelled |-> spelled, workers |-> workers]
Row(p, d, total) == [mode |-> "Disagg", p |-> p, d |-> d, total |-> total]
Plain(n) == Side(4, 1, Missing, 4, n)
MCTables ==
  {{Row(Side(1, 1, 2, Missing, 4), Plain(2), 0),
    Row(Side(2, 1, 1, 2, Missing), Plain(1), 16)},
   {Row(Side(Missing, 1, 1, 2, 2), Side(8, 1, 0, 8, 1), 12),
    Row(Plain(4), Plain(1), 16)},
   {[Row(Plain(2), Plain(2), 16) EXCEPT !.mode = "Agg"],
    Row(Side(4, Missing, 1, Missing, 2), Plain(1), 16)}}
===============================================================================
