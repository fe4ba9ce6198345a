------------------------------- MODULE Capacity -------------------------------
(***************************************************************************)
(* The calibrated capacity model, crates/core/src/capacity.rs: what a      *)
(* prefill/decode split of the GPUs can sustain, which resource binds, and *)
(* the search over all splits.                                             *)
(*                                                                         *)
(* Every quantity is an exact fraction <<n, d>> in lowest terms, d >= 0;   *)
(* d = 0 is the source's INFINITY.  A model m is a record of the measured  *)
(* numbers:                                                                *)
(*   tok, tp_ref, ar (the all-reduce share), duty, params, peak; con,      *)
(*   itl_ref, slope, extrapolation, spec_ratio; isl, osl, itl, safety;     *)
(*   good; xfer_ms, xfer; weights, gpu, activation, kv, kv_heads,          *)
(*   max_num_tokens, resident.                                             *)
(***************************************************************************)
EXTENDS Integers, Sequences, SequencesExt, FiniteSetsExt

F(n) == <<n, 1>>
One == F(1)
Infinity == <<1, 0>>
Gcd[a \in Nat, b \in Nat] == IF b = 0 THEN a ELSE Gcd[b, a % b]
Abs(n) == IF n < 0 THEN - n ELSE n
Lowest(n, d) ==
  LET g == Gcd[Abs(n), Abs(d)] IN
  IF g = 0 THEN <<0, 1>>
  ELSE IF d < 0 THEN <<- n \div g, - d \div g>> ELSE <<n \div g, d \div g>>
Plus(a, b) == Lowest(a[1] * b[2] + b[1] * a[2], a[2] * b[2])
Times(a, b) == Lowest(a[1] * b[1], a[2] * b[2])
Over(a, b) == Lowest(a[1] * b[2], a[2] * b[1])
Minus(a, b) == Plus(a, <<- b[1], b[2]>>)
Less(a, b) == a[1] * b[2] < b[1] * a[2]
Same(a, b) == a[1] * b[2] = b[1] * a[2]
Least(a, b) == IF Less(b, a) THEN b ELSE a
Most(a, b) == IF Less(a, b) THEN b ELSE a

-------------------------------------------------------------------------------
(* ring_factor: (t - 1) / t.                                               *)
RingFactor(tp) == IF tp <= 1 THEN F(0) ELSE <<tp - 1, tp>>

(* tok_s_per_gpu_at_tp: the all-reduce share scaled from tp_ref to tp.     *)
TokPerGpu(m, tp) ==
  IF m.tp_ref <= 1 THEN F(m.tok)
  ELSE LET unit == Over(m.ar, RingFactor(m.tp_ref)) IN
       Over(F(m.tok), Plus(Minus(One, m.ar), Times(unit, RingFactor(tp))))

PrefillReqPerS(m, gpus, tp) == Over(Times(F(gpus), TokPerGpu(m, tp)), F(m.isl))

(* mfu() and mfu_breakdown(): what each of the three levers is worth.      *)
Mfu(m) == IF m.peak <= 0 THEN F(0) ELSE <<m.tok * 2 * m.params, m.peak>>
ComputeMfu(m) ==
  LET frac == Times(m.duty, Minus(One, m.ar)) IN
  IF frac[1] > 0 THEN Over(Mfu(m), frac) ELSE F(0)
DutyWorth(m) == IF m.duty[1] > 0 THEN Over(One, m.duty) ELSE Infinity
AllreduceWorth(m) == Over(One, Minus(One, m.ar))
ComputeWorth(m) ==
  IF ComputeMfu(m)[1] <= 0 THEN Infinity ELSE Over(<<1, 2>>, ComputeMfu(m))

(* itl_ms: the fitted line, and what speculation makes of it.              *)
ItlBaseline(m, per_gpu) ==
  Plus(F(m.itl_ref), Times(m.slope, Minus(per_gpu, m.con)))
ItlMs(m, per_gpu) == Times(ItlBaseline(m, per_gpu), m.spec_ratio)

(* Mutant of Budget: the safety factor is forgotten.                       *)
BudgetUnsafe(m) == Over(F(m.itl), m.spec_ratio)

(* The ITL budget in engine-step terms: speculation is undone.             *)
Budget(m) == Over(Times(F(m.itl), m.safety), m.spec_ratio)

(* max_concurrency_for_slo, per GPU: the fitted line inverted at the       *)
(* budget, between 1 and the multiple of what was measured that may be     *)
(* extrapolated to.                                                        *)
PerGpuForSlo(m) ==
  LET fitted == Plus(m.con, Over(Minus(Budget(m), F(m.itl_ref)), m.slope))
  IN IF m.slope[1] <= 0 THEN m.con
     ELSE Least(Most(fitted, One), Times(m.con, Most(m.extrapolation, One)))

(* DecodeCalibration::req_per_s: slots over the time a request holds one,  *)
(* never charged with more than the SLO.                                   *)
DecodeReqPerS(m, gpus) ==
  LET c == PerGpuForSlo(m)
      itl == Least(ItlMs(m, c), F(m.itl))
  IN Over(Times(Times(F(gpus), c), F(1000)), Times(F(m.osl), itl))

(* Mutant of TransferReqPerS: more buffers make each transfer slower.      *)
TransferReqPerSShared(m, workers) ==
  IF m.xfer_ms <= 0 \/ workers = 0 THEN Infinity
  ELSE <<workers * 1000, m.xfer_ms * Max({m.xfer, 1})>>

(* transfer_req_s: buffers over the time one is held.                      *)
TransferReqPerS(m, workers) ==
  IF m.xfer_ms <= 0 \/ workers = 0 THEN Infinity
  ELSE <<workers * Max({m.xfer, 1}) * 1000, m.xfer_ms>>

-------------------------------------------------------------------------------
(* checked_div, 0 when there is nothing to divide by.                      *)
Div(a, b) == IF b = 0 THEN 0 ELSE a \div b

(* The earlier of two rates wins a tie: the sort is stable.                *)
Binding(p, d, x) ==
  IF ~ Less(d, p) /\ ~ Less(x, p) THEN "Prefill"
  ELSE IF ~ Less(x, d) THEN "Decode" ELSE "KvTransfer"

(* evaluate(): the three rates, the least of them and its name.            *)
Evaluate(m, prefill_gpus, decode_gpus, prefill_tp, decode_tp) ==
  LET workers == Div(prefill_gpus, prefill_tp)
      p == PrefillReqPerS(m, workers * prefill_tp, prefill_tp)
      d == DecodeReqPerS(m, decode_gpus)
      x == TransferReqPerS(m, Div(decode_gpus, decode_tp))
  IN [prefill_gpus |-> prefill_gpus, decode_gpus |-> decode_gpus,
      prefill_tp |-> prefill_tp, decode_tp |-> decode_tp,
      prefill |-> p, decode |-> d, transfer |-> x,
      sustainable |-> Least(Least(p, d), x), bottleneck |-> Binding(p, d, x)]

(* free_gib_per_rank, needed_gib_per_rank: KV splits no further than the   *)
(* KV heads, and decode keeps all its admitted sequences resident.         *)
FreePerRank(m, tp) == Minus(F(m.gpu), <<m.weights, Max({tp, 1})>>)
NeededPerRank(m, tp, role) ==
  LET shards == Max({1, Min({tp, Max({m.kv_heads, 1})})})
      tokens == IF role = "Prefill" THEN m.max_num_tokens ELSE m.resident
  IN Plus(F(m.activation), <<m.kv * tokens, shards>>)

Fits(m, tp, role) == ~ Less(FreePerRank(m, tp), NeededPerRank(m, tp, role))

(* Mutant of Leaves: the split that leaves decode a single worker.         *)
LeavesMore(total, p, dtp) == p + dtp < total

(* The loop's condition: p prefill GPUs leave a decode worker.             *)
Leaves(total, p, dtp) == p + dtp <= total

(* The splits search() visits: whole workers on both sides, no GPU idle,   *)
(* each side in memory.                                                    *)
Splits(m, total, prefill_tps, decode_tps) ==
  {s \in {<<p, ptp, dtp>> : p \in 1 .. total, ptp \in prefill_tps, dtp \in decode_tps} :
     /\ s[2] > 0 /\ s[3] > 0
     /\ Leaves(total, s[1], s[3])
     /\ s[1] % s[2] = 0 /\ (total - s[1]) % s[3] = 0
     /\ Fits(m, s[2], "Prefill") /\ Fits(m, s[3], "Decode")}

(* The order of search(): goodput, then what the two sides have together,  *)
(* then the order of the loops, over ascending lists of degrees.           *)
Better(a, b) ==
  \/ Less(b.sustainable, a.sustainable)
  \/ /\ Same(a.sustainable, b.sustainable)
     /\ Less(Plus(b.prefill, b.decode), Plus(a.prefill, a.decode))
Visited(s) == s.prefill_tp * 10000 + s.decode_tp * 100 + s.prefill_gpus

(* A set as a sequence, by an order.                                       *)
Ordered(set, Before(_, _)) ==
  LET from[rest \in SUBSET set] ==
        IF rest = {} THEN <<>>
        ELSE LET x == CHOOSE x \in rest : \A y \in rest : ~ Before(y, x)
             IN <<x>> \o from[rest \ {x}]
  IN from[set]

(* search(): whole-worker splits of all the GPUs, the best first.          *)
Search(m, total, prefill_tps, decode_tps) ==
  Ordered({Evaluate(m, s[1], total - s[1], s[2], s[3]) :
             s \in Splits(m, total, prefill_tps, decode_tps)},
          LAMBDA a, b : \/ Better(a, b)
                        \/ ~ Better(b, a) /\ Visited(a) < Visited(b))

(* Mutant of Short: the target is taken for a request rate.                *)
ShortOfRate(m, have, target) ==
  IF have[1] > 0 THEN Over(F(target), have) ELSE Infinity

(* target_gap: the factor each side is short of a goodput target by.       *)
Short(m, have, target) ==
  IF have[1] > 0 THEN Over(Over(F(target), m.good), have) ELSE Infinity
TargetGap(m, split, target) ==
  [prefill |-> Short(m, split.prefill, target),
   decode |-> Short(m, split.decode, target),
   transfer |-> Short(m, split.transfer, target)]

(* within_the_envelope: the three levers together are worth the factor.    *)
WithinTheEnvelope(m, factor) ==
  ~ Less(Times(Times(DutyWorth(m), AllreduceWorth(m)), ComputeWorth(m)), factor)
===============================================================================
