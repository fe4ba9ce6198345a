-------------------------------- MODULE Advice --------------------------------
(***************************************************************************)
(* What the tools tell the operator of a deployment: the verdict on a      *)
(* measured run (crates/core/src/verdict.rs), the remedies for the         *)
(* resource it implicates (remedy.rs), whether a configuration is valid    *)
(* (config.rs, engine_config.rs), and which of AIConfigurator's candidate  *)
(* layouts can be run at all (crates/tuner).                               *)
(*                                                                         *)
(* A configuration is a record: pw, ptp, dw, dtp, total (the topology),    *)
(* spec, cp, ep, moe, compile, spin, allreduce, graph, attention_dp (the   *)
(* engine section), kv_dtype (what the launcher is given), dtype, budget,  *)
(* xfer (what the capacity model reads).                                   *)
(***************************************************************************)
EXTENDS Capacity

CONSTANTS
  Calibration,     \* the model's measured numbers, without what cfg decides
  SpecRatio,       \* itl_ratio of Speculation
  FullBudget,      \* the max_num_tokens the remedy asks for
  FullXfer,        \* the xfer_concurrency the remedy asks for
  MoeBackends      \* MOE_BACKENDS

(* capacity_model(): speculation, KV dtype, token budget and transfer      *)
(* buffers come from the configuration.                                    *)
ModelOf(cfg) ==
  [spec_ratio |-> IF cfg.spec THEN SpecRatio ELSE One,
   kv |-> Calibration.kv * cfg.dtype, max_num_tokens |-> cfg.budget,
   xfer |-> cfg.xfer,
   resident |-> (Calibration.concurrency \div Max({cfg.dw, 1})) * Calibration.seq_len]
  @@ Calibration

SplitOf(cfg) ==
  Evaluate(ModelOf(cfg), cfg.pw * cfg.ptp, cfg.dw * cfg.dtp, cfg.ptp, cfg.dtp)

AllreduceStrategies ==
  {"AUTO", "NCCL", "ONESHOT", "TWOSHOT", "LOWPRECISION", "MNNVL", "UB",
   "NCCL_SYMMETRIC", "AUTO_LOWPRECISION"}
TorchCompile == {"0", "1", "inductor"}

(* EngineConfig::validate.  No remedy and no candidate touches the         *)
(* attention backend, whose check always passes.                           *)
EngineValid(cfg) ==
  /\ cfg.moe \in MoeBackends
  /\ cfg.allreduce \in AllreduceStrategies /\ cfg.compile \in TorchCompile
  /\ cfg.graph > 0
  /\ ~ cfg.attention_dp
  /\ ~ (cfg.cp > 1 /\ cfg.spec)

(* Config::validate; the budgets of the SLO are positive here.             *)
Validate(cfg) ==
  /\ EngineValid(cfg)
  /\ cfg.pw > 0 /\ cfg.dw > 0
  /\ cfg.pw * cfg.ptp + cfg.dw * cfg.dtp <= cfg.total

(* validate_for, beyond validate: the selected MoE kernels exist on the    *)
(* hardware hw, [sm, quant].                                               *)
KernelsExist(cfg, hw) ==
  /\ cfg.moe \in {"DEEPGEMM", "MEGAMOE_DEEPGEMM", "TRTLLM"} => hw.sm \in {100, 103}
  /\ cfg.moe = "MARLIN" => hw.quant = "nvfp4" /\ hw.sm = 90
  /\ cfg.moe = "TRITON" => hw.sm = 90

(* Mutant of DecodeGpus: the decode workers start at the number of prefill *)
(* workers, and not behind their GPUs.                                     *)
DecodeGpusOverlapping(cfg, j) ==
  LET base == cfg.pw + j * cfg.dtp IN base .. base + cfg.dtp - 1

(* cmd_serve: the GPUs of prefill worker i and of decode worker j.         *)
PrefillGpus(cfg, i) == i * cfg.ptp .. i * cfg.ptp + cfg.ptp - 1
DecodeGpus(cfg, j) ==
  LET base == cfg.pw * cfg.ptp + j * cfg.dtp IN base .. base + cfg.dtp - 1

-------------------------------------------------------------------------------
(* Verdict::assess.  A run is [served, goodput, itl, ttft], its latencies  *)
(* against the budgets of slo; tolerance is a fraction.                    *)
(* Mutant of BothGates: the first gate missed is the only one.             *)
BothGatesNever(run, slo) == FALSE

BothGates(run, slo) == run.itl > slo.itl /\ run.ttft > slo.ttft

Diagnosis(run, predicted, slo, tolerance) ==
  IF ~ run.served THEN "NothingServed"
  ELSE IF /\ predicted[1] > 0
          /\ ~ Less(Over(F(run.goodput), predicted), Minus(One, tolerance)) THEN "Met"
  ELSE IF BothGates(run, slo) THEN "BothGates"
  ELSE IF run.itl > slo.itl THEN "ItlGate"
  ELSE IF run.ttft > slo.ttft THEN "TtftGate"
  ELSE "ThroughputShortfall"

(* Diagnosis::implicates, "none" where it points at nothing.               *)
Implicates(diagnosis, run, slo, binding) ==
  CASE diagnosis \in {"Met", "NothingServed"} -> "none"
    [] diagnosis = "ItlGate" -> "Decode"
    [] diagnosis = "TtftGate" -> "Prefill"
    [] diagnosis = "BothGates" ->
         IF run.ttft * slo.itl > run.itl * slo.ttft THEN "Prefill" ELSE "Decode"
    [] diagnosis = "ThroughputShortfall" -> binding

-------------------------------------------------------------------------------
(* Evidence, from the weakest.                                             *)
Derived == 1
Untested == 2
Transferred == 3
Measured == 4

Remedy(knob, evidence, multiplier) ==
  [knob |-> knob, evidence |-> evidence, multiplier |-> multiplier]

(* transfer_remedies, prefill_remedies and decode_remedies.                *)
RemediesFor(bottleneck, m) ==
  CASE bottleneck = "KvTransfer" ->
         {Remedy("KV_XFER_CONCURRENCY", Derived, F(16))}
    [] bottleneck = "Prefill" ->
         {Remedy("EXPERT_PARALLEL", Transferred, <<143, 100>>),
          Remedy("TORCH_COMPILE", Derived, ComputeWorth(m)),
          Remedy("MOE_BACKEND", Untested, One),
          Remedy("KV_CACHE_DTYPE", Transferred, One),
          Remedy("PREFILL_MAX_NUM_TOKENS", Transferred, One),
          Remedy("ALLREDUCE_STRATEGY", Derived, AllreduceWorth(m)),
          Remedy("HOST_DISPATCH_SPIN", Derived, DutyWorth(m)),
          Remedy("CONTEXT_PARALLEL", Derived, One)}
    [] bottleneck = "Decode" ->
         {Remedy("SPECULATION", Transferred, <<1918, 1108>>),
          Remedy("DECODE_TP", Measured, <<27, 10>>),
          Remedy("CUDA_GRAPH_MAX_BATCH", Untested, One)}

(* Mutant of MoeApplied: an explicit CUTLASS is not recognised.            *)
MoeAppliedAuto(cfg) == cfg.moe = "AUTO"

MoeApplied(cfg) == cfg.moe \in {"CUTLASS", "AUTO"}

(* already_applied                                                         *)
AlreadyApplied(knob, split, cfg) ==
  CASE knob = "DECODE_TP" -> split.decode_tp = 4
    [] knob = "SPECULATION" -> cfg.spec
    [] knob = "KV_XFER_CONCURRENCY" -> cfg.xfer >= FullXfer
    [] knob = "EXPERT_PARALLEL" -> cfg.ep = 1
    [] knob = "MOE_BACKEND" -> MoeApplied(cfg)
    [] knob = "TORCH_COMPILE" -> cfg.compile # "0"
    [] knob = "HOST_DISPATCH_SPIN" -> cfg.spin
    [] knob = "ALLREDUCE_STRATEGY" -> cfg.allreduce # "AUTO"
    [] knob = "CONTEXT_PARALLEL" -> cfg.cp > 1
    [] knob = "CUDA_GRAPH_MAX_BATCH" -> cfg.graph > 0
    [] knob = "KV_CACHE_DTYPE" -> cfg.dtype <= 1
    [] knob = "PREFILL_MAX_NUM_TOKENS" -> cfg.budget >= FullBudget

(* remedies_given: what is not done yet, by evidence and then by size.     *)
RemediesGiven(split, cfg) ==
  Ordered({r \in RemediesFor(split.bottleneck, ModelOf(cfg)) :
             ~ AlreadyApplied(r.knob, split, cfg)},
          LAMBDA a, b : \/ a.evidence > b.evidence
                        \/ /\ a.evidence = b.evidence
                           /\ Less(b.multiplier, a.multiplier))

(* Mutants of MoeSetting: a spelling validate() does not know, and a       *)
(* backend of other hardware.                                              *)
MoeSettingLower == "cutlass"
MoeSettingDeepGemm == "DEEPGEMM"

MoeSetting == "CUTLASS"

(* What the command of a remedy sets, each in the field to_env() emits the *)
(* variable from.                                                          *)
Apply(knob, cfg) ==
  CASE knob = "DECODE_TP" -> [cfg EXCEPT !.dtp = 4]
    [] knob = "SPECULATION" -> [cfg EXCEPT !.spec = TRUE]
    [] knob = "KV_XFER_CONCURRENCY" -> [cfg EXCEPT !.xfer = FullXfer]
    [] knob = "EXPERT_PARALLEL" -> [cfg EXCEPT !.ep = 1]
    [] knob = "MOE_BACKEND" -> [cfg EXCEPT !.moe = MoeSetting]
    [] knob = "TORCH_COMPILE" -> [cfg EXCEPT !.compile = "inductor"]
    [] knob = "HOST_DISPATCH_SPIN" -> [cfg EXCEPT !.spin = TRUE]
    [] knob = "ALLREDUCE_STRATEGY" -> [cfg EXCEPT !.allreduce = "LOWPRECISION"]
    [] knob = "CONTEXT_PARALLEL" -> [cfg EXCEPT !.cp = 2, !.pw = 1, !.ptp = 4]
    [] knob = "CUDA_GRAPH_MAX_BATCH" -> [cfg EXCEPT !.graph = 96]
    [] knob = "KV_CACHE_DTYPE" -> [cfg EXCEPT !.kv_dtype = "fp8"]
    [] knob = "PREFILL_MAX_NUM_TOKENS" -> [cfg EXCEPT !.budget = FullBudget]

-------------------------------------------------------------------------------
(* A row of AIConfigurator's table: per side the tp, pp and dp cells, the  *)
(* spelled layout and the worker count.  A cell that cannot be read is     *)
(* Missing.                                                                *)
Missing == -1
Cell(n) == IF n = Missing THEN Missing ELSE Max({n, 1})

(* The layout of a side, in GPUs per worker, 0 if there is none: from the  *)
(* numeric cells, and only without them from the spelled one.              *)
GpusPerWorker(side) ==
  IF side.tp # Missing /\ side.pp # Missing
    THEN Cell(side.tp) * Cell(side.pp)
         * (IF side.dp = Missing THEN 1 ELSE Cell(side.dp))
    ELSE IF side.spelled = Missing THEN 0 ELSE side.spelled

(* Mutant of Workers: an unreadable count is one worker.                   *)
WorkersDefault(side) == IF side.workers = Missing THEN 1 ELSE side.workers

Workers(side) == IF side.workers = Missing THEN 0 ELSE side.workers

(* Mutant of Readable: a row without a layout is taken.                    *)
ReadableWorkers(row) ==
  row.mode # "Agg" /\ \A side \in {row.p, row.d} : Workers(side) > 0

Readable(row) ==
  /\ row.mode # "Agg"
  /\ \A side \in {row.p, row.d} : GpusPerWorker(side) > 0 /\ Workers(side) > 0

(* apply_to: a readable row is overlaid on the configuration.              *)
ApplyTo(row, base) ==
  [base EXCEPT !.ptp = GpusPerWorker(row.p), !.dtp = GpusPerWorker(row.d),
               !.pw = Workers(row.p), !.dw = Workers(row.d),
               !.total = IF row.total > 0 THEN row.total ELSE @]

(* TuningPlan::evaluate_with: the rows that are scored, the others being   *)
(* listed as skipped.                                                      *)
Scored(rows, base) ==
  {row \in rows : Readable(row) /\ Validate(ApplyTo(row, base))}
===============================================================================
