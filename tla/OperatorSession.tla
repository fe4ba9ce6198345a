--------------------------- MODULE OperatorSession ---------------------------
(***************************************************************************)
(* An operator and the command line, crates/cli/src/main.rs: `verdict`     *)
(* judges a measured run, `plan` searches the splits, `tune` scores        *)
(* AIConfigurator's table, and the operator writes what they say into the  *)
(* configuration file.  Neither `plan` nor `verdict` validates the file it *)
(* loads; `tune` validates each candidate.                                 *)
(***************************************************************************)
EXTENDS Advice, Scoring, Reshard

CONSTANTS
  Start,           \* the configurations a session may start from
  Runs,            \* the measured runs that may be judged
  Tables,          \* the tables AIConfigurator may have written
  PrefillTps, DecodeTps,   \* --prefill-tp, --decode-tp of `plan`
  Slo,             \* [itl, ttft, target]
  Hw,              \* the hardware, [sm, quant]
  Window,          \* the scored window of a simulation, [start, end]
  SimResults,      \* sequences of outcomes a simulation may end with
  Tolerance,       \* --tolerance of `verdict`
  Targets          \* --target of `plan`, goodputs

VARIABLES
  cfg,        \* the configuration file
  about,      \* the resource the last advice is about, "none" without any
  asked,      \* decode_tp of the split it is about
  offered,    \* the remedies printed, in their order
  judged,     \* what `verdict` was asked, [run, diagnosis]
  gap,        \* what `plan` says the target still needs
  kept,       \* the knobs whose remedy was written into the file
  tuned       \* the row the topology was just taken from

vars == <<cfg, about, asked, offered, judged, gap, kept, tuned>>
NotJudged == [diagnosis |-> "none"]
NoRow == [mode |-> "none"]
NoGap == [within |-> FALSE]

TypeOK ==
  /\ about \in {"none", "Prefill", "Decode", "KvTransfer"}
  /\ (about = "none") => offered = <<>>
  /\ cfg.pw * cfg.dw * cfg.ptp * cfg.dtp > 0 /\ cfg.cp \in 1 .. 2
  /\ DOMAIN cfg = DOMAIN (CHOOSE c \in Start : TRUE)
  /\ kept \subseteq {"DECODE_TP", "SPECULATION", "KV_XFER_CONCURRENCY",
       "EXPERT_PARALLEL", "MOE_BACKEND", "TORCH_COMPILE", "HOST_DISPATCH_SPIN",
       "ALLREDUCE_STRATEGY", "CONTEXT_PARALLEL", "CUDA_GRAPH_MAX_BATCH",
       "KV_CACHE_DTYPE", "PREFILL_MAX_NUM_TOKENS"}

Silent ==
  /\ about' = "none" /\ asked' = 0 /\ offered' = <<>>

Init ==
  /\ cfg \in Start
  /\ about = "none" /\ asked = 0 /\ offered = <<>>
  /\ judged = NotJudged /\ gap = NoGap /\ kept = {} /\ tuned = NoRow

(* Print the remedies for a split, in the words of the resource b.         *)
Advise(split, b) ==
  /\ about' = b /\ asked' = split.decode_tp
  /\ offered' = RemediesGiven([split EXCEPT !.bottleneck = b], cfg)

(* Command::Verdict: the prediction is that of the configured topology,    *)
(* and the remedies are for the resource the diagnosis implicates.         *)
Judge(run) ==
  \E split \in {SplitOf(cfg)} :
    LET predicted == Times(split.sustainable, Calibration.good)
        d == Diagnosis(run, predicted, Slo, Tolerance)
        b == Implicates(d, run, Slo, split.bottleneck)
    IN /\ judged' = [run |-> run, diagnosis |-> d, binds |-> split.bottleneck]
       /\ IF b = "none" THEN Silent ELSE Advise(split, b)
       /\ gap' = NoGap /\ tuned' = NoRow
       /\ UNCHANGED <<cfg, kept>>

(* cmd_plan: the remedies are for what binds the best split, whatever      *)
(* topology the file has, and so is the distance to the target.            *)
Best == Search(ModelOf(cfg), cfg.total, PrefillTps, DecodeTps)
Plan ==
  \E splits \in {Best} : \E target \in Targets :
    /\ splits # <<>>
    /\ Advise(splits[1], splits[1].bottleneck)
    /\ \E m \in {ModelOf(cfg)} :
         \E g \in {TargetGap(m, splits[1], target)} :
           gap' = g @@ [target |-> target, sustainable |-> splits[1].sustainable,
                        within |-> WithinTheEnvelope(m, g.prefill)]
    /\ judged' = NotJudged /\ tuned' = NoRow
    /\ UNCHANGED <<cfg, kept>>

(* The operator writes one offered remedy into the file.                   *)
Keep(k) ==
  /\ k \in 1 .. Len(offered)
  /\ cfg' = Apply(offered[k].knob, cfg)
  /\ kept' = kept \cup {offered[k].knob}
  /\ Silent /\ judged' = NotJudged /\ gap' = NoGap /\ tuned' = NoRow

(* The operator writes the best split into the file.                       *)
AdoptSplit ==
  \E splits \in {Best} :
    /\ splits # <<>>
    /\ cfg' = [cfg EXCEPT !.ptp = splits[1].prefill_tp, !.dtp = splits[1].decode_tp,
                          !.pw = Div(splits[1].prefill_gpus, splits[1].prefill_tp),
                          !.dw = Div(splits[1].decode_gpus, splits[1].decode_tp)]
    /\ Silent /\ judged' = NotJudged /\ gap' = NoGap /\ tuned' = NoRow /\ UNCHANGED kept

(* cmd_tune: every readable, valid row is simulated and scored, and the    *)
(* operator takes one with the highest score.                              *)
Tune(rows) ==
  \E outcomes \in [Scored(rows, cfg) -> SimResults] :
    \E reports \in {[row \in DOMAIN outcomes |->
                        ReportOf(InWindow(outcomes[row], Window), Slo)]} :
      \E row \in DOMAIN outcomes :
        /\ \A other \in DOMAIN outcomes :
             reports[other].good_tokens <= reports[row].good_tokens
        /\ cfg' = ApplyTo(row, cfg)
        /\ tuned' = [outcomes |-> outcomes[row], report |-> reports[row]] @@ row
        /\ Silent /\ judged' = NotJudged /\ gap' = NoGap /\ UNCHANGED kept

Next ==
  \/ \E run \in Runs : Judge(run)
  \/ Plan
  \/ \E k \in 1 .. 8 : Keep(k)
  \/ AdoptSplit
  \/ \E rows \in Tables : Tune(rows)

Spec == Init /\ [][Next]_vars

-------------------------------------------------------------------------------
(* remedies_given (remedy.rs:91-114) leaves out what the configuration     *)
(* already does: a remedy that was written into the file, however long ago *)
(* and whatever was tuned since, is not printed again.  Two are: DECODE_TP *)
(* for a split that has another decode TP, and KV_CACHE_DTYPE, because the *)
(* variable is emitted from model.kv_dtype (config.rs:88) and the check    *)
(* reads topology.kv_dtype_bytes (remedy.rs:141).                          *)
OfferedOnce ==
  \A k \in 1 .. Len(offered) : offered[k].knob \in kept =>
     \/ offered[k].knob = "KV_CACHE_DTYPE" /\ cfg.dtype > 1
     \/ offered[k].knob = "DECODE_TP" /\ asked # 4

(* Following advice from a valid file leads to a file that validate()      *)
(* (config.rs:158) accepts, but for the conflicts the remedies do not look *)
(* at: context parallelism with speculation, and a decode TP or a prefill  *)
(* worker of four GPUs where there was room for fewer.                     *)
KnownConflictsOnly ==
  ~ Validate(cfg) =>
     \/ {"CONTEXT_PARALLEL", "SPECULATION"} \subseteq kept
     \/ /\ kept \cap {"DECODE_TP", "CONTEXT_PARALLEL"} # {}
        /\ cfg.pw * cfg.ptp + cfg.dw * cfg.dtp > cfg.total

(* search() (capacity.rs:628) finds every way to spend all GPUs on whole   *)
(* workers that fit in memory, no other, and the one it puts first is      *)
(* beaten by none.  (It reads the file alone, so it is looked at when the  *)
(* file has just changed.)                                                 *)
PlanExhaustive ==
  about = "none" /\ judged = NotJudged => \E splits \in {Best} :
    LET found == {[pw |-> Div(s.prefill_gpus, s.prefill_tp), ptp |-> s.prefill_tp,
                   dw |-> Div(s.decode_gpus, s.decode_tp), dtp |-> s.decode_tp] :
                    s \in Range(splits)}
        ways == {w \in [pw : 1 .. cfg.total, ptp : PrefillTps,
                        dw : 1 .. cfg.total, dtp : DecodeTps] :
                   w.pw * w.ptp + w.dw * w.dtp = cfg.total}
    IN /\ found = {w \in ways : /\ Fits(ModelOf(cfg), w.ptp, "Prefill")
                                /\ Fits(ModelOf(cfg), w.dtp, "Decode")}
       /\ Len(splits) = Cardinality(found)
       /\ \A k \in 2 .. Len(splits) : ~ Better(splits[k], splits[1])

(* max_concurrency_for_slo (capacity.rs:362) inverts the ITL line at the   *)
(* budget times the safety factor: at the concurrency it returns the       *)
(* predicted ITL keeps that budget, with speculation and without, unless   *)
(* not even one sequence per GPU does; and one more per GPU would not keep *)
(* it, unless it is more than was ever measured.                           *)
SizedForSlo ==
  LET m == ModelOf(cfg)
      c == PerGpuForSlo(m)
      budget == Times(F(m.itl), m.safety)
  IN /\ ~ Less(One, c) \/ ~ Less(budget, ItlMs(m, c))
     /\ \/ Less(budget, ItlMs(m, Plus(c, One)))
        \/ ~ Less(c, Times(m.con, m.extrapolation))

(* A verdict (verdict.rs:104) blames the side whose gate was missed by the *)
(* larger factor, decode on a tie, and what binds the split only if both   *)
(* gates were kept; a run that met its prediction or served nothing blames *)
(* nobody.                                                                 *)
BlameFair ==
  judged # NotJudged =>
    LET itl == judged.run.itl * Slo.ttft
        ttft == judged.run.ttft * Slo.itl
        budget == Slo.itl * Slo.ttft
    IN about = IF judged.diagnosis \in {"Met", "NothingServed"} THEN "none"
               ELSE IF itl <= budget /\ ttft <= budget THEN judged.binds
               ELSE IF ttft > itl THEN "Prefill" ELSE "Decode"

(* A topology taken from AIConfigurator's table (aic.rs:145, plan.rs:140)  *)
(* is that of a disaggregated row whose worker counts and layouts could    *)
(* all be read, and it fits the GPUs.                                      *)
TunedFromTable ==
  tuned # NoRow =>
    /\ tuned.mode = "Disagg" /\ Validate(cfg)
    /\ cfg.pw = tuned.p.workers /\ cfg.dw = tuned.d.workers
    /\ \A side \in {tuned.p, tuned.d} : side.spelled # Missing \/ side.tp # Missing

(* Writing a remedy into the file never lowers what the model then         *)
(* predicts for it, except for the two that change the topology without    *)
(* the rest of it: DECODE_TP leaves the number of decode workers, and      *)
(* CONTEXT_PARALLEL asks for a single prefill worker.                      *)
FollowingHelps ==
  [][kept' # kept /\ (kept' \ kept) \cap {"DECODE_TP", "CONTEXT_PARALLEL"} = {}
       => ~ Less(SplitOf(cfg').sustainable, SplitOf(cfg).sustainable)]_vars

(* target_gap (capacity.rs:1029): no side is said to need more exactly     *)
(* when the best split's goodput reaches the target, the side that needs   *)
(* the largest factor is the one the advice is about, and the target is    *)
(* inside the envelope exactly when it asks for no more than 50% prefill   *)
(* MFU, although the three levers are computed apart.                      *)
GapHonest ==
  gap # NoGap =>
    LET goodput == Times(gap.sustainable, Calibration.good)
        factors == {gap.prefill, gap.decode, gap.transfer}
        asked_most == CASE about = "Prefill" -> gap.prefill
                        [] about = "Decode" -> gap.decode
                        [] about = "KvTransfer" -> gap.transfer
    IN /\ (\A f \in factors : ~ Less(One, f)) <=> ~ Less(goodput, F(gap.target))
       /\ \A f \in factors : ~ Less(asked_most, f)
       /\ gap.within <=> ~ Less(<<1, 2>>, Times(Mfu(ModelOf(cfg)), gap.prefill))

(* The KV handed from a prefill worker to a decode worker of the file's    *)
(* topology (reshard.rs:56) arrives on the ranks that own it, whatever the *)
(* remedies, the search and the tables make of the two degrees, where each *)
(* degree divides the heads or is a multiple of them.                      *)
HandoffCarriesLayout ==
  LET heads == Calibration.kv_heads IN
  Divides(heads, cfg.ptp) /\ Divides(heads, cfg.dtp) =>
    /\ ~ PlanRefused(heads, cfg.ptp, cfg.dtp)
    /\ CarriesTheLayout(heads, cfg.ptp, cfg.dtp)

(* The score of the row that was taken (request.rs:113-139, stats.rs:76)   *)
(* counts the output of exactly the requests that arrived in the window,   *)
(* finished, had their first token within its budget and kept the budget   *)
(* on every gap on average; each request has one verdict, the run passes   *)
(* if at most the allowed share of them missed, and the percentiles are    *)
(* samples with the right share of the others below them.                  *)
ScoreHonest ==
  tuned # NoRow =>
    LET r == tuned.report
        mine == {k \in DOMAIN tuned.outcomes :
                   tuned.outcomes[k].arrival \in Window.start .. Window.end - 1}
        ttft(k) == tuned.outcomes[k].ttft
        fine == {k \in mine : LET o == tuned.outcomes[k] IN
                   /\ o.out = o.requested /\ o.ttft <= Slo.ttft
                   /\ o.span <= Slo.itl * (o.out - 1)}
        ranked(p, q) == /\ 100 * Cardinality({k \in mine : ttft(k) <= p})
                             >= q * Cardinality(mine)
                        /\ 100 * Cardinality({k \in mine : ttft(k) < p})
                             < q * Cardinality(mine)
    IN /\ r.good_tokens = MapThenSumSet(LAMBDA k : tuned.outcomes[k].out, fine)
       /\ r.good + r.late + r.slow + r.both + r.incomplete = Cardinality(mine)
       /\ r.passed <=> /\ mine # {}
                       /\ Slo.target[2] * Cardinality(fine)
                            >= Slo.target[1] * Cardinality(mine)
       /\ mine # {} => ranked(r.p50, 50) /\ ranked(r.p99, 99)

(* What the tools say is run on this hardware: from a file whose kernels   *)
(* exist, following remedies, splits and tables never leads to a backend   *)
(* that validate_for (engine_config.rs:307) refuses, although nothing      *)
(* calls it ("collapsing them is what let DEEPGEMM be recommended for an   *)
(* H200", engine_config.rs:112-115).                                       *)
AdviceRunsHere == KernelsExist(cfg, Hw)

(* cmd_serve (main.rs:593-634) builds an engine per worker for any file    *)
(* that validate() accepts: no two of them are given the same GPU, and     *)
(* none a GPU that is not there.                                           *)
ServesOnOwnGpus ==
  Validate(cfg) =>
    LET prefill(w) == PrefillGpus(cfg, w - 1)
        decode(w) == DecodeGpus(cfg, w - 1)
    IN /\ \A v, w \in 1 .. cfg.pw : v # w => prefill(v) \cap prefill(w) = {}
       /\ \A v, w \in 1 .. cfg.dw : v # w => decode(v) \cap decode(w) = {}
       /\ \A v \in 1 .. cfg.pw, w \in 1 .. cfg.dw : prefill(v) \cap decode(w) = {}
       /\ UNION ({prefill(v) : v \in 1 .. cfg.pw} \cup {decode(w) : w \in 1 .. cfg.dw})
            \subseteq 0 .. cfg.total - 1

(***************************************************************************)
(* Advice followed one piece after the other stays consistent, but for the *)
(* cases that OfferedOnce and KnownConflictsOnly name: a knob that is      *)
(* offered again, and a file that validate() refuses.  It always stays     *)
(* within the kernels of the hardware.                                     *)
(***************************************************************************)
AdviceConsistent ==
  /\ TypeOK
  /\ OfferedOnce
  /\ KnownConflictsOnly
  /\ AdviceRunsHere

(***************************************************************************)
(* The capacity model answers its three questions, which split, how many   *)
(* sequences, how far from the target, consistently.                       *)
(***************************************************************************)
ModelConsistent == PlanExhaustive /\ SizedForSlo /\ GapHonest

(***************************************************************************)
(* Measured and simulated runs are judged by what they measured.           *)
(***************************************************************************)
JudgedFairly == BlameFair /\ TunedFromTable /\ ScoreHonest

(***************************************************************************)
(* In any topology the tools lead to, KV arrives on the ranks that own it  *)
(* and engines have their GPUs to themselves.                              *)
(***************************************************************************)
PlacedRight == HandoffCarriesLayout /\ ServesOnOwnGpus
===============================================================================
