---------------------------- MODULE CapacityBridge ----------------------------
(***************************************************************************)
(* The Rust capacity scheduler behind TensorRT-LLM's executor: the state   *)
(* RustScheduler (crates/pyext/src/lib.rs) keeps between the steps, and    *)
(* the wrapper RustBackedCapacityScheduler (python/trtllm_rs_bridge/       *)
(* scheduler.py) that offers it the requests the upstream scheduler fits,  *)
(* in shadow mode (compare, run upstream's answer) or in live mode (run    *)
(* Rust's).  The executor, which computes what was fitted, and the         *)
(* upstream scheduler are external.                                        *)
(*                                                                         *)
(* A time is kept as an age, saturating at MaxAge; every call of           *)
(* schedule_request takes one unit of it.                                  *)
(***************************************************************************)
EXTENDS CapacityDecision, FiniteSets, FiniteSetsExt

CONSTANTS
  Requests,            \* request ids, a set of integers
  Prompt, MaxNew,      \* prompt_len and max_new_tokens of each
  KvFree,              \* free block counts the engine reports
  ForgetSteps,         \* LEDGER_FORGET_STEPS
  MaxSamples,          \* _MAX_SAMPLES_KEPT
  Setups,              \* bound: the modes, with the requests that come in each
  MaxAge,              \* bound: ages saturate here
  MaxShadowSteps       \* bound: steps counted in shadow mode

ASSUME BridgeAssumption ==
  /\ Requests \subseteq Int /\ IsFiniteSet(Requests)
  /\ Prompt \in [Requests -> Nat] /\ MaxNew \in [Requests -> Nat \ {0}]
  /\ KvFree \subseteq Nat
  /\ ForgetSteps \in Nat /\ MaxSamples \in Nat
  /\ Setups \subseteq [mode : {"shadow", "live"}, probing : BOOLEAN,
                       requests : SUBSET Requests]
  /\ MaxAge \in Nat \ {0} /\ MaxShadowSteps \in Nat

VARIABLES
  mode,         \* shadow or live.  Never changes
  decode_order, \* DecodeOrder.  Never changes
  probing,      \* whether can_schedule() is ever called.  Never changes
  request,      \* the executor's requests
  seen,         \* _first_seen_ms: the age of each id it holds
  age,          \* since when each request has really been offered here
  cap,          \* controller.cap(), floored
  ledger,       \* ledger: steps_absent of each id it holds
  unseen,       \* decisions since each id was last offered, saturating
  counts        \* the counters of summary()

vars == <<mode, decode_order, probing, request, seen, age, cap, ledger, unseen,
          counts>>

NoAge == -1
Phases == {"new", "context", "generation", "complete"}
Counters ==
  {"steps", "agreed", "diverged", "malformed", "empty", "order_differed",
   "divergences", "order_diffs"}

TypeOK ==
  /\ mode \in {"shadow", "live"} /\ decode_order \in Orders /\ probing \in BOOLEAN
  /\ request \in [Requests -> [phase : Phases, done : Nat, generated : Nat]]
  /\ \A r \in Requests : request[r].done <= Prompt[r]
                         /\ request[r].generated <= MaxNew[r]
  /\ age \in [Requests -> NoAge .. MaxAge]
  /\ DOMAIN seen \subseteq Requests /\ \A r \in DOMAIN seen : seen[r] \in 0 .. MaxAge
  /\ cap \in 1 .. MaxBatchSize
  /\ DOMAIN ledger \subseteq Requests
  /\ \A r \in DOMAIN ledger : ledger[r] \in 0 .. ForgetSteps
  /\ unseen \in [Requests -> 0 .. ForgetSteps + 1]
  /\ counts \in [Counters -> 0 .. MaxShadowSteps]

Init ==
  /\ decode_order \in Orders
  /\ \E setup \in Setups :
       /\ mode = setup.mode /\ probing = setup.probing
       /\ request = [r \in Requests |->
            [phase |-> IF r \in setup.requests THEN "new" ELSE "complete",
             done |-> 0, generated |-> 0]]
  /\ seen = [r \in {} |-> 0]
  /\ age = [r \in Requests |-> NoAge]
  /\ cap = MaxBatchSize
  /\ ledger = [r \in {} |-> 0]
  /\ unseen = [r \in Requests |-> ForgetSteps + 1]
  /\ counts = [c \in Counters |-> 0]

Active == {r \in Requests : request[r].phase \in {"context", "generation"}}

Older(a) == IF a < MaxAge THEN a + 1 ELSE a

(* Mutant of ArrivalMsFor: every sight of an id is taken for the first.    *)
ArrivalMsLatest(ids) == [r \in ids |-> 0]

(* _arrival_ms_for: the first sight of each id is kept, and those not in   *)
(* this call's list are evicted.                                           *)
ArrivalMsFor(ids) ==
  [r \in ids |-> IF r \in DOMAIN seen THEN Older(seen[r]) ELSE 0]

(* flatten: the rows of the fitting requests, in the order the executor    *)
(* happens to hold them.                                                   *)
Row(r, arrivals) ==
  [id |-> r, context |-> request[r].phase = "context", prompt |-> Prompt[r],
   done |-> request[r].done, generated |-> request[r].generated,
   max_new |-> MaxNew[r], age |-> arrivals[r]]

Rows(ids, arrivals) ==
  LET list == SetToSeq(ids) IN
  [k \in 1 .. Len(list) |-> Row(list[k], arrivals)]

(* Mutant of UpdateLedger: who is forgotten is decided one step too early. *)
UpdateLedgerEarly(ids) ==
  LET kept == {r \in DOMAIN ledger : r \in ids \/ ledger[r] + 1 < ForgetSteps}
  IN [r \in kept \cup ids |-> IF r \in ids THEN 0 ELSE ledger[r] + 1]

(* Mutant of UpdateLedger: an absent id is forgotten one step too late.    *)
UpdateLedgerLate(ids) ==
  LET kept == {r \in DOMAIN ledger : r \in ids \/ ledger[r] <= ForgetSteps}
  IN [r \in kept \cup ids |-> IF r \in ids THEN 0 ELSE ledger[r] + 1]

(* update_ledger: reset who was offered, age who was not, and forget those *)
(* absent for more than LEDGER_FORGET_STEPS.                               *)
UpdateLedger(ids) ==
  LET kept == {r \in DOMAIN ledger : r \in ids \/ ledger[r] + 1 <= ForgetSteps}
  IN [r \in kept \cup ids |-> IF r \in ids THEN 0 ELSE ledger[r] + 1]

(* absent(): how many known requests were not offered in the last step.    *)
Absent == Cardinality({r \in DOMAIN ledger : ledger[r] > 0})

(* RustScheduler::decide over the rows of some requests: the ids it admits *)
(* and pauses, and the ledger it leaves behind.                            *)
RustDecision(rows, kv_free) == Decide(rows, {}, decode_order, cap, kv_free)

RustRemembers(ids) ==
  /\ ledger' = UpdateLedger(ids)
  /\ unseen' = [r \in Requests |-> IF r \in ids THEN 0
                                   ELSE IF unseen[r] <= ForgetSteps
                                     THEN unseen[r] + 1 ELSE unseen[r]]

(* Mutant of Count: an order difference is counted as a divergence too.    *)
CountTwice(rows, decided) ==
  LET rust == Ids(rows, decided.fitting)
      agrees == decided.paused = <<>>
      names == {"steps"} \cup (IF agrees THEN {"agreed"} ELSE {})
               \cup (IF rust # [k \in 1 .. Len(rows) |-> rows[k].id]
                       THEN {"diverged"} ELSE {})
  IN [c \in Counters |-> counts[c] + IF c \in names THEN 1 ELSE 0]

(* _record_comparison: membership first, then order; samples are bounded.  *)
Count(rows, decided) ==
  LET rust == Ids(rows, decided.fitting)
      upstream == [k \in 1 .. Len(rows) |-> rows[k].id]
      agrees == ToSet(rust) = ToSet(upstream) /\ decided.paused = <<>>
      differs == agrees /\ rust # upstream
      names == {"steps", IF agrees THEN "agreed" ELSE "diverged"}
               \cup (IF rust = <<>> /\ rows # <<>> THEN {"empty"} ELSE {})
               \cup (IF ~ agrees /\ counts["divergences"] < MaxSamples
                       THEN {"divergences"} ELSE {})
               \cup (IF differs THEN {"order_differed"} ELSE {})
               \cup (IF differs /\ counts["order_diffs"] < MaxSamples
                       THEN {"order_diffs"} ELSE {})
  IN [c \in Counters |-> counts[c] + IF c \in names THEN 1 ELSE 0]

(* The executor computes what was fitted: a chunk of a prompt, or all that *)
(* remains of it, and one token of a generation.                           *)
Computed(ran, whole) ==
  [r \in Requests |->
    LET q == request[r]
        chunk == IF q.done >= Prompt[r] THEN 0
                 ELSE IF whole THEN Prompt[r] - q.done ELSE 1
        token == q.generated + 1
        next == IF token >= MaxNew[r] THEN "complete" ELSE "generation"
    IN IF r \notin ran THEN q
       ELSE IF q.phase = "context" /\ q.done + chunk < Prompt[r]
         THEN [q EXCEPT !.done = @ + chunk]
       ELSE [phase |-> next, done |-> Prompt[r], generated |-> token]]

(* One call of schedule_request with the given ids, and the time it takes. *)
Scheduled(ids) ==
  /\ seen' = ArrivalMsFor(ids)
  /\ age' = [r \in Requests |->
              IF r \notin Active \cup ids THEN NoAge
              ELSE IF age[r] # NoAge THEN Older(age[r])
              ELSE IF r \in ids THEN 0 ELSE NoAge]
  /\ UNCHANGED <<mode, decode_order, probing>>

Shadow == mode = "shadow" /\ counts["steps"] < MaxShadowSteps

(* Shadow mode: both decide, the difference is counted, and the GPU runs   *)
(* what upstream fitted.                                                   *)
ShadowStep(fitting, kv_free, whole) ==
  \E rows \in {Rows(fitting, ArrivalMsFor(Active))} :
  /\ Shadow
  /\ Scheduled(Active)
  /\ RustRemembers(fitting)
  /\ counts' = Count(rows, RustDecision(rows, kv_free))
  /\ request' = Computed(fitting, whole)
  /\ UNCHANGED cap

(* A call of decide() that raises in shadow mode is counted, and has not   *)
(* reached the ledger.                                                     *)
Malformed ==
  /\ Shadow
  /\ counts' = [counts EXCEPT !["steps"] = @ + 1, !["malformed"] = @ + 1]
  /\ UNCHANGED <<cap, ledger, unseen>>

(* Shadow mode, and decide() raises: upstream's answer runs.               *)
ShadowRaises(fitting, whole) ==
  /\ Malformed
  /\ Scheduled(Active)
  /\ request' = Computed(fitting, whole)

(* The exception leaves schedule_request: upstream's own in either mode,   *)
(* that of decide() in live mode.  The arrivals are noted, nothing runs.   *)
CallRaises(ids) ==
  /\ Scheduled(ids)
  /\ UNCHANGED <<cap, ledger, unseen, counts, request>>

(* Mutant of LiveStep: the GPU runs only what Rust would pause.            *)
LiveStepSwapped(fitting, kv_free, whole) ==
  /\ mode = "live"
  /\ Scheduled(Active)
  /\ RustRemembers(fitting)
  /\ \E rows \in {Rows(fitting, ArrivalMsFor(Active))} :
     \E decided \in {RustDecision(rows, kv_free)} :
       request' = Computed(ToSet(Ids(rows, decided.paused)), whole)
  /\ UNCHANGED <<cap, counts>>

(* Live mode: the GPU runs what Rust decided; what it paused waits with    *)
(* what upstream paused.                                                   *)
LiveStep(fitting, kv_free, whole) ==
  /\ mode = "live"
  /\ Scheduled(Active)
  /\ RustRemembers(fitting)
  /\ \E rows \in {Rows(fitting, ArrivalMsFor(Active))} :
     \E decided \in {RustDecision(rows, kv_free)} :
       request' = Computed(ToSet(Ids(rows, decided.fitting)), whole)
  /\ UNCHANGED <<cap, counts>>

(* SimpleScheduler.can_schedule asks about one request that is not active  *)
(* yet, through the same schedule_request; upstream fits it or does not,   *)
(* and nothing is computed.  In shadow mode the call is counted as a step. *)
Probed(r) == probing /\ request[r].phase = "new"

FitCheck(r, fitting, kv_free) ==
  \E rows \in {[k \in 1 .. Cardinality(fitting) |->
                 [Row(r, ArrivalMsFor({r})) EXCEPT !.context = TRUE]]} :
  /\ Probed(r)
  /\ mode = "live" \/ Shadow
  /\ Scheduled({r})
  /\ RustRemembers(fitting)
  /\ counts' = IF mode = "live" THEN counts
               ELSE Count(rows, RustDecision(rows, kv_free))
  /\ UNCHANGED <<cap, request>>

FitCheckRaises(r) ==
  /\ Probed(r)
  /\ \/ Malformed /\ Scheduled({r}) /\ UNCHANGED request
     \/ CallRaises({r})

(* RustScheduler::observe: the controller, whose steering DecodeScheduler  *)
(* models, leaves any cap between its floor and its ceiling.               *)
Observe ==
  /\ \E c \in 1 .. MaxBatchSize : c # cap /\ cap' = c
  /\ UNCHANGED <<mode, decode_order, probing, request, seen, age, ledger, unseen,
                 counts>>

(* A request reaches the executor.                                         *)
Arrive(r) ==
  /\ request[r].phase = "new"
  /\ request' = [request EXCEPT ![r].phase = "context"]
  /\ UNCHANGED <<mode, decode_order, probing, seen, age, cap, ledger, unseen, counts>>

Next ==
  \/ \E fitting \in SUBSET Active, kv_free \in KvFree, whole \in BOOLEAN :
       ShadowStep(fitting, kv_free, whole) \/ LiveStep(fitting, kv_free, whole)
  \/ \E fitting \in SUBSET Active, whole \in BOOLEAN : ShadowRaises(fitting, whole)
  \/ CallRaises(Active)
  \/ \E r \in Requests :
       \/ Arrive(r) \/ FitCheckRaises(r)
       \/ \E fitting \in SUBSET {r}, kv_free \in KvFree : FitCheck(r, fitting, kv_free)
  \/ Observe

(* The executor keeps stepping, and again and again upstream fits some of  *)
(* its requests, whichever it likes and for chunks of any size, at a       *)
(* moment when the free blocks are not below the watermark.                *)
Served ==
  /\ mode = "live" /\ Active # {}
  /\ \E fitting \in SUBSET Active \ {{}}, kv_free \in KvFree, whole \in BOOLEAN :
       kv_free >= WatermarkBlocks /\ LiveStep(fitting, kv_free, whole)

Spec == Init /\ [][Next]_vars /\ WF_vars(Served)

-------------------------------------------------------------------------------
(***************************************************************************)
(* The ledger is an exact record of who was offered lately: it holds the   *)
(* ids offered in the last ForgetSteps + 1 decisions and no others, each   *)
(* with the number of decisions since (lib.rs:310-338).                    *)
(***************************************************************************)
LedgerExact ==
  /\ DOMAIN ledger = {r \in Requests : unseen[r] <= ForgetSteps}
  /\ \A r \in DOMAIN ledger : ledger[r] = unseen[r]

(***************************************************************************)
(* Every step in shadow mode is counted as exactly one of agreed, diverged *)
(* and malformed, order differences only among the agreed ones, and the    *)
(* samples stay bounded while the counts stay exact (scheduler.py:41-44).  *)
(***************************************************************************)
CountsAddUp ==
  /\ counts["steps"] = counts["agreed"] + counts["diverged"] + counts["malformed"]
  /\ counts["order_differed"] <= counts["agreed"]
  /\ \A p \in {<<"divergences", "diverged">>, <<"order_diffs", "order_differed">>} :
       counts[p[1]] = IF counts[p[2]] < MaxSamples THEN counts[p[2]] ELSE MaxSamples

(***************************************************************************)
(* "the first monotonic timestamp (ms) at which a request id was observed  *)
(* in `active_requests` BY THIS SCHEDULER" (scheduler.py:281-282): an      *)
(* active request keeps the age of its first sight.                        *)
(***************************************************************************)
ArrivalIsFirstSeen ==
  \A r \in DOMAIN seen \cap Active : age[r] # NoAge => seen[r] = age[r]

(* No request the wrapper remembers looks older than it is.               *)
NeverOlder == \A r \in DOMAIN seen : age[r] # NoAge /\ seen[r] <= age[r]

(***************************************************************************)
(* Without can_schedule() probes the arrival handed to Rust is the first   *)
(* sight of the request, however often upstream leaves it out of a step.   *)
(* A probe evicts the requests it does not name (scheduler.py:313), so     *)
(* with probes that is lost, but only to one side: a request may look      *)
(* younger than it is, never older.                                        *)
(***************************************************************************)
ArrivalKept == (~ probing => ArrivalIsFirstSeen) /\ NeverOlder

(* What the next call would offer, and the decision on it.                 *)
Offered == Rows(Active, ArrivalMsFor(Active))

(***************************************************************************)
(* decide_indices leaves nothing behind that could have run, "best-effort  *)
(* packing rather than stopping at the first one that does not fit"        *)
(* (decide.rs:251-253), and under the slack order "the requests admitted   *)
(* are the ones that cannot afford to wait" (decide.rs:207): what is       *)
(* paused is above a budget or kept back by a stall or the watermark, and  *)
(* no admitted generation could better afford to wait than a paused one.   *)
(***************************************************************************)
DecisionMaximal ==
  \E rows \in {Offered} : \A kv_free \in KvFree :
    LET decided == RustDecision(rows, kv_free)
        running(list) == {i \in ToSet(list) : ~ rows[i].context}
        prompts(list) == {i \in ToSet(list) : rows[i].context}
        full(cost) == \/ Len(decided.fitting) = MaxBatchSize
                      \/ decided.tokens + cost > MaxNumTokens
    IN /\ \A i \in running(decided.paused) :
            /\ \/ Cardinality(running(decided.fitting)) >= cap \/ full(1)
            /\ decode_order = "Slack" => \A j \in running(decided.fitting) :
                                    ~ LessTolerant(rows[i], rows[j])
       /\ \A i \in prompts(decided.paused) :
            \/ running(decided.paused) # {}
            \/ rows[i].done = 0 /\ kv_free < WatermarkBlocks
            \/ full(RemainingPrompt(rows[i]))
       /\ running(decided.paused) # {} => prompts(decided.fitting) = {}

(***************************************************************************)
(* "Determinism is load-bearing here (every TP rank runs this and must     *)
(* agree)" (decide.rs:167): the ids admitted and paused, and their order,  *)
(* do not depend on the order in which the requests are offered.           *)
(***************************************************************************)
RanksAgree ==
  \E rows \in {Offered} : \A kv_free \in KvFree :
    LET answer(list) == LET decided == RustDecision(list, kv_free) IN
                        <<Ids(list, decided.fitting), Ids(list, decided.paused)>>
    IN \A p \in Bijection(DOMAIN rows, DOMAIN rows) :
         answer([k \in DOMAIN rows |-> rows[p[k]]]) = answer(rows)

(***************************************************************************)
(* In live mode every request whose prompt fits one step's token budget    *)
(* runs to completion, whatever upstream offers beside it: no admitted     *)
(* generation starves the others, and a step that stalls a generation, in  *)
(* which no prompt may start (decide.rs:265), delays a prompt but does not *)
(* lose it.                                                                *)
(***************************************************************************)
LiveCompletes ==
  \A r \in Requests :
    (mode = "live" /\ request[r].phase = "context" /\ Prompt[r] <= MaxNumTokens)
      ~> request[r].phase = "complete"

(***************************************************************************)
(* What the two sides of the bridge remember of the requests: the ledger   *)
(* in Rust and the counters in Python are exact; the arrivals are exact    *)
(* without probes and never too early with them.                           *)
(***************************************************************************)
BooksExact == TypeOK /\ LedgerExact /\ CountsAddUp /\ ArrivalKept
===============================================================================
