--------------------------- MODULE CapacityDecision ---------------------------
(***************************************************************************)
(* The admission decision of one scheduling step, decide_indices of        *)
(* crates/pyext/src/decide.rs: which of the offered requests run in this   *)
(* step, generation first, then context into what is left.                 *)
(*                                                                         *)
(* The flat arrays are one sequence of rows.  An arrival time is kept as   *)
(* the age it stands for, now_ms - arrival_ms, which is what both orders   *)
(* compare.                                                                *)
(***************************************************************************)
EXTENDS Integers, Sequences, SequencesExt

CONSTANTS
  MaxBatchSize,        \* max_batch_size
  MaxNumTokens,        \* max_num_tokens
  ItlBudget,           \* itl_budget_ms, in units of the age
  WatermarkBlocks      \* kv_watermark_blocks

ASSUME DecisionAssumption ==
  /\ MaxBatchSize \in Nat \ {0} /\ MaxNumTokens \in Nat \ {0}
  /\ ItlBudget \in Nat /\ WatermarkBlocks \in Nat

Orders == {"Arrival", "Slack"}     \* DecodeOrder

Gaps(tokens) == IF tokens > 0 THEN tokens - 1 ELSE 0

RemainingGaps(row) == Gaps(row.max_new) - Gaps(row.generated)

(* tolerable_itl_ms(p) < tolerable_itl_ms(q), the quotients compared by    *)
(* cross-multiplication; nothing remaining tolerates everything.           *)
LessTolerant(p, q) ==
  LET credit(row) == ItlBudget * Gaps(row.max_new) - row.age IN
  /\ RemainingGaps(p) > 0
  /\ RemainingGaps(q) > 0 =>
       credit(p) * RemainingGaps(q) < credit(q) * RemainingGaps(p)

ByArrivalThenId(p, q) == p.age > q.age \/ (p.age = q.age /\ p.id < q.id)

BySlack(p, q) ==
  LessTolerant(p, q) \/ (~ LessTolerant(q, p) /\ p.id < q.id)

(* sort_by: the elements of S, each before those that should follow it.    *)
Sorted(S, before(_, _)) ==
  CHOOSE s \in [1 .. Cardinality(S) -> S] :
    \A i, j \in DOMAIN s : i < j => before(s[i], s[j])

(* Mutant of Candidates: ties are broken by position.                      *)
CandidatesStable(rows, inflight, context, order) ==
  Sorted({i \in 1 .. Len(rows) : /\ rows[i].id \notin inflight
                                 /\ rows[i].context = context},
         LAMBDA i, j : \/ LessTolerant(rows[i], rows[j])
                       \/ ~ LessTolerant(rows[j], rows[i]) /\ i < j)

(* The indices of the candidates of one phase, in the order they are tried.*)
Candidates(rows, inflight, context, order) ==
  Sorted({i \in 1 .. Len(rows) : /\ rows[i].id \notin inflight
                                 /\ rows[i].context = context},
         LAMBDA i, j : IF order = "Slack" THEN BySlack(rows[i], rows[j])
                       ELSE ByArrivalThenId(rows[i], rows[j]))

NothingDecided == [fitting |-> <<>>, paused |-> <<>>, tokens |-> 0]

(* One candidate is admitted if the batch and token budgets and its own    *)
(* condition allow, and paused if not; the later ones are still tried.     *)
Try(decided, i, cost, allowed) ==
  IF /\ allowed
     /\ Len(decided.fitting) < MaxBatchSize
     /\ decided.tokens + cost <= MaxNumTokens
    THEN [decided EXCEPT !.fitting = Append(@, i), !.tokens = @ + cost]
    ELSE [decided EXCEPT !.paused = Append(@, i)]

RemainingPrompt(row) == IF row.prompt > row.done THEN row.prompt - row.done ELSE 0

(* Generation: one token each, up to the controller's cap.                 *)
DecideGeneration(rows, inflight, order, cap) ==
  LET tried == Candidates(rows, inflight, FALSE, order)
      after[k \in 0 .. Len(tried)] ==
        IF k = 0 THEN NothingDecided
        ELSE LET decided == after[k - 1] IN
             Try(decided, tried[k], 1, Len(decided.fitting) < cap)
  IN after[Len(tried)]

(* A context request does not start in a step that stalls a running one,   *)
(* nor a fresh one below the watermark.                                    *)
MayStart(row, stalled, kv_free) ==
  ~ stalled /\ (row.done = 0 => kv_free >= WatermarkBlocks)

(* Mutant of Decide: the scan stops at the first prompt that does not fit. *)
DecideInOrder(rows, inflight, order, cap, kv_free) ==
  LET generation == DecideGeneration(rows, inflight, order, cap)
      stalled == generation.paused # <<>>
      tried == Candidates(rows, inflight, TRUE, "Arrival")
      after[k \in 0 .. Len(tried)] ==
        IF k = 0 THEN generation
        ELSE LET decided == after[k - 1] IN
             Try(decided, tried[k], RemainingPrompt(rows[tried[k]]),
                 /\ MayStart(rows[tried[k]], stalled, kv_free)
                 /\ decided.paused = <<>>)
  IN after[Len(tried)]

(* decide_indices: generation first, then the prompts into what is left.   *)
(* The fitting and the paused indices, and the tokens charged.             *)
Decide(rows, inflight, order, cap, kv_free) ==
  LET generation == DecideGeneration(rows, inflight, order, cap)
      stalled == generation.paused # <<>>
      tried == Candidates(rows, inflight, TRUE, "Arrival")
      after[k \in 0 .. Len(tried)] ==
        IF k = 0 THEN generation
        ELSE Try(after[k - 1], tried[k], RemainingPrompt(rows[tried[k]]),
                 MayStart(rows[tried[k]], stalled, kv_free))
  IN after[Len(tried)]

(* The ids at the decided indices.                                         *)
Ids(rows, indices) == [k \in 1 .. Len(indices) |-> rows[indices[k]].id]
===============================================================================
