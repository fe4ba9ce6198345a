-------------------------------- MODULE Scoring --------------------------------
(***************************************************************************)
(* How a simulated or measured window is scored: RequestOutcome::verdict   *)
(* of crates/core/src/request.rs, GoodputReport and LatencyStats of        *)
(* stats.rs, and the choice of the scored requests in Simulator::finish.   *)
(*                                                                         *)
(* An outcome is [arrival, ttft, span, out, requested]: span is the time   *)
(* from the first to the last token.  slo is [itl, ttft, target].          *)
(***************************************************************************)
EXTENDS Capacity

(* Mutant of MeanItl: the tokens are counted, and not the gaps.            *)
MeanItlOfTokens(o) == IF o.out <= 1 THEN F(0) ELSE <<o.span, o.out>>

MeanItl(o) == IF o.out <= 1 THEN F(0) ELSE <<o.span, o.out - 1>>

VerdictOf(o, slo) ==
  LET late == o.ttft > slo.ttft
      slow == Less(F(slo.itl), MeanItl(o))
  IN CASE o.out < o.requested -> "Incomplete"
       [] o.out >= o.requested /\ ~ late /\ ~ slow -> "Good"
       [] o.out >= o.requested /\ late /\ ~ slow -> "LateFirstToken"
       [] o.out >= o.requested /\ ~ late /\ slow -> "SlowTokens"
       [] o.out >= o.requested /\ late /\ slow -> "LateAndSlow"

(* The requests of a window are those that arrived in it; one that has not *)
(* finished by the end of the grace period has no outcome at all.          *)
InWindow(outcomes, window) ==
  SelectSeq(outcomes, LAMBDA o : o.arrival >= window.start /\ o.arrival < window.end)

(* Nearest rank, q in percent, of a sorted sequence.                       *)
Percentile(sorted, q) ==
  IF sorted = <<>> THEN 0
  ELSE LET rank == (q * Len(sorted) + 99) \div 100
       IN sorted[Max({1, Min({rank, Len(sorted)})})]

(* GoodputReport::from_outcomes, up to the division by the window.         *)
ReportOf(scored, slo) ==
  LET n(v) == Cardinality({k \in 1 .. Len(scored) : VerdictOf(scored[k], slo) = v})
      ttfts == SortSeq([k \in 1 .. Len(scored) |-> scored[k].ttft], <)
      good == SelectSeq(scored, LAMBDA o : VerdictOf(o, slo) = "Good")
  IN [total |-> Len(scored), good |-> n("Good"), late |-> n("LateFirstToken"),
      slow |-> n("SlowTokens"), both |-> n("LateAndSlow"),
      incomplete |-> n("Incomplete"),
      good_tokens |-> FoldLeft(LAMBDA sum, o : sum + o.out, 0, good),
      p50 |-> Percentile(ttfts, 50), p99 |-> Percentile(ttfts, 99),
      passed |-> Len(scored) > 0 /\ ~ Less(<<n("Good"), Len(scored)>>, slo.target)]
===============================================================================
