---------------------------- MODULE DecodeScheduler ----------------------------
(***************************************************************************)
(* DecodeScheduler of crates/sched/src/decode.rs: which sequences decode,  *)
(* whether one more may start, and what each report of the engine does to  *)
(* the books and to the concurrency cap.                                   *)
(*                                                                         *)
(* The engine is the authority on which sequences advanced and finished,   *)
(* so its reports are arbitrary sets of ids.  A report that a sequence     *)
(* finished may be about one that is no longer (or not yet) running; a     *)
(* token of such a sequence is ignored.  Times are kept as ages.           *)
(***************************************************************************)
EXTENDS ItlController, FiniteSets

CONSTANTS
  Req,          \* sequence ids
  Budget,       \* requested_tokens of a sequence
  PerStep,      \* tokens_per_step
  MaxReports    \* bound: finished reports for unknown sequences

ASSUME SchedulerAssumption ==
  /\ IsFiniteSet(Req)
  /\ Budget \in Nat \ {0}
  /\ PerStep \in Nat \ {0}
  /\ MaxReports \in Nat

VARIABLES
  running,        \* the running sequences, by id
  arrived,        \* ids handed to the scheduler so far
  ctl,            \* the ItlController
  flagged,        \* ids counted in finish_disagreements and still running
  disagreements,  \* finish_disagreements
  unknown,        \* unknown_finish_reports
  disputed        \* every id that was ever counted (not in the source)

vars == <<running, arrived, ctl, flagged, disagreements, unknown, disputed>>

(***************************************************************************)
(* waited is now - max(last_token_ms, admitted_ms), the age on_step steers *)
(* by, saturating at MaxLevel.                                             *)
(***************************************************************************)
RunningSeq == [emitted : 1 .. Budget, waited : Level]

(* RunningSeq::new and admit(): admitted_ms starts as first_token_ms, so   *)
(* the sequence arrives with the time its handoff took.                    *)
Taken(handoff) == [emitted |-> 1, waited |-> handoff]

(* RunningSeq::is_done.                                                    *)
IsDone(seq) == seq.emitted >= Budget

Aged(age, dt) == IF age + dt > MaxLevel THEN MaxLevel ELSE age + dt

TypeOK ==
  /\ DOMAIN running \subseteq arrived
  /\ arrived \subseteq Req
  /\ running \in [DOMAIN running -> RunningSeq]
  /\ ctl \in Controller
  /\ flagged \subseteq Req
  /\ disputed \subseteq arrived
  /\ disagreements \in Nat
  /\ unknown \in 0 .. MaxReports

Init ==
  /\ running = [r \in {} |-> 0]
  /\ arrived = {}
  /\ \E initial \in 0 .. Ceiling + 1 : ctl = NewController(initial)
  /\ flagged = {}
  /\ disagreements = 0
  /\ unknown = 0
  /\ disputed = {}

-------------------------------------------------------------------------------
Concurrency == Cardinality(DOMAIN running)

(* tightest_tolerance_ms() is finite: some sequence has tokens left.       *)
SomeoneToSpoil == \E r \in DOMAIN running : ~ IsDone(running[r])

(* Mutant of Decisions: the fold over no sequence starts at 0.             *)
DecisionsZero ==
  IF Concurrency * Unit >= ctl.cap THEN {"AtCap"}
  ELSE IF ctl.samples >= Warmup THEN {"Admit", "WouldSpoilRunning"}
  ELSE {"Admit"}

(* can_admit(true).  Whether the tightest tolerance is below the observed  *)
(* latency depends on milliseconds that levels do not keep.                *)
Decisions ==
  IF Concurrency * Unit >= ctl.cap THEN {"AtCap"}
  ELSE IF ctl.samples >= Warmup /\ SomeoneToSpoil
    THEN {"Admit", "WouldSpoilRunning"}
  ELSE {"Admit"}

(* can_admit, note and admit of a sequence whose handoff took a while.     *)
Admit(r, handoff) ==
  /\ r \in Req \ arrived
  /\ "Admit" \in Decisions
  /\ running' = [q \in DOMAIN running \cup {r} |->
                   IF q = r THEN Taken(handoff) ELSE running[q]]
  /\ arrived' = arrived \cup {r}
  /\ UNCHANGED <<ctl, flagged, disagreements, unknown, disputed>>

(* can_admit and note of a refusal that changes something: the caller      *)
(* tries again after the next step.                                        *)
RefuseToSpoil ==
  /\ arrived # Req
  /\ "WouldSpoilRunning" \in Decisions
  /\ ctl' = BackOff(ctl)
  /\ UNCHANGED <<running, arrived, flagged, disagreements, unknown, disputed>>

(* steering_itl_ms(): the ninetieth percentile of the ages, that is the    *)
(* oldest but a tenth (rounded) of the others.  None without a sequence.   *)
IsSteer(age, ages) ==
  LET n == Concurrency
      rank == (9 * (n - 1) + 5) \div 10     \* zero-based, rounded
  IN /\ \E r \in DOMAIN running : ages[r] = age
     /\ Cardinality({r \in DOMAIN running : ages[r] < age}) <= rank
     /\ Cardinality({r \in DOMAIN running : ages[r] <= age}) > rank

(* What the step does to one sequence: advanced ones gain PerStep tokens,  *)
(* up to the budget, and have their last token now.                        *)
Booked(seq, age, advanced) ==
  [emitted |-> IF ~ advanced THEN seq.emitted
               ELSE IF seq.emitted + PerStep < Budget
               THEN seq.emitted + PerStep ELSE Budget,
   waited |-> IF advanced THEN 0 ELSE age]

(* Mutant of Counted: once a step.                                         *)
CountedEachStep(overdue, left) ==
  /\ flagged' = (flagged \ left) \cup overdue
  /\ disputed' = disputed \cup overdue
  /\ disagreements' = disagreements + Cardinality(overdue)

(* The flags: entries leave with their sequence, and a sequence past its   *)
(* budget that the engine did not finish is counted when first seen.       *)
Counted(overdue, left) ==
  /\ flagged' = (flagged \ left) \cup overdue
  /\ disputed' = disputed \cup overdue
  /\ disagreements' = disagreements + Cardinality(overdue \ (flagged \ left))

(* on_step(now, step_ms, advanced, finished), dt after the previous step,  *)
(* where the finished list also names a number of unknown sequences.       *)
(* The controller observes the ages before the tokens are booked.  With    *)
(* nothing running there is no step: the worker does not call the engine.  *)
OnStep(dt, advanced, finished, strangers) ==
  LET ages == [r \in DOMAIN running |-> Aged(running[r].waited, dt)]
      booked == [r \in DOMAIN running |->
                   Booked(running[r], ages[r], r \in advanced)]
      stays == DOMAIN running \ finished
  IN /\ DOMAIN running # {}
     /\ unknown + strangers <= MaxReports
     /\ \E steer \in Level :
          /\ IsSteer(steer, ages)
          /\ \E c \in Observed(ctl, steer, Concurrency) : ctl' = c
     /\ running' = [r \in stays |-> booked[r]]
     /\ unknown' = unknown + strangers
     /\ Counted({r \in stays : IsDone(booked[r])}, finished)
     /\ UNCHANGED arrived

Next ==
  \/ \E r \in Req, handoff \in Level : Admit(r, handoff)
  \/ RefuseToSpoil
  \/ \E dt \in Level, advanced, finished \in SUBSET DOMAIN running,
        strangers \in 0 .. MaxReports :
       OnStep(dt, advanced, finished, strangers)

Spec == Init /\ [][Next]_vars

-------------------------------------------------------------------------------
(***************************************************************************)
(* An idle scheduler always takes a sequence for which there is KV: the    *)
(* cap never falls below one sequence, whatever latencies were observed    *)
(* and however often an admission was refused, and nobody is left to       *)
(* spoil.  The worker relies on it: it spins while it cannot admit.        *)
(***************************************************************************)
IdleAdmits == DOMAIN running = {} => Decisions = {"Admit"}

(***************************************************************************)
(* "Counted once per *sequence*, not once per step" (decode.rs:391) and    *)
(* "Bounded by concurrency: entries leave when the sequence is retired"    *)
(* (decode.rs:397).                                                        *)
(***************************************************************************)
CountedOncePerSequence ==
  /\ disagreements = Cardinality(disputed)
  /\ flagged = disputed \cap DOMAIN running

(***************************************************************************)
(* While the controller has given up steering no probe is open, so that    *)
(* the window that may make it give up again starts afresh; and an open    *)
(* probe has not yet run its window.                                       *)
(***************************************************************************)
GivenUpClosesProbe ==
  /\ ctl.at_decrease = NoLevel => ctl.since_decrease = 0
  /\ ctl.not_binding => ctl.at_decrease = NoLevel

(***************************************************************************)
(* The cap grows only for a batch that nearly fills it, by at most one     *)
(* sequence, or all the way up when the controller gives up steering.      *)
(* While it has given up, no report of the engine moves the cap.  What     *)
(* still moves it is a refusal to spoil a running sequence: back_off()     *)
(* (decode.rs:332) decreases the cap without asking whether concurrency    *)
(* binds, although the comment on give_up() (decode.rs:321) has the cap    *)
(* stay where it is until the budget is reachable again.                   *)
(***************************************************************************)
CapGrowsWhenFilled ==
  [][/\ ctl'.cap > ctl.cap =>
          \/ ctl'.not_binding /\ ~ ctl.not_binding
          \/ /\ 10 * Concurrency * Unit >= 9 * ctl.cap
             /\ ctl'.cap <= ctl.cap + Unit
     /\ ctl.not_binding /\ ctl'.not_binding =>
          \/ ctl'.cap = ctl.cap
          \/ /\ "WouldSpoilRunning" \in Decisions
             /\ UNCHANGED running
             /\ ctl'.cap = Decreased(ctl.cap)]_vars

(***************************************************************************)
(* The cap keeps its bounds through every decrease, probe and recovery, so *)
(* that a scheduler with nothing running always takes the next sequence.   *)
(***************************************************************************)
CapSound == TypeOK /\ IdleAdmits

(***************************************************************************)
(* Nothing is left open behind a sequence or a mode of the controller: no  *)
(* flag and no count of a retired sequence, and no probe.                  *)
(***************************************************************************)
NothingLeftOpen == CountedOncePerSequence /\ GivenUpClosesProbe
===============================================================================
