----------------------------- MODULE ItlController -----------------------------
(***************************************************************************)
(* The AIMD controller over the decode concurrency cap, ItlController of   *)
(* crates/sched/src/decode.rs.  The controller is a record and each method *)
(* an operator on it, so that DecodeScheduler can own one.                 *)
(*                                                                         *)
(* The cap is a fixed-point number, in units of 1/Unit, rounded down; the  *)
(* comparisons made with it are exact.  A latency is a level: an order-    *)
(* preserving image of the milliseconds in which a level below LowLevel is *)
(* under the low water mark and one of HighLevel or more is over the high  *)
(* one.  An average of two latencies lies between them, and that is all    *)
(* that is assumed of the EWMA.                                            *)
(***************************************************************************)
EXTENDS Integers

CONSTANTS
  MinCap, MaxCap,      \* min_cap and max_cap
  Unit,                \* the resolution of the cap
  MaxLevel,            \* bound: the highest latency level
  LowLevel,            \* first level not under low_water * target_ms
  HighLevel,           \* first level over high_water * target_ms
  Warmup,              \* observations before steering (8)
  ProbeWindow          \* probe_window (15)

ASSUME ControllerAssumption ==
  /\ MinCap \in Nat \ {0} /\ MaxCap \in Nat /\ MinCap <= MaxCap
  /\ Unit \in Nat \ {0}
  /\ MaxLevel \in Nat /\ LowLevel \in Nat /\ HighLevel \in Nat
  /\ LowLevel <= HighLevel /\ HighLevel <= MaxLevel
  /\ Warmup \in Nat \ {0} /\ ProbeWindow \in Nat \ {0}

Level == 0 .. MaxLevel
NoLevel == MaxLevel + 1     \* f64::INFINITY in ewma_at_decrease
Floor == MinCap * Unit
Ceiling == MaxCap * Unit

(* samples is only ever compared with 1 and Warmup, and saturates there.   *)
Controller ==
  [cap : Floor .. Ceiling, ewma : Level, samples : 0 .. Warmup,
   not_binding : BOOLEAN, at_decrease : Level \cup {NoLevel},
   since_decrease : 0 .. ProbeWindow - 1]

(* ItlController::new with an initial cap, which is clamped.               *)
NewController(initial) ==
  [cap |-> IF initial < Floor THEN Floor
           ELSE IF initial > Ceiling THEN Ceiling ELSE initial,
   ewma |-> 0, samples |-> 0, not_binding |-> FALSE,
   at_decrease |-> NoLevel, since_decrease |-> 0]

NoProbe(c) == [c EXCEPT !.at_decrease = NoLevel, !.since_decrease = 0]

(* Mutant of Decreased: the floor is forgotten.                            *)
DecreasedUnfloored(cap) == (9 * cap) \div 10

(* decrease_factor = 0.9, not below min_cap.                               *)
Decreased(cap) ==
  LET d == (9 * cap) \div 10 IN IF d < Floor THEN Floor ELSE d

(* Mutant of GiveUp: the probe that led to it is kept.                     *)
GiveUpProbing(c) == [c EXCEPT !.not_binding = TRUE, !.cap = Ceiling]

(* give_up(): stop steering and restore the cap.                           *)
GiveUp(c) == [NoProbe(c) EXCEPT !.not_binding = TRUE, !.cap = Ceiling]

(* back_off(), which does not consult concurrency_not_binding.             *)
BackOff(c) == [c EXCEPT !.cap = Decreased(@)]

(* The EWMA after one more observation: the first one, or some average.    *)
Averages(c, itl) ==
  IF c.samples = 0 THEN {itl}
  ELSE {e \in Level : \/ c.ewma <= e /\ e <= itl
                      \/ itl <= e /\ e <= c.ewma}

Sampled(c, e) ==
  [c EXCEPT !.ewma = e, !.samples = IF @ < Warmup THEN @ + 1 ELSE @]

(* Under the low water mark again: resume steering.                        *)
Resumed(c) ==
  IF c.not_binding /\ c.ewma < LowLevel
    THEN [NoProbe(c) EXCEPT !.not_binding = FALSE] ELSE c

(* One more observation over the high water mark in the current probe.     *)
Probed(c) ==
  [c EXCEPT !.at_decrease = IF @ = NoLevel THEN c.ewma ELSE @,
            !.since_decrease = IF c.at_decrease = NoLevel THEN 1 ELSE @ + 1]

(* The multiplicative decrease, from what is running, and the giving up    *)
(* at the floor (cap <= 1.01 * min_cap).                                   *)
Shed(c, n) ==
  LET binding == IF n > 0 /\ n * Unit < c.cap THEN n * Unit ELSE c.cap
      d == [c EXCEPT !.cap = Decreased(binding)]
  IN IF 100 * d.cap <= 101 * Floor THEN GiveUp(d) ELSE d

(* Whether a full probe window bought 2 %: only a level that did not rise  *)
(* can have improved.                                                      *)
Verdicts(c) == IF c.ewma <= c.at_decrease THEN BOOLEAN ELSE {FALSE}

OverTarget(c, n) ==
  IF c.not_binding THEN {c}
  ELSE LET p == Probed(c) IN
       IF p.since_decrease < ProbeWindow THEN {Shed(p, n)}
       ELSE {IF improved
               THEN Shed([p EXCEPT !.at_decrease = p.ewma,
                                   !.since_decrease = 0], n)
               ELSE GiveUp(p) : improved \in Verdicts(p)}

(* Mutant of UnderTarget: the utilisation gate is dropped.                 *)
UnderTargetUngated(c, n) ==
  [NoProbe(c) EXCEPT
    !.cap = IF c.cap + Unit < Ceiling THEN c.cap + Unit ELSE Ceiling]

(* The additive increase, if the batch fills 0.9 of the cap.               *)
UnderTarget(c, n) ==
  IF 10 * n * Unit >= 9 * c.cap
    THEN [NoProbe(c) EXCEPT
           !.cap = IF c.cap + Unit < Ceiling THEN c.cap + Unit ELSE Ceiling]
    ELSE c

(* observe(itl, n): every controller it can leave behind.                  *)
Steered(c, n) ==
  IF c.ewma >= HighLevel THEN OverTarget(c, n)
  ELSE {IF c.ewma < LowLevel THEN UnderTarget(c, n) ELSE c}

Observed(c, itl, n) ==
  UNION {LET s == Sampled(c, e) IN
         IF s.samples < Warmup THEN {s} ELSE Steered(Resumed(s), n)
         : e \in Averages(c, itl)}
===============================================================================
