------------------------- MODULE DecodeSchedulerProofs -------------------------
(***************************************************************************)
(* Proofs about DecodeScheduler and the controller it owns, for every      *)
(* range of the cap, every latency scale and every set of sequences.       *)
(***************************************************************************)
EXTENDS DecodeScheduler, FiniteSetTheorems, TLAPS

(* The controller's own invariant: its type and GivenUpClosesProbe.        *)
CtlOK(c) ==
  /\ c \in Controller
  /\ c.at_decrease = NoLevel => c.since_decrease = 0
  /\ c.not_binding => c.at_decrease = NoLevel

IInv == TypeOK /\ CtlOK(ctl) /\ CountedOncePerSequence

(* The bounds of the cap, and that one sequence fits under the lower one.  *)
LEMMA CapBounds ==
  /\ Floor \in Nat /\ Ceiling \in Nat /\ Unit \in Nat
  /\ 0 < Unit /\ Unit <= Floor /\ Floor <= Ceiling
<1>1. MinCap \in Nat /\ MinCap >= 1 /\ MaxCap \in Nat /\ MinCap <= MaxCap
        /\ Unit \in Nat /\ Unit >= 1
  BY ControllerAssumption DEF ControllerAssumption
<1>2. Unit <= MinCap * Unit
  BY <1>1
<1>3. MinCap * Unit <= MaxCap * Unit
  BY <1>1
<1> QED  BY <1>1, <1>2, <1>3 DEF Floor, Ceiling

(* A decrease stays between the floor and what it started from.            *)
LEMMA DecreasedBounds ==
  ASSUME NEW cap \in Nat, cap <= Ceiling
  PROVE  Decreased(cap) \in Floor .. Ceiling
<1> DEFINE d == (9 * cap) \div 10
<1>1. d \in Nat /\ d <= cap
  OBVIOUS
<1>2. Decreased(cap) = IF d < Floor THEN Floor ELSE d
  BY DEF Decreased
<1> HIDE DEF d
<1> QED  BY <1>1, <1>2, CapBounds

(* Levels and the value that stands for no level.                          *)
LEMMA Levels ==
  /\ MaxLevel \in Nat /\ LowLevel \in Nat /\ HighLevel \in Nat
  /\ NoLevel \notin Level
  /\ ProbeWindow \in Nat /\ ProbeWindow >= 1 /\ Warmup \in Nat /\ Warmup >= 1
BY ControllerAssumption DEF ControllerAssumption, NoLevel, Level

(* Writing the cap alone keeps the invariant.                              *)
LEMMA SetCap ==
  ASSUME NEW c, CtlOK(c), NEW cap \in Floor .. Ceiling
  PROVE  CtlOK([c EXCEPT !.cap = cap])
BY DEF CtlOK, Controller

LEMMA BackOffOK ==
  ASSUME NEW c, CtlOK(c)
  PROVE  CtlOK(BackOff(c))
<1>1. c.cap \in Nat /\ c.cap <= Ceiling
  BY CapBounds DEF CtlOK, Controller
<1>2. Decreased(c.cap) \in Floor .. Ceiling
  BY <1>1, DecreasedBounds
<1>3. BackOff(c) = [c EXCEPT !.cap = Decreased(c.cap)]
  BY DEF BackOff
<1> QED  BY <1>2, <1>3, SetCap

(* A controller in the middle of observe(), whose window may be full.      *)
Probing ==
  [cap : Floor .. Ceiling, ewma : Level, samples : 0 .. Warmup,
   not_binding : BOOLEAN, at_decrease : Level \cup {NoLevel},
   since_decrease : 0 .. ProbeWindow]

LEMMA ControllerIsProbing ==
  ASSUME NEW c \in Controller
  PROVE  c \in Probing
BY Levels DEF Controller, Probing

LEMMA NoProbeOK ==
  ASSUME NEW c \in Probing
  PROVE  /\ NoProbe(c) \in Controller
         /\ NoProbe(c).at_decrease = NoLevel
         /\ NoProbe(c).since_decrease = 0
         /\ NoProbe(c).cap = c.cap
<1>1. NoProbe(c) = [c EXCEPT !.at_decrease = NoLevel, !.since_decrease = 0]
  BY DEF NoProbe
<1>2. 0 \in 0 .. ProbeWindow - 1
  BY Levels
<1> HIDE DEF NoLevel
<1> QED  BY <1>1, <1>2 DEF Probing, Controller

LEMMA GiveUpOK ==
  ASSUME NEW c \in Probing
  PROVE  CtlOK(GiveUp(c))
<1> DEFINE d == NoProbe(c)
<1>1. /\ d \in Controller /\ d.at_decrease = NoLevel
      /\ d.since_decrease = 0
  BY NoProbeOK
<1>2. GiveUp(c) = [d EXCEPT !.not_binding = TRUE, !.cap = Ceiling]
  BY DEF GiveUp
<1>3. Ceiling \in Floor .. Ceiling
  BY CapBounds
<1> HIDE DEF d, Ceiling
<1>4. GiveUp(c) \in Controller
  BY <1>1, <1>2, <1>3 DEF Controller
<1>5. /\ GiveUp(c).at_decrease = NoLevel
      /\ GiveUp(c).since_decrease = 0
  BY <1>1, <1>2 DEF Controller
<1> QED  BY <1>4, <1>5 DEF CtlOK

LEMMA ShedOK ==
  ASSUME NEW c, CtlOK(c), NEW n \in Nat
  PROVE  CtlOK(Shed(c, n))
<1> DEFINE binding == IF n > 0 /\ n * Unit < c.cap THEN n * Unit ELSE c.cap
           d == [c EXCEPT !.cap = Decreased(binding)]
<1>1. c.cap \in Nat /\ c.cap <= Ceiling /\ n * Unit \in Nat
  BY CapBounds DEF CtlOK, Controller
<1>2. binding \in Nat /\ binding <= Ceiling
  BY <1>1, CapBounds
<1>3. CtlOK(d)
  BY <1>2, DecreasedBounds, SetCap
<1>4. Shed(c, n) = IF 100 * d.cap <= 101 * Floor THEN GiveUp(d) ELSE d
  BY DEF Shed
<1>5. CtlOK(GiveUp(d))
  BY <1>3, GiveUpOK, ControllerIsProbing DEF CtlOK
<1> HIDE DEF d
<1> QED  BY <1>3, <1>4, <1>5

LEMMA ProbedOK ==
  ASSUME NEW c, CtlOK(c), ~ c.not_binding
  PROVE  /\ Probed(c) \in Probing
         /\ Probed(c).at_decrease \in Level
         /\ Probed(c).since_decrease >= 1
         /\ ~ Probed(c).not_binding
         /\ Probed(c).ewma \in Level
<1> DEFINE a == IF c.at_decrease = NoLevel THEN c.ewma ELSE c.at_decrease
           n == IF c.at_decrease = NoLevel THEN 1 ELSE c.since_decrease + 1
<1>1. a \in Level
  BY DEF CtlOK, Controller
<1>2. n \in 0 .. ProbeWindow /\ n >= 1
  BY Levels DEF CtlOK, Controller
<1>3. Probed(c) = [c EXCEPT !.at_decrease = a, !.since_decrease = n]
  BY DEF Probed
<1> HIDE DEF a, n
<1> QED  BY <1>1, <1>2, <1>3 DEF CtlOK, Controller, Probing

LEMMA OverTargetOK ==
  ASSUME NEW c, CtlOK(c), NEW n \in Nat, NEW d \in OverTarget(c, n)
  PROVE  CtlOK(d)
<1>1. CASE c.not_binding
  BY <1>1 DEF OverTarget
<1>2. CASE ~ c.not_binding
  <2> DEFINE p == Probed(c)
             q == [p EXCEPT !.at_decrease = p.ewma, !.since_decrease = 0]
  <2>1. /\ p \in Probing /\ p.at_decrease \in Level /\ ~ p.not_binding
        /\ p.since_decrease >= 1 /\ p.ewma \in Level
    BY <1>2, ProbedOK
  <2>2. \/ p.since_decrease < ProbeWindow /\ d = Shed(p, n)
        \/ d = Shed(q, n)
        \/ d = GiveUp(p)
    BY <1>2 DEF OverTarget
  <2>3. p.since_decrease < ProbeWindow => CtlOK(p)
    <3> HIDE DEF p
    <3> QED  BY <2>1, Levels DEF CtlOK, Probing, Controller
  <2>4. CtlOK(q)
    <3> HIDE DEF p
    <3>1. 0 \in 0 .. ProbeWindow - 1
      BY Levels
    <3>2. /\ q \in Controller /\ q.since_decrease = 0
          /\ q.not_binding = p.not_binding
      BY <2>1, <3>1 DEF Probing, Controller
    <3> HIDE DEF q
    <3> QED  BY <2>1, <3>2 DEF CtlOK
  <2> HIDE DEF p, q
  <2> QED  BY <2>1, <2>2, <2>3, <2>4, ShedOK, GiveUpOK
<1> QED  BY <1>1, <1>2

LEMMA UnderTargetOK ==
  ASSUME NEW c, CtlOK(c), NEW n \in Nat
  PROVE  CtlOK(UnderTarget(c, n))
<1> DEFINE up == IF c.cap + Unit < Ceiling THEN c.cap + Unit ELSE Ceiling
           d == NoProbe(c)
<1>1. up \in Floor .. Ceiling
  BY CapBounds DEF CtlOK, Controller
<1>2. d \in Controller /\ d.at_decrease = NoLevel /\ d.since_decrease = 0
  BY NoProbeOK, ControllerIsProbing DEF CtlOK
<1>3. CtlOK(d)
  BY <1>2 DEF CtlOK
<1>4. \/ UnderTarget(c, n) = c
      \/ UnderTarget(c, n) = [d EXCEPT !.cap = up]
  BY DEF UnderTarget
<1> HIDE DEF d, up
<1> QED  BY <1>1, <1>3, <1>4, SetCap

LEMMA ResumedOK ==
  ASSUME NEW c, CtlOK(c)
  PROVE  CtlOK(Resumed(c))
<1> DEFINE d == NoProbe(c)
<1>1. d \in Controller /\ d.at_decrease = NoLevel /\ d.since_decrease = 0
  BY NoProbeOK, ControllerIsProbing DEF CtlOK
<1>2. Resumed(c) = c \/ Resumed(c) = [d EXCEPT !.not_binding = FALSE]
  BY DEF Resumed
<1> HIDE DEF d
<1> QED  BY <1>1, <1>2 DEF CtlOK, Controller

LEMMA SampledOK ==
  ASSUME NEW c, CtlOK(c), NEW e \in Level
  PROVE  CtlOK(Sampled(c, e))
<1> DEFINE n == IF c.samples < Warmup THEN c.samples + 1 ELSE c.samples
<1>1. n \in 0 .. Warmup
  BY Levels DEF CtlOK, Controller
<1>2. Sampled(c, e) = [c EXCEPT !.ewma = e, !.samples = n]
  BY DEF Sampled
<1> HIDE DEF n
<1> QED  BY <1>1, <1>2 DEF CtlOK, Controller

(***************************************************************************)
(* Whatever observe() makes of an observation keeps the controller's       *)
(* invariant, the cap between its bounds in particular.                    *)
(***************************************************************************)
LEMMA ObservedOK ==
  ASSUME NEW c, CtlOK(c), NEW itl \in Level, NEW n \in Nat,
         NEW d \in Observed(c, itl, n)
  PROVE  CtlOK(d)
<1>1. PICK e \in Averages(c, itl) :
        d \in LET s == Sampled(c, e) IN
              IF s.samples < Warmup THEN {s} ELSE Steered(Resumed(s), n)
  BY DEF Observed
<1>2. e \in Level
  BY DEF Averages
<1>3. CtlOK(Sampled(c, e)) /\ CtlOK(Resumed(Sampled(c, e)))
  BY <1>2, SampledOK, ResumedOK
<1>4. \/ d = Sampled(c, e)
      \/ d \in Steered(Resumed(Sampled(c, e)), n)
  BY <1>1
<1> DEFINE s == Resumed(Sampled(c, e))
<1>5. ASSUME d \in Steered(s, n) PROVE CtlOK(d)
  <2>1. d \in OverTarget(s, n) \/ d = UnderTarget(s, n) \/ d = s
    BY <1>5 DEF Steered
  <2> HIDE DEF s
  <2> QED  BY <1>3, <2>1, OverTargetOK, UnderTargetOK DEF s
<1> QED  BY <1>3, <1>4, <1>5

(* Ages are levels, and a step books at most the budget.                   *)
LEMMA BookedOK ==
  ASSUME NEW seq \in RunningSeq, NEW age \in Level,
         NEW advanced \in BOOLEAN
  PROVE  Booked(seq, age, advanced) \in RunningSeq
<1> DEFINE n == IF ~ advanced THEN seq.emitted
                ELSE IF seq.emitted + PerStep < Budget
                THEN seq.emitted + PerStep ELSE Budget
           w == IF advanced THEN 0 ELSE age
<1>1. n \in 1 .. Budget
  BY SchedulerAssumption DEF SchedulerAssumption, RunningSeq
<1>2. w \in Level
  BY Levels DEF Level
<1>3. Booked(seq, age, advanced)
        = [emitted |-> n, waited |-> w]
  BY DEF Booked
<1> HIDE DEF n, w
<1> QED  BY <1>1, <1>2, <1>3 DEF RunningSeq

-------------------------------------------------------------------------------
(***************************************************************************)
(* The inductive invariant of the scheduler.                               *)
(***************************************************************************)
THEOREM InductiveInvariant == Spec => []IInv
<1> USE DEF IInv
<1>1. Init => IInv
  <2> SUFFICES ASSUME Init PROVE IInv
    OBVIOUS
  <2>1. PICK initial \in 0 .. Ceiling + 1 : ctl = NewController(initial)
    BY DEF Init
  <2>2. CtlOK(ctl)
    <3> DEFINE cap == IF initial < Floor THEN Floor
                      ELSE IF initial > Ceiling THEN Ceiling ELSE initial
    <3>1. cap \in Floor .. Ceiling
      BY <2>1, CapBounds
    <3>2. 0 \in Level /\ 0 \in 0 .. Warmup /\ 0 \in 0 .. ProbeWindow - 1
      BY Levels DEF Level
    <3>3. ctl = [cap |-> cap, ewma |-> 0, samples |-> 0, not_binding |-> FALSE,
                 at_decrease |-> NoLevel, since_decrease |-> 0]
      BY <2>1 DEF NewController
    <3> HIDE DEF cap
    <3> QED  BY <3>1, <3>2, <3>3 DEF CtlOK, Controller
  <2>3. /\ DOMAIN running = {} /\ running \in [DOMAIN running -> RunningSeq]
        /\ arrived = {} /\ flagged = {} /\ disputed = {}
        /\ disagreements = 0 /\ unknown = 0
    BY DEF Init
  <2>4. TypeOK
    BY <2>2, <2>3, SchedulerAssumption
       DEF TypeOK, CtlOK, SchedulerAssumption
  <2>5. CountedOncePerSequence
    BY <2>3, FS_EmptySet DEF CountedOncePerSequence
  <2> QED  BY <2>2, <2>4, <2>5
<1>2. IInv /\ [Next]_vars => IInv'
  <2> SUFFICES ASSUME IInv, [Next]_vars PROVE IInv'
    OBVIOUS
  <2>t. /\ DOMAIN running \subseteq arrived /\ arrived \subseteq Req
        /\ running \in [DOMAIN running -> RunningSeq]
        /\ flagged \subseteq Req /\ disputed \subseteq arrived
        /\ disagreements \in Nat /\ unknown \in 0 .. MaxReports
        /\ disagreements = Cardinality(disputed)
        /\ flagged = disputed \cap DOMAIN running
        /\ CtlOK(ctl) /\ MaxReports \in Nat
    BY SchedulerAssumption
       DEF TypeOK, CountedOncePerSequence, SchedulerAssumption
  <2>1. ASSUME NEW r \in Req, NEW handoff \in Level, Admit(r, handoff)
        PROVE  IInv'
    <3>1. /\ r \notin arrived /\ arrived' = arrived \cup {r}
          /\ running' = [q \in DOMAIN running \cup {r} |->
                           IF q = r THEN Taken(handoff) ELSE running[q]]
          /\ UNCHANGED <<ctl, flagged, disagreements, unknown, disputed>>
      BY <2>1 DEF Admit
    <3>2. Taken(handoff) \in RunningSeq
      BY SchedulerAssumption, Levels
         DEF Taken, RunningSeq, SchedulerAssumption, Level
    <3>3. /\ DOMAIN running' = DOMAIN running \cup {r}
          /\ running' \in [DOMAIN running' -> RunningSeq]
      BY <2>t, <3>1, <3>2
    <3>4. r \notin disputed
      BY <2>t, <3>1
    <3> QED
      BY <2>t, <3>1, <3>3, <3>4
         DEF TypeOK, CtlOK, CountedOncePerSequence
  <2>2. CASE RefuseToSpoil
    <3>1. /\ ctl' = BackOff(ctl)
          /\ UNCHANGED <<running, arrived, flagged, disagreements, unknown,
                         disputed>>
      BY <2>2 DEF RefuseToSpoil
    <3>2. CtlOK(ctl')
      BY <2>t, <3>1, BackOffOK
    <3> QED
      BY <2>t, <3>1, <3>2 DEF TypeOK, CtlOK, CountedOncePerSequence
  <2>3. ASSUME NEW dt \in Level, NEW advanced \in SUBSET DOMAIN running,
               NEW finished \in SUBSET DOMAIN running,
               NEW strangers \in 0 .. MaxReports,
               OnStep(dt, advanced, finished, strangers)
        PROVE  IInv'
    <3> DEFINE ages == [r \in DOMAIN running |-> Aged(running[r].waited, dt)]
               booked == [r \in DOMAIN running |->
                            Booked(running[r], ages[r], r \in advanced)]
               stays == DOMAIN running \ finished
               overdue == {r \in stays : IsDone(booked[r])}
               fresh == overdue \ (flagged \ finished)
    <3>1. /\ unknown + strangers <= MaxReports
          /\ unknown' = unknown + strangers
          /\ running' = [r \in stays |-> booked[r]]
          /\ Counted(overdue, finished)
          /\ arrived' = arrived
      BY <2>3 DEF OnStep
    <3>2. \E steer \in Level : ctl' \in Observed(ctl, steer, Concurrency)
      BY <2>3 DEF OnStep
    <3>3. IsFiniteSet(DOMAIN running) /\ Concurrency \in Nat
      BY <2>t, SchedulerAssumption, FS_Subset, FS_CardinalityType
         DEF SchedulerAssumption, Concurrency
    <3>4. CtlOK(ctl')
      BY <2>t, <3>2, <3>3, ObservedOK
    <3>5. \A r \in DOMAIN running : booked[r] \in RunningSeq
      <4> SUFFICES ASSUME NEW r \in DOMAIN running
                   PROVE  booked[r] \in RunningSeq
        OBVIOUS
      <4>1. running[r] \in RunningSeq /\ ages[r] \in Level
        BY <2>t, Levels DEF Aged, Level, RunningSeq
      <4>2. booked[r] = Booked(running[r], ages[r], r \in advanced)
        OBVIOUS
      <4>3. (r \in advanced) \in BOOLEAN
        OBVIOUS
      <4> HIDE DEF booked, ages
      <4> QED  BY <4>1, <4>2, <4>3, BookedOK
    <3>6. DOMAIN running' = stays /\ running' \in [DOMAIN running' -> RunningSeq]
      BY <3>1, <3>5
    <3>7. /\ flagged' = (flagged \ finished) \cup overdue
          /\ disputed' = disputed \cup overdue
          /\ disagreements' = disagreements + Cardinality(fresh)
      BY <3>1 DEF Counted
    <3> HIDE DEF booked, ages, overdue
    <3>8. overdue \subseteq stays
      BY DEF overdue
    <3>9. /\ disputed' = disputed \cup fresh /\ disputed \cap fresh = {}
          /\ flagged' = disputed' \cap DOMAIN running'
      BY <2>t, <3>6, <3>7, <3>8
    <3>10. IsFiniteSet(fresh) /\ IsFiniteSet(disputed)
      BY <2>t, <3>3, <3>8, FS_Subset, SchedulerAssumption
         DEF SchedulerAssumption
    <3>11. Cardinality(fresh) \in Nat /\ Cardinality(disputed \cap fresh) = 0
      BY <3>9, <3>10, FS_CardinalityType, FS_EmptySet
    <3>12. disagreements' = Cardinality(disputed')
      BY <2>t, <3>7, <3>9, <3>10, <3>11, FS_Union
    <3>13. CountedOncePerSequence'
      BY <3>9, <3>12 DEF CountedOncePerSequence
    <3>14. TypeOK'
      <4>1. unknown' \in 0 .. MaxReports /\ disagreements' \in Nat
        BY <2>t, <3>1, <3>7, <3>11
      <4>2. /\ DOMAIN running' \subseteq arrived' /\ arrived' \subseteq Req
            /\ flagged' \subseteq Req /\ disputed' \subseteq arrived'
        BY <2>t, <3>1, <3>6, <3>7, <3>8
      <4> QED  BY <3>4, <3>6, <4>1, <4>2 DEF TypeOK, CtlOK
    <3> QED  BY <3>4, <3>13, <3>14
  <2>4. CASE UNCHANGED vars
    BY <2>t, <2>4 DEF vars, TypeOK, CtlOK, CountedOncePerSequence
  <2> QED
    BY <2>1, <2>2, <2>3, <2>4 DEF Next
<1> QED  BY <1>1, <1>2, PTL DEF Spec

(***************************************************************************)
(* The cap stays between min_cap and max_cap, and the books keep types.    *)
(***************************************************************************)
THEOREM TypeCorrect == Spec => []TypeOK
<1>1. IInv => TypeOK
  BY DEF IInv
<1> QED  BY <1>1, InductiveInvariant, PTL

(***************************************************************************)
(* An idle scheduler admits: no history of latencies and refusals can      *)
(* leave the worker spinning with nothing running.                         *)
(***************************************************************************)
THEOREM IdleAdmitsTheorem == Spec => []IdleAdmits
<1>1. IInv => IdleAdmits
  <2> SUFFICES ASSUME IInv, DOMAIN running = {}
               PROVE  Decisions = {"Admit"}
    BY DEF IdleAdmits
  <2>1. Concurrency = 0
    BY FS_EmptySet DEF Concurrency
  <2>2. ctl.cap \in Nat /\ ctl.cap > 0 /\ Unit \in Nat
    BY CapBounds DEF IInv, CtlOK, Controller
  <2>3. ~ (Concurrency * Unit >= ctl.cap)
    BY <2>1, <2>2
  <2>4. ~ SomeoneToSpoil
    BY DEF SomeoneToSpoil
  <2> QED  BY <2>3, <2>4 DEF Decisions
<1> QED  BY <1>1, InductiveInvariant, PTL

(***************************************************************************)
(* Each sequence whose end is disputed is counted once, and only running   *)
(* sequences are flagged.                                                  *)
(***************************************************************************)
THEOREM CountedOnceTheorem == Spec => []CountedOncePerSequence
<1>1. IInv => CountedOncePerSequence
  BY DEF IInv
<1> QED  BY <1>1, InductiveInvariant, PTL

(***************************************************************************)
(* A controller that has given up has no probe open.                       *)
(***************************************************************************)
THEOREM GivenUpClosesProbeTheorem == Spec => []GivenUpClosesProbe
<1>1. IInv => GivenUpClosesProbe
  BY DEF IInv, CtlOK, GivenUpClosesProbe
<1> QED  BY <1>1, InductiveInvariant, PTL

(***************************************************************************)
(* The cap stays in its range, and a worker that runs nothing admits.      *)
(***************************************************************************)
THEOREM CapSoundTheorem == Spec => []CapSound
<1>1. TypeOK /\ IdleAdmits => CapSound
  BY DEF CapSound
<1> QED  BY <1>1, TypeCorrect, IdleAdmitsTheorem, PTL

(***************************************************************************)
(* No sequence that has left is still flagged, and no probe is left open   *)
(* by a controller that has given up.                                      *)
(***************************************************************************)
THEOREM NothingLeftOpenTheorem == Spec => []NothingLeftOpen
<1>1. CountedOncePerSequence /\ GivenUpClosesProbe => NothingLeftOpen
  BY DEF NothingLeftOpen
<1> QED  BY <1>1, CountedOnceTheorem, GivenUpClosesProbeTheorem, PTL

-------------------------------------------------------------------------------
(* What CapGrowsWhenFilled says of the controller before and after a step  *)
(* in which n sequences ran.                                               *)
Grows(c, d, n) ==
  /\ d.cap > c.cap =>
       \/ d.not_binding /\ ~ c.not_binding
       \/ 10 * n * Unit >= 9 * c.cap /\ d.cap <= c.cap + Unit
  /\ c.not_binding /\ d.not_binding => d.cap = c.cap

LEMMA DecreasedBelow ==
  ASSUME NEW x \in Nat, NEW top \in Nat, x <= top, Floor <= top
  PROVE  Decreased(x) <= top
<1> DEFINE d == (9 * x) \div 10
<1>1. d \in Nat /\ d <= x
  OBVIOUS
<1>2. Decreased(x) = IF d < Floor THEN Floor ELSE d
  BY DEF Decreased
<1> HIDE DEF d
<1> QED  BY <1>1, <1>2, CapBounds

LEMMA GiveUpGivesUp ==
  ASSUME NEW c \in Probing
  PROVE  GiveUp(c).not_binding
<1>1. PICK d : d = NoProbe(c)  OBVIOUS
<1>2. d \in Controller  BY <1>1, NoProbeOK
<1>3. GiveUp(c) = [d EXCEPT !.not_binding = TRUE, !.cap = Ceiling]
  BY <1>1 DEF GiveUp
<1> QED  BY <1>2, <1>3 DEF Controller

(* A decrease raises the cap only by giving up.                            *)
LEMMA ShedGrows ==
  ASSUME NEW c, CtlOK(c), NEW n \in Nat, NEW s, s = Shed(c, n)
  PROVE  s.cap <= c.cap \/ s.not_binding
<1>1. c \in Controller /\ c.cap \in Nat /\ Floor <= c.cap /\ c.cap <= Ceiling
      /\ n * Unit \in Nat
  BY CapBounds DEF CtlOK, Controller
<1>2. PICK binding : binding = IF n > 0 /\ n * Unit < c.cap THEN n * Unit ELSE c.cap
  OBVIOUS
<1>3. binding \in Nat /\ binding <= c.cap  BY <1>1, <1>2
<1>4. PICK x : x = Decreased(binding)  OBVIOUS
<1>5. x <= c.cap  BY <1>1, <1>3, <1>4, DecreasedBelow
<1>6. PICK d : d = [c EXCEPT !.cap = x]  OBVIOUS
<1>7. d.cap = x  BY <1>1, <1>6 DEF Controller
<1>8. x \in Floor .. Ceiling
  BY <1>1, <1>3, <1>4, CapBounds, DecreasedBounds
<1>9. CtlOK(d)  BY <1>6, <1>8, SetCap
<1>10. s = IF 100 * d.cap <= 101 * Floor THEN GiveUp(d) ELSE d
  BY <1>2, <1>4, <1>6 DEF Shed
<1>11. GiveUp(d).not_binding
  BY <1>9, ControllerIsProbing, GiveUpGivesUp DEF CtlOK
<1>12. s = GiveUp(d) \/ s = d  BY <1>10
<1> QED  BY <1>5, <1>7, <1>11, <1>12

LEMMA OverTargetGrows ==
  ASSUME NEW c, CtlOK(c), ~ c.not_binding, NEW n \in Nat, NEW d \in OverTarget(c, n)
  PROVE  d.cap <= c.cap \/ d.not_binding
<1>1. PICK p : p = Probed(c)  OBVIOUS
<1>2. PICK q : q = [p EXCEPT !.at_decrease = p.ewma, !.since_decrease = 0]  OBVIOUS
<1>3. /\ p \in Probing /\ p.at_decrease \in Level /\ ~ p.not_binding
      /\ p.since_decrease >= 1 /\ p.ewma \in Level
  BY <1>1, ProbedOK
<1>4. p.cap = c.cap
  BY <1>1 DEF Probed, CtlOK, Controller
<1>5. \/ p.since_decrease < ProbeWindow /\ d = Shed(p, n)
      \/ d = Shed(q, n)
      \/ d = GiveUp(p)
  BY <1>1, <1>2 DEF OverTarget
<1>6. p.since_decrease < ProbeWindow => CtlOK(p)
  BY <1>3, Levels DEF CtlOK, Probing, Controller
<1>7. CtlOK(q) /\ q.cap = p.cap
  <2>1. 0 \in 0 .. ProbeWindow - 1
    BY Levels
  <2>2. /\ q \in Controller /\ q.since_decrease = 0 /\ q.cap = p.cap
        /\ q.not_binding = p.not_binding
    BY <1>2, <1>3, <2>1 DEF Probing, Controller
  <2> QED  BY <1>3, <2>2 DEF CtlOK
<1>8. GiveUp(p).not_binding  BY <1>3, GiveUpGivesUp
<1> QED  BY <1>4, <1>5, <1>6, <1>7, <1>8, ShedGrows

LEMMA UnderTargetGrows ==
  ASSUME NEW c, CtlOK(c), NEW n \in Nat, NEW d, d = UnderTarget(c, n)
  PROVE  /\ d.not_binding = c.not_binding
         /\ d = c \/ (10 * n * Unit >= 9 * c.cap /\ d.cap <= c.cap + Unit)
<1>1. PICK e, up : /\ e = NoProbe(c)
                   /\ up = IF c.cap + Unit < Ceiling THEN c.cap + Unit ELSE Ceiling
  OBVIOUS
<1>2. c.cap \in Nat /\ up <= c.cap + Unit
  BY <1>1, CapBounds DEF CtlOK, Controller
<1>3. e \in Controller /\ e.not_binding = c.not_binding
  <2>1. c \in Probing  BY ControllerIsProbing DEF CtlOK
  <2>2. e \in Controller  BY <1>1, <2>1, NoProbeOK
  <2>3. e.not_binding = c.not_binding  BY <1>1 DEF NoProbe, CtlOK, Controller
  <2> QED  BY <2>2, <2>3
<1>4. \/ d = c
      \/ 10 * n * Unit >= 9 * c.cap /\ d = [e EXCEPT !.cap = up]
  BY <1>1 DEF UnderTarget
<1>5. CASE d = c
  BY <1>5
<1>6. CASE 10 * n * Unit >= 9 * c.cap /\ d = [e EXCEPT !.cap = up]
  <2>1. d.cap = up /\ d.not_binding = e.not_binding  BY <1>3, <1>6 DEF Controller
  <2> QED  BY <1>2, <1>3, <1>6, <2>1
<1> QED  BY <1>4, <1>5, <1>6

(***************************************************************************)
(* observe() raises the cap by one sequence at most and only for a batch   *)
(* that fills it, or gives up; one that has given up leaves it alone.      *)
(***************************************************************************)
LEMMA ObservedGrows ==
  ASSUME NEW c, CtlOK(c), NEW itl \in Level, NEW n \in Nat,
         NEW d \in Observed(c, itl, n)
  PROVE  Grows(c, d, n)
<1>1. PICK e \in Averages(c, itl) :
        d \in LET s == Sampled(c, e) IN
              IF s.samples < Warmup THEN {s} ELSE Steered(Resumed(s), n)
  BY DEF Observed
<1>2. e \in Level
  BY DEF Averages
<1>3. PICK s, r : s = Sampled(c, e) /\ r = Resumed(s)  OBVIOUS
<1>4. CtlOK(s) /\ CtlOK(r)  BY <1>2, <1>3, SampledOK, ResumedOK
<1>5. s.cap = c.cap /\ s.not_binding = c.not_binding /\ s.ewma = e
  BY <1>3 DEF Sampled, CtlOK, Controller
<1>6. /\ c.cap \in Nat /\ Unit \in Nat /\ e \in Nat /\ d.cap \in Nat
      /\ LowLevel \in Nat /\ HighLevel \in Nat /\ LowLevel <= HighLevel
      /\ c.not_binding \in BOOLEAN
  BY <1>2, CapBounds, Levels, ControllerAssumption, ObservedOK
     DEF CtlOK, Controller, ControllerAssumption, Level
<1>7. d = s \/ d \in Steered(r, n)  BY <1>1, <1>3
<1>8. CASE d = s
  BY <1>5, <1>6, <1>8 DEF Grows
<1>9. CASE d \in Steered(r, n)
  <2>1. CASE c.not_binding /\ e < LowLevel
    <3>1. r = [NoProbe(s) EXCEPT !.not_binding = FALSE]
      BY <1>3, <1>5, <2>1 DEF Resumed
    <3>2. r.cap = c.cap /\ r.ewma = e /\ ~ r.not_binding
      BY <1>4, <1>5, <3>1 DEF NoProbe, CtlOK, Controller
    <3>3. d = UnderTarget(r, n)  BY <1>6, <1>9, <2>1, <3>2 DEF Steered
    <3>4. /\ ~ d.not_binding
          /\ d = r \/ (10 * n * Unit >= 9 * r.cap /\ d.cap <= r.cap + Unit)
      BY <1>4, <3>2, <3>3, UnderTargetGrows
    <3> QED  BY <1>6, <3>2, <3>4 DEF Grows
  <2>2. CASE ~ (c.not_binding /\ e < LowLevel)
    <3>1. r = s  BY <1>3, <1>5, <2>2 DEF Resumed
    <3>2. CASE e >= HighLevel
      <4>1. d \in OverTarget(s, n)  BY <1>5, <1>9, <3>1, <3>2 DEF Steered
      <4>2. CASE c.not_binding
        <5>1. d = s  BY <1>5, <4>1, <4>2 DEF OverTarget
        <5> QED  BY <1>8, <5>1
      <4>3. CASE ~ c.not_binding
        <5>1. d.cap <= s.cap \/ d.not_binding  BY <1>4, <1>5, <4>1, <4>3, OverTargetGrows
        <5> QED  BY <1>5, <1>6, <4>3, <5>1 DEF Grows
      <4> QED  BY <4>2, <4>3
    <3>3. CASE ~ (e >= HighLevel)
      <4>1. d = s \/ (e < LowLevel /\ d = UnderTarget(s, n))
        BY <1>5, <1>9, <3>1, <3>3 DEF Steered
      <4>2. CASE e < LowLevel /\ d = UnderTarget(s, n)
        <5>1. ~ c.not_binding  BY <2>2, <4>2
        <5>2. d = s \/ (10 * n * Unit >= 9 * s.cap /\ d.cap <= s.cap + Unit)
          BY <1>4, <4>2, UnderTargetGrows
        <5> QED  BY <1>5, <1>6, <1>8, <5>1, <5>2 DEF Grows
      <4> QED  BY <1>8, <4>1, <4>2
    <3> QED  BY <3>2, <3>3
  <2> QED  BY <2>1, <2>2
<1> QED  BY <1>7, <1>8, <1>9

(***************************************************************************)
(* CapGrowsWhenFilled: no step of the scheduler, and none of the refusals  *)
(* that back off, raises the cap beyond what a full batch or giving up     *)
(* allows, and once it has given up only those refusals lower it (observe  *)
(* and back_off, decode.rs); for every parameter.                          *)
(***************************************************************************)
THEOREM CapGrowsWhenFilledTheorem == Spec => CapGrowsWhenFilled
<1> DEFINE Step ==
      /\ ctl'.cap > ctl.cap =>
           \/ ctl'.not_binding /\ ~ ctl.not_binding
           \/ /\ 10 * Concurrency * Unit >= 9 * ctl.cap
              /\ ctl'.cap <= ctl.cap + Unit
      /\ ctl.not_binding /\ ctl'.not_binding =>
           \/ ctl'.cap = ctl.cap
           \/ /\ "WouldSpoilRunning" \in Decisions
              /\ UNCHANGED running
              /\ ctl'.cap = Decreased(ctl.cap)
<1>1. IInv /\ [Next]_vars => [Step]_vars
  <2> SUFFICES ASSUME IInv, Next PROVE Step
    OBVIOUS
  <2>1. CtlOK(ctl) /\ ctl.cap \in Nat
    BY CapBounds DEF IInv, CtlOK, Controller
  <2>2. ASSUME UNCHANGED ctl PROVE Step
    BY <2>1, <2>2
  <2>3. CASE RefuseToSpoil
    <3>1. /\ ctl' = BackOff(ctl) /\ running' = running
          /\ "WouldSpoilRunning" \in Decisions
      BY <2>3 DEF RefuseToSpoil
    <3>2. PICK x : x = Decreased(ctl.cap)  OBVIOUS
    <3>3. ctl'.cap = x
      BY <2>1, <3>1, <3>2 DEF BackOff, CtlOK, Controller
    <3>4. x <= ctl.cap /\ x \in Nat
      BY <2>1, <3>2, CapBounds, DecreasedBelow, DecreasedBounds DEF CtlOK, Controller
    <3> QED  BY <2>1, <3>1, <3>2, <3>3, <3>4
  <2>4. ASSUME NEW dt \in Level, NEW advanced \in SUBSET DOMAIN running,
               NEW finished \in SUBSET DOMAIN running,
               NEW strangers \in 0 .. MaxReports,
               OnStep(dt, advanced, finished, strangers)
        PROVE  Step
    <3>1. PICK steer \in Level : ctl' \in Observed(ctl, steer, Concurrency)
      BY <2>4 DEF OnStep
    <3>2. Concurrency \in Nat
      <4>1. IsFiniteSet(DOMAIN running)
        BY SchedulerAssumption, FS_Subset, DOMAIN running \in SUBSET Req
           DEF IInv, TypeOK, SchedulerAssumption
      <4> QED  BY <4>1, FS_CardinalityType DEF Concurrency
    <3>3. Grows(ctl, ctl', Concurrency)  BY <2>1, <3>1, <3>2, ObservedGrows
    <3> QED  BY <3>3 DEF Grows
  <2> HIDE DEF Step
  <2> QED  BY <2>2, <2>3, <2>4 DEF Next, Admit
<1> QED  BY <1>1, InductiveInvariant, PTL DEF Spec, CapGrowsWhenFilled
===============================================================================
