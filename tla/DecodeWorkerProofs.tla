-------------------------- MODULE DecodeWorkerProofs --------------------------
(***************************************************************************)
(* Proofs about DecodeWorker, for every set of requests and pages: pages   *)
(* are never shared nor lost, the reserve is kept, and the scheduler and   *)
(* the engine agree.                                                       *)
(***************************************************************************)
EXTENDS DecodeWorker, FiniteSetTheorems, TLAPS

(***************************************************************************)
(* Strengthening.  Allocation overwrites kv[Head(pending)], so a queued    *)
(* request must hold nothing: it is queued once, and not running.          *)
(***************************************************************************)
QueuedOnce ==
  /\ \A i, j \in 1 .. Len(pending) : pending[i] = pending[j] => i = j
  /\ \A i, j \in 1 .. Len(jobs) : jobs[i] = jobs[j] => i = j
  /\ \A i \in 1 .. Len(pending), j \in 1 .. Len(jobs) : pending[i] # jobs[j]
  /\ \A i \in 1 .. Len(pending) : status[pending[i]] = "submitted"
  /\ \A i \in 1 .. Len(jobs) : status[jobs[i]] = "submitted"

LiveStreams ==
  /\ \A r \in running \cup done : status[r] = "streaming"
  /\ running \cap done = {}
  /\ pc = "emit" => attached = running \cup done
  /\ pc \notin {"emit", "stopped"} => attached = running /\ done = {}
  /\ pc \notin {"emit", "stopped"} => tokens = {}
  /\ \A r \in tokens : r \in running \cup done
  /\ pc = "adding" => pending # <<>>

IInv == TypeOK /\ PagesPartitioned /\ HeldByLive /\ ReserveKept /\ QueuedOnce
          /\ LiveStreams

(* The pages of a request go back to the free list.                        *)
Released(r) == free' = free \cup kv[r] /\ kv' = [kv EXCEPT ![r] = {}]

(***************************************************************************)
(* Releasing the pages of one request keeps the partition and the reserve. *)
(***************************************************************************)
LEMMA ReleaseKeepsPages ==
  ASSUME TypeOK, PagesPartitioned, ReserveKept, NEW r \in Req, Released(r)
  PROVE  /\ PagesPartitioned' /\ ReserveKept'
         /\ free' \subseteq Page
         /\ kv' \in [Req -> SUBSET Page]
         /\ \A q \in Req : kv'[q] # {} => Cardinality(kv'[q]) = Need[q]
<1>1. /\ kv \in [Req -> SUBSET Page]
      /\ free \subseteq Page
      /\ \A q \in Req : kv[q] # {} => Cardinality(kv[q]) = Need[q]
  BY DEF TypeOK, Held
<1>2. /\ kv' \in [Req -> SUBSET Page]
      /\ free' \subseteq Page
      /\ \A q \in Req : kv'[q] = IF q = r THEN {} ELSE kv[q]
  BY <1>1 DEF Released
<1>3. free' \cup UNION {kv'[q] : q \in Req} = Page
  BY <1>1, <1>2 DEF Released, PagesPartitioned
<1>4. \A q \in Req : kv'[q] \cap free' = {}
  BY <1>1, <1>2 DEF Released, PagesPartitioned
<1>5. \A p, q \in Req : p # q => kv'[p] \cap kv'[q] = {}
  BY <1>2 DEF PagesPartitioned
<1>6. ReserveKept'
  <2>1. IsFiniteSet(free')
    BY <1>2, FS_Subset, WorkerAssumption DEF WorkerAssumption
  <2>2. /\ Cardinality(free) <= Cardinality(free')
        /\ Cardinality(free) \in Nat /\ Cardinality(free') \in Nat
    BY <2>1, FS_Subset, FS_CardinalityType DEF Released
  <2>3. Reserve \in Int
    BY WorkerAssumption DEF WorkerAssumption
  <2> QED  BY <2>2, <2>3 DEF ReserveKept
<1> QED  BY <1>1, <1>2, <1>3, <1>4, <1>5, <1>6 DEF PagesPartitioned

(***************************************************************************)
(* Taking pages that fit keeps the partition and the reserve.              *)
(***************************************************************************)
LEMMA AllocateKeepsPages ==
  ASSUME TypeOK, PagesPartitioned, ReserveKept, NEW r \in Req, kv[r] = {},
         Headroom(r), NEW pages \in SUBSET free,
         Cardinality(pages) = Need[r],
         free' = free \ pages, kv' = [kv EXCEPT ![r] = pages]
  PROVE  /\ PagesPartitioned' /\ ReserveKept'
         /\ free' \subseteq Page
         /\ kv' \in [Req -> SUBSET Page]
         /\ \A q \in Req : kv'[q] # {} => Cardinality(kv'[q]) = Need[q]
<1>1. /\ kv \in [Req -> SUBSET Page]
      /\ free \subseteq Page
      /\ \A q \in Req : kv[q] # {} => Cardinality(kv[q]) = Need[q]
  BY DEF TypeOK, Held
<1>2. /\ kv' \in [Req -> SUBSET Page]
      /\ free' \subseteq Page
      /\ \A q \in Req : kv'[q] = IF q = r THEN pages ELSE kv[q]
  BY <1>1
<1>3. free' \cup UNION {kv'[q] : q \in Req} = Page
  BY <1>1, <1>2 DEF PagesPartitioned
<1>4. \A q \in Req : kv'[q] \cap free' = {}
  BY <1>1, <1>2 DEF PagesPartitioned
<1>5. \A p, q \in Req : p # q => kv'[p] \cap kv'[q] = {}
  BY <1>1, <1>2 DEF PagesPartitioned
<1>6. ReserveKept'
  <2>1. IsFiniteSet(free) /\ IsFiniteSet(pages)
    BY <1>1, FS_Subset, WorkerAssumption DEF WorkerAssumption
  <2>2. /\ Cardinality(free') = Cardinality(free) - Cardinality(free \cap pages)
        /\ Cardinality(free) \in Nat
    BY <2>1, FS_Difference, FS_CardinalityType
  <2>3. Cardinality(free \cap pages) = Need[r]
    <3>1. free \cap pages = pages
      OBVIOUS
    <3> QED  BY <3>1
  <2>4. Reserve \in Int /\ Need[r] \in Nat
    BY WorkerAssumption DEF WorkerAssumption
  <2>5. Cardinality(free) >= Need[r] + Reserve
    BY DEF Headroom
  <2>6. Cardinality(free') >= Reserve
    BY <2>2, <2>3, <2>4, <2>5
  <2> QED  BY <2>6 DEF ReserveKept
<1> QED  BY <1>1, <1>2, <1>3, <1>4, <1>5, <1>6 DEF PagesPartitioned

(***************************************************************************)
(* A step that leaves pages and sequences alone keeps what is about them.  *)
(***************************************************************************)
LEMMA QuietStep ==
  ASSUME IInv, UNCHANGED <<free, kv>>
  PROVE  /\ PagesPartitioned' /\ ReserveKept'
         /\ free' \subseteq Page
         /\ kv' \in [Req -> SUBSET Page]
         /\ \A q \in Req : kv'[q] # {} => Cardinality(kv'[q]) = Need[q]
BY DEF IInv, TypeOK, PagesPartitioned, ReserveKept, Held

(***************************************************************************)
(* The head of a non-empty queue is a request, queued nowhere else, and it *)
(* holds no pages before they are allocated.                               *)
(***************************************************************************)
LEMMA HeadFacts ==
  ASSUME IInv, pending # <<>>
  PROVE  /\ Head(pending) \in Req
         /\ Head(pending) = pending[1]
         /\ Tail(pending) \in Seq(Req)
         /\ Len(Tail(pending)) = Len(pending) - 1
         /\ \A i \in 1 .. Len(Tail(pending)) :
              /\ i + 1 \in 1 .. Len(pending)
              /\ Tail(pending)[i] = pending[i + 1]
              /\ Tail(pending)[i] # Head(pending)
         /\ status[Head(pending)] = "submitted"
         /\ Head(pending) \notin running \cup done
         /\ \A i \in 1 .. Len(jobs) : jobs[i] # Head(pending)
<1>1. pending \in Seq(Req) /\ jobs \in Seq(Req) /\ Len(pending) \in Nat
  BY DEF IInv, TypeOK
<1>2. /\ Len(pending) >= 1
      /\ Head(pending) = pending[1]
      /\ Head(pending) \in Req
      /\ Tail(pending) \in Seq(Req)
      /\ Len(Tail(pending)) = Len(pending) - 1
      /\ \A i \in 1 .. Len(Tail(pending)) :
           i + 1 \in 1 .. Len(pending) /\ Tail(pending)[i] = pending[i + 1]
  BY <1>1
<1>3. 1 \in 1 .. Len(pending) /\ status[Head(pending)] = "submitted"
  BY <1>1, <1>2 DEF IInv, QueuedOnce
<1>4. Head(pending) \notin running \cup done
  BY <1>3 DEF IInv, LiveStreams
<1>5. \A i \in 1 .. Len(jobs) : jobs[i] # Head(pending)
  BY <1>2, <1>3 DEF IInv, QueuedOnce
<1>6. \A i \in 1 .. Len(Tail(pending)) : Tail(pending)[i] # Head(pending)
  <2> SUFFICES ASSUME NEW i \in 1 .. Len(Tail(pending)),
                      Tail(pending)[i] = Head(pending)
               PROVE  FALSE
    OBVIOUS
  <2>1. pending[i + 1] = pending[1] /\ i + 1 \in 1 .. Len(pending)
    BY <1>2
  <2>2. i + 1 = 1
    BY <2>1, <1>3 DEF IInv, QueuedOnce
  <2> QED  BY <2>2
<1> QED  BY <1>2, <1>3, <1>4, <1>5, <1>6

-------------------------------------------------------------------------------
(***************************************************************************)
(* The inductive invariant of the decode worker.                           *)
(***************************************************************************)
THEOREM InductiveInvariant == Spec => []IInv
<1>1. Init => IInv
  <2> SUFFICES ASSUME Init PROVE IInv
    OBVIOUS
  <2>1. /\ kv \in [Req -> SUBSET Page] /\ \A r \in Req : kv[r] = {}
        /\ free = Page
    BY DEF Init
  <2>2. TypeOK
    <3>1. status \in [Req -> Status] /\ pc \in Location
      BY DEF Init, Status, Location
    <3>2. <<>> \in Seq(Req)
      OBVIOUS
    <3>4. jobs \in Seq(Req) /\ pending \in Seq(Req) /\ closed \in BOOLEAN
      BY <3>2 DEF Init
    <3>3. /\ attached \subseteq Req /\ running \subseteq Req
          /\ tokens \subseteq Req /\ done \subseteq Req
      BY DEF Init
    <3> QED  BY <2>1, <3>1, <3>3, <3>4 DEF TypeOK, Held
  <2>3. PagesPartitioned
    BY <2>1 DEF PagesPartitioned
  <2>4. ReserveKept
    BY <2>1, WorkerAssumption, FS_CardinalityType
       DEF WorkerAssumption, ReserveKept
  <2>5. HeldByLive /\ QueuedOnce /\ LiveStreams
    BY <2>1 DEF Init, HeldByLive, Held, QueuedOnce, LiveStreams
  <2> QED  BY <2>2, <2>3, <2>4, <2>5 DEF IInv
<1>2. IInv /\ [Next]_vars => IInv'
  <2> SUFFICES ASSUME IInv, [Next]_vars PROVE IInv'
    OBVIOUS
  <2> USE DEF IInv
  <2>t. /\ jobs \in Seq(Req) /\ pending \in Seq(Req)
        /\ kv \in [Req -> SUBSET Page] /\ free \subseteq Page
        /\ status \in [Req -> Status]
        /\ attached \subseteq Req /\ running \subseteq Req
        /\ tokens \subseteq Req /\ done \subseteq Req
        /\ closed \in BOOLEAN /\ pc \in Location
    BY DEF TypeOK
  <2>1. ASSUME NEW r \in Req, Submit(r) PROVE IInv'
    <3>1. /\ status' \in [Req -> Status] /\ status'[r] = "submitted"
          /\ \A q \in Req \ {r} : status'[q] = status[q]
          /\ status[r] = "new"
      BY <2>1, <2>t DEF Submit, Status
    <3>2. /\ jobs' \in Seq(Req) /\ Len(jobs') = Len(jobs) + 1
          /\ jobs'[Len(jobs) + 1] = r
          /\ \A i \in 1 .. Len(jobs) : jobs'[i] = jobs[i] /\ jobs[i] \in Req
          /\ Len(jobs) \in Nat
          /\ \A i \in 1 .. Len(pending) : pending[i] \in Req
      BY <2>1, <2>t DEF Submit
    <3>3. /\ UNCHANGED <<closed, pc, pending, free, kv, attached, running,
                         tokens, done>>
      BY <2>1 DEF Submit
    <3>4. TypeOK' /\ PagesPartitioned' /\ ReserveKept'
      BY <2>t, <3>1, <3>2, <3>3, QuietStep DEF TypeOK, Held
    <3>5. HeldByLive'
      BY <3>3 DEF HeldByLive, Held
    <3>6. QueuedOnce'
      BY <3>1, <3>2, <3>3 DEF QueuedOnce
    <3>7. LiveStreams'
      BY <2>t, <3>1, <3>3 DEF LiveStreams
    <3> QED  BY <3>4, <3>5, <3>6, <3>7
  <2>2. CASE CloseJobs \/ Finish \/ Loop \/ StepFails \/ Refuse
    <3>1. /\ UNCHANGED <<jobs, pending, free, kv, attached, running, tokens,
                         done, status>>
          /\ closed' \in BOOLEAN /\ pc' \in Location
          /\ pc' # "adding" \/ pc' = pc
          /\ pc' = pc \/ pc # "adding"
          /\ pc' \notin {"emit", "stopped"} =>
               pc \notin {"emit", "stopped"} \/ (tokens = {} /\ done = {})
          /\ pc' = "emit" => pc = "emit"
      BY <2>2, <2>t
         DEF CloseJobs, Finish, Loop, StepFails, Refuse, Location
    <3>2. TypeOK' /\ PagesPartitioned' /\ ReserveKept'
      BY <2>t, <3>1, QuietStep DEF TypeOK, Held
    <3>3. HeldByLive' /\ QueuedOnce'
      BY <3>1 DEF HeldByLive, Held, QueuedOnce
    <3>4. LiveStreams'
      BY <2>2, <2>t, <3>1 DEF LiveStreams, Loop, StepFails, Refuse, Finish,
                              CloseJobs
    <3> QED  BY <3>2, <3>3, <3>4
  <2>3. CASE Drain
    <3>1. /\ UNCHANGED <<closed, free, kv, attached, running, tokens, done,
                         status>>
          /\ pc = "top" /\ pc' \in {"recv", "admit"}
          /\ jobs' = <<>> /\ pending' = pending \o jobs
      BY <2>3 DEF Drain
    <3>2. /\ pending' \in Seq(Req) /\ jobs' \in Seq(Req) /\ Len(jobs') = 0
          /\ Len(pending') = Len(pending) + Len(jobs)
          /\ Len(pending) \in Nat /\ Len(jobs) \in Nat
          /\ \A i \in 1 .. Len(pending) : pending'[i] = pending[i]
          /\ \A i \in 1 .. Len(jobs) :
               pending'[Len(pending) + i] = jobs[i]
      BY <2>t, <3>1
    <3>3. TypeOK' /\ PagesPartitioned' /\ ReserveKept'
      BY <2>t, <3>1, <3>2, QuietStep DEF TypeOK, Held, Location
    <3>4. HeldByLive'
      BY <3>1 DEF HeldByLive, Held
    <3>5. QueuedOnce'
      <4>1. \A i \in 1 .. Len(pending') :
              \/ i \in 1 .. Len(pending) /\ pending'[i] = pending[i]
              \/ /\ i - Len(pending) \in 1 .. Len(jobs)
                 /\ pending'[i] = jobs[i - Len(pending)]
        <5> SUFFICES ASSUME NEW i \in 1 .. Len(pending'),
                            i \notin 1 .. Len(pending)
                     PROVE  /\ i - Len(pending) \in 1 .. Len(jobs)
                            /\ pending'[i] = jobs[i - Len(pending)]
          BY <3>2
        <5>1. i - Len(pending) \in 1 .. Len(jobs)
          BY <3>2
        <5> QED  BY <5>1, <3>2
      <4>2. ASSUME NEW i \in 1 .. Len(pending'), NEW j \in 1 .. Len(pending'),
                   pending'[i] = pending'[j]
            PROVE  i = j
        <5>1. CASE i \in 1 .. Len(pending) /\ j \in 1 .. Len(pending)
          BY <3>2, <4>2, <5>1 DEF QueuedOnce
        <5>2. CASE i \notin 1 .. Len(pending) /\ j \notin 1 .. Len(pending)
          <6>1. /\ i - Len(pending) \in 1 .. Len(jobs)
                /\ j - Len(pending) \in 1 .. Len(jobs)
                /\ jobs[i - Len(pending)] = jobs[j - Len(pending)]
            BY <4>1, <4>2, <5>2
          <6>2. i - Len(pending) = j - Len(pending)
            BY <6>1 DEF QueuedOnce
          <6> QED  BY <3>2, <6>2
        <5>3. CASE i \in 1 .. Len(pending) /\ j \notin 1 .. Len(pending)
          <6>1. /\ j - Len(pending) \in 1 .. Len(jobs)
                /\ pending[i] = jobs[j - Len(pending)]
            BY <4>1, <4>2, <5>3, <3>2
          <6> QED  BY <5>3, <6>1 DEF QueuedOnce
        <5>4. CASE i \notin 1 .. Len(pending) /\ j \in 1 .. Len(pending)
          <6>1. /\ i - Len(pending) \in 1 .. Len(jobs)
                /\ pending[j] = jobs[i - Len(pending)]
            BY <4>1, <4>2, <5>4, <3>2
          <6> QED  BY <5>4, <6>1 DEF QueuedOnce
        <5> QED  BY <5>1, <5>2, <5>3, <5>4
      <4>3. \A i \in 1 .. Len(pending') : status'[pending'[i]] = "submitted"
        BY <3>1, <4>1 DEF QueuedOnce
      <4> QED  BY <3>2, <4>2, <4>3 DEF QueuedOnce
    <3>6. LiveStreams'
      BY <3>1 DEF LiveStreams
    <3> QED  BY <3>3, <3>4, <3>5, <3>6
  <2>4. CASE Receive
    <3>1. /\ UNCHANGED <<closed, free, kv, attached, running, tokens, done,
                         status>>
          /\ pc = "recv" /\ pc' = "admit" /\ jobs # <<>>
          /\ jobs' = Tail(jobs) /\ pending' = Append(pending, Head(jobs))
      BY <2>4 DEF Receive
    <3>2. /\ pending' \in Seq(Req) /\ jobs' \in Seq(Req)
          /\ Len(jobs) \in Nat \ {0} /\ Len(pending) \in Nat
          /\ Len(jobs') = Len(jobs) - 1 /\ Len(pending') = Len(pending) + 1
          /\ \A i \in 1 .. Len(pending) : pending'[i] = pending[i]
          /\ pending'[Len(pending) + 1] = jobs[1]
          /\ \A i \in 1 .. Len(jobs') : jobs'[i] = jobs[i + 1]
      BY <2>t, <3>1
    <3>3. TypeOK' /\ PagesPartitioned' /\ ReserveKept'
      BY <2>t, <3>1, <3>2, QuietStep DEF TypeOK, Held, Location
    <3>4. HeldByLive'
      BY <3>1 DEF HeldByLive, Held
    <3>5. QueuedOnce'
      BY <3>1, <3>2 DEF QueuedOnce
    <3>6. LiveStreams'
      BY <3>1 DEF LiveStreams
    <3> QED  BY <3>3, <3>4, <3>5, <3>6
  <2>5. CASE Allocate
    <3> DEFINE r == Head(pending)
    <3>1. /\ pc = "admit" /\ pc' = "adding" /\ pending # <<>> /\ Headroom(r)
          /\ UNCHANGED <<jobs, closed, pending, attached, running, tokens,
                         done, status>>
      BY <2>5 DEF Allocate
    <3>2. r \in Req /\ r \notin running \cup done
      BY <3>1, HeadFacts
    <3>3. kv[r] = {}
      BY <3>1, <3>2 DEF HeldByLive, Held
    <3>4. PICK pages \in SUBSET free :
            /\ Cardinality(pages) = Need[r]
            /\ free' = free \ pages
            /\ kv' = [kv EXCEPT ![r] = pages]
      BY <2>5 DEF Allocate
    <3> HIDE DEF r
    <3>5. /\ PagesPartitioned' /\ ReserveKept'
          /\ free' \subseteq Page
          /\ kv' \in [Req -> SUBSET Page]
          /\ \A q \in Req : kv'[q] # {} => Cardinality(kv'[q]) = Need[q]
      BY <3>1, <3>2, <3>3, <3>4, AllocateKeepsPages
    <3>6. TypeOK'
      BY <2>t, <3>1, <3>5 DEF TypeOK, Held, Location
    <3>7. HeldByLive'
      BY <2>t, <3>1, <3>4 DEF HeldByLive, Held, r
    <3>8. QueuedOnce' /\ LiveStreams'
      BY <3>1 DEF QueuedOnce, LiveStreams
    <3> QED  BY <3>5, <3>6, <3>7, <3>8
  <2>6. CASE Attach
    <3> DEFINE r == Head(pending)
    <3>1. /\ pc = "adding" /\ pc' = "admit"
          /\ attached' = attached \cup {r} /\ running' = running \cup {r}
          /\ status' = [status EXCEPT ![r] = "streaming"]
          /\ pending' = Tail(pending)
          /\ UNCHANGED <<jobs, closed, free, kv, tokens, done>>
      BY <2>6 DEF Attach
    <3>2. pending # <<>>
      BY <3>1 DEF LiveStreams
    <3>3. /\ r \in Req /\ pending' \in Seq(Req)
          /\ Len(pending') = Len(pending) - 1 /\ Len(pending) \in Nat
          /\ \A i \in 1 .. Len(pending') :
               /\ i + 1 \in 1 .. Len(pending)
               /\ pending'[i] = pending[i + 1] /\ pending'[i] # r
          /\ \A i \in 1 .. Len(jobs) : jobs[i] # r
          /\ r \notin running \cup done
      BY <2>t, <3>1, <3>2, HeadFacts
    <3> HIDE DEF r
    <3>4. /\ status' \in [Req -> Status] /\ status'[r] = "streaming"
          /\ \A q \in Req \ {r} : status'[q] = status[q]
      BY <2>t, <3>1, <3>3 DEF Status
    <3>5. TypeOK' /\ PagesPartitioned' /\ ReserveKept'
      BY <2>t, <3>1, <3>3, <3>4, QuietStep DEF TypeOK, Held, Location
    <3>6. HeldByLive'
      BY <3>1 DEF HeldByLive, Held, r
    <3>7. QueuedOnce'
      BY <2>t, <3>1, <3>3, <3>4 DEF QueuedOnce
    <3>8. LiveStreams'
      BY <2>t, <3>1, <3>3, <3>4 DEF LiveStreams
    <3> QED  BY <3>5, <3>6, <3>7, <3>8
  <2>7. CASE AttachFails
    <3> DEFINE r == Head(pending)
    <3>1. /\ pc = "adding" /\ pc' = "admit"
          /\ Released(r)
          /\ status' = [status EXCEPT ![r] = "dropped"]
          /\ pending' = Tail(pending)
          /\ UNCHANGED <<jobs, closed, attached, running, tokens, done>>
      BY <2>7 DEF AttachFails, Released
    <3>2. pending # <<>>
      BY <3>1 DEF LiveStreams
    <3>3. /\ r \in Req /\ pending' \in Seq(Req)
          /\ Len(pending') = Len(pending) - 1 /\ Len(pending) \in Nat
          /\ \A i \in 1 .. Len(pending') :
               /\ i + 1 \in 1 .. Len(pending)
               /\ pending'[i] = pending[i + 1] /\ pending'[i] # r
          /\ \A i \in 1 .. Len(jobs) : jobs[i] # r
          /\ r \notin running \cup done
      BY <2>t, <3>1, <3>2, HeadFacts
    <3> HIDE DEF r
    <3>4. /\ status' \in [Req -> Status]
          /\ \A q \in Req \ {r} : status'[q] = status[q]
      BY <2>t, <3>1, <3>3 DEF Status
    <3>5. TypeOK' /\ PagesPartitioned' /\ ReserveKept'
      BY <2>t, <3>1, <3>3, <3>4, ReleaseKeepsPages DEF TypeOK, Held, Location
    <3>6. HeldByLive'
      BY <2>t, <3>1 DEF HeldByLive, Held, Released, r
    <3>7. QueuedOnce'
      BY <2>t, <3>1, <3>3, <3>4 DEF QueuedOnce
    <3>8. LiveStreams'
      BY <2>t, <3>1, <3>3, <3>4 DEF LiveStreams
    <3> QED  BY <3>5, <3>6, <3>7, <3>8
  <2>8. CASE Report
    <3>1. PICK advanced, finished \in SUBSET attached :
            Step(advanced, finished)
      BY <2>8 DEF Report
    <3>2. /\ pc = "step" /\ pc' = "emit" /\ tokens' = advanced
          /\ done' = finished \cap running /\ running' = running \ finished
          /\ UNCHANGED <<jobs, closed, pending, free, kv, attached, status>>
      BY <3>1 DEF Step
    <3>3. attached = running /\ done = {}
      BY <3>2 DEF LiveStreams
    <3>4. TypeOK' /\ PagesPartitioned' /\ ReserveKept'
      BY <2>t, <3>2, QuietStep DEF TypeOK, Held, Location
    <3>5. HeldByLive' /\ QueuedOnce'
      BY <3>2, <3>3 DEF HeldByLive, Held, QueuedOnce
    <3>6. LiveStreams'
      BY <3>2, <3>3 DEF LiveStreams
    <3> QED  BY <3>4, <3>5, <3>6
  <2>9. ASSUME NEW r \in Req, SendToken(r) PROVE IInv'
    <3>1. /\ pc = "emit" /\ tokens' = tokens \ {r}
          /\ UNCHANGED <<jobs, closed, pc, pending, free, kv, attached,
                         running, done, status>>
      BY <2>9 DEF SendToken
    <3>2. TypeOK' /\ PagesPartitioned' /\ ReserveKept'
      BY <2>t, <3>1, QuietStep DEF TypeOK, Held
    <3>3. HeldByLive' /\ QueuedOnce' /\ LiveStreams'
      BY <3>1 DEF HeldByLive, Held, QueuedOnce, LiveStreams
    <3> QED  BY <3>2, <3>3
  <2>10. ASSUME NEW r \in Req, Retire(r) PROVE IInv'
    <3>1. /\ pc = "emit" /\ pc' = "emit" /\ tokens = {} /\ r \in done
          /\ done' = done \ {r} /\ Released(r)
          /\ attached' = attached \ {r}
          /\ status' = [status EXCEPT ![r] = "finished"]
          /\ UNCHANGED <<jobs, closed, pending, running, tokens>>
      BY <2>10 DEF Retire, Released
    <3>2. /\ status' \in [Req -> Status] /\ status[r] = "streaming"
          /\ \A q \in Req \ {r} : status'[q] = status[q]
      BY <2>t, <3>1 DEF Status, LiveStreams
    <3>3. TypeOK' /\ PagesPartitioned' /\ ReserveKept'
      BY <2>t, <3>1, <3>2, ReleaseKeepsPages DEF TypeOK, Held, Location
    <3>4. HeldByLive'
      BY <2>t, <3>1 DEF HeldByLive, Held, Released
    <3>5. QueuedOnce'
      BY <2>t, <3>1, <3>2 DEF QueuedOnce
    <3>6. LiveStreams'
      BY <2>t, <3>1, <3>2 DEF LiveStreams
    <3> QED  BY <3>3, <3>4, <3>5, <3>6
  <2>11. CASE Hangup
    <3>1. /\ pc = "emit" /\ pc' = "stopped"
          /\ UNCHANGED <<jobs, closed, pending, running, tokens, done,
                         status>>
      BY <2>11 DEF Hangup
    <3>2. /\ attached' \subseteq attached
          /\ \/ UNCHANGED <<free, kv>>
             \/ \E r \in Req : Released(r)
      BY <2>11, <2>t DEF Hangup, Released
    <3>3. /\ PagesPartitioned' /\ ReserveKept'
          /\ free' \subseteq Page
          /\ kv' \in [Req -> SUBSET Page]
          /\ \A q \in Req : kv'[q] # {} => Cardinality(kv'[q]) = Need[q]
      BY <3>2, QuietStep, ReleaseKeepsPages
    <3>4. TypeOK'
      BY <2>t, <3>1, <3>2, <3>3 DEF TypeOK, Held, Location
    <3>5. HeldByLive'
      BY <2>t, <3>1, <3>2 DEF HeldByLive, Held, Released
    <3>6. QueuedOnce' /\ LiveStreams'
      BY <3>1 DEF QueuedOnce, LiveStreams
    <3> QED  BY <3>3, <3>4, <3>5, <3>6
  <2>12. CASE UNCHANGED vars
    <3>1. TypeOK' /\ PagesPartitioned' /\ ReserveKept'
      BY <2>t, <2>12, QuietStep DEF TypeOK, Held, vars
    <3> QED  BY <2>12, <3>1 DEF vars, HeldByLive, Held, QueuedOnce, LiveStreams
  <2> QED
    BY <2>1, <2>2, <2>3, <2>4, <2>5, <2>6, <2>7, <2>8, <2>9, <2>10, <2>11,
       <2>12 DEF Next, Emit
<1> QED  BY <1>1, <1>2, PTL DEF Spec

(***************************************************************************)
(* Pages are never shared and never lost, whatever the engine refuses,     *)
(* fails or finishes, and whenever either channel closes.                  *)
(***************************************************************************)
THEOREM PagesPartitionedTheorem == Spec => []PagesPartitioned
<1>1. IInv => PagesPartitioned
  BY DEF IInv
<1> QED  BY <1>1, InductiveInvariant, PTL

(***************************************************************************)
(* Pages are held only for the sequence being added and for live ones.     *)
(***************************************************************************)
THEOREM HeldByLiveTheorem == Spec => []HeldByLive
<1>1. IInv => HeldByLive
  BY DEF IInv
<1> QED  BY <1>1, InductiveInvariant, PTL

(***************************************************************************)
(* Admission never eats into the watermark's reserve.                      *)
(***************************************************************************)
THEOREM ReserveKeptTheorem == Spec => []ReserveKept
<1>1. IInv => ReserveKept
  BY DEF IInv
<1> QED  BY <1>1, InductiveInvariant, PTL

(***************************************************************************)
(* Between steps the scheduler and the engine agree on what runs.          *)
(***************************************************************************)
THEOREM AgreementTheorem == Spec => []SchedulerAgreesWithEngine
<1>1. IInv => SchedulerAgreesWithEngine
  BY DEF IInv, LiveStreams, SchedulerAgreesWithEngine
<1> QED  BY <1>1, InductiveInvariant, PTL

(***************************************************************************)
(* A request's Finished event follows all of its tokens.                   *)
(***************************************************************************)
THEOREM FinishedIsLastTheorem == Spec => []FinishedIsLast
<1>1. IInv => FinishedIsLast
  BY DEF IInv, LiveStreams, FinishedIsLast
<1> QED  BY <1>1, InductiveInvariant, PTL

(***************************************************************************)
(* The worker's state keeps its types; a request has all its pages or      *)
(* none.                                                                   *)
(***************************************************************************)
THEOREM TypeCorrect == Spec => []TypeOK
<1>1. IInv => TypeOK
  BY DEF IInv
<1> QED  BY <1>1, InductiveInvariant, PTL

(***************************************************************************)
(* Every page is free or held by exactly one live request, and the reserve *)
(* is kept while new work is admitted.                                     *)
(***************************************************************************)
THEOREM PagesAccountedTheorem == Spec => []PagesAccounted
<1>1. TypeOK /\ PagesPartitioned /\ HeldByLive /\ ReserveKept => PagesAccounted
  BY DEF PagesAccounted
<1> QED
  BY <1>1, TypeCorrect, PagesPartitionedTheorem, HeldByLiveTheorem,
     ReserveKeptTheorem, PTL

(***************************************************************************)
(* Between steps the scheduler and the engine agree on what runs, and a    *)
(* request's Finished event follows all of its tokens.                     *)
(***************************************************************************)
THEOREM SequencesAccountedTheorem == Spec => []SequencesAccounted
<1>1. SchedulerAgreesWithEngine /\ FinishedIsLast => SequencesAccounted
  BY DEF SequencesAccounted
<1> QED  BY <1>1, AgreementTheorem, FinishedIsLastTheorem, PTL
===============================================================================
