------------------------------- MODULE Simulator -------------------------------
(***************************************************************************)
(* The discrete-event simulation of the deployment, Simulator of           *)
(* crates/sim/src/sim.rs: closed-loop clients, prefill workers, a bounded  *)
(* pool of KV transfer buffers and decode workers, driven by a heap of     *)
(* events.                                                                 *)
(*                                                                         *)
(* The heap is the sequence of the scheduled events in the order they were *)
(* pushed, each with the time left until it; popping the earliest one lets *)
(* that time pass for the others.  A client has one request at a time, so  *)
(* a request goes by its client.  What the router, the prefill planner and *)
(* the ITL controller choose is left open here: every choice their code    *)
(* can make is explored.                                                   *)
(***************************************************************************)
EXTENDS Integers, Sequences, SequencesExt, FiniteSets, FiniteSetsExt

CONSTANTS
  Concurrency,         \* workload.concurrency, the number of clients
  PrefillWorkers, DecodeWorkers,
  Chunks,              \* chunks in a prompt
  Osl,                 \* workload.osl
  TokensPerStep,       \* possible tokens_per_step: 1, or 1 + draft_tokens
  XferConcurrency,     \* kv.xfer_concurrency
  TotalBlocks, NeedBlocks, WatermarkBlocks,
  TransferMs           \* kv_transfer_ms

(* That a worker's blocks cover one request and the watermark is an        *)
(* assumption on the configuration: Config::validate does not ask for it,  *)
(* and with fewer blocks nothing would ever be admitted.                   *)
ASSUME SimulatorAssumption ==
  /\ Concurrency \in Nat /\ DecodeWorkers # {}
  /\ Chunks \in Nat \ {0} /\ Osl \in Nat \ {0}
  /\ TokensPerStep \subseteq Nat \ {0}
  /\ XferConcurrency \in Nat
  /\ NeedBlocks \in Nat \ {0} /\ WatermarkBlocks \in Nat
  /\ TotalBlocks \in Nat /\ TotalBlocks >= NeedBlocks + WatermarkBlocks
  /\ TransferMs \in Nat \ {0}

Clients == 1 .. Concurrency

VARIABLES
  per_step,     \* tokens_per_step of the decode schedulers.  Never changes
  heap,         \* the scheduled events, in the order of their seq
  queue, batch, \* per prefill worker: queued requests, the batch it runs
  left,         \* chunks not yet computed of each queued request
  dest,         \* decode_worker of each request
  xfer_busy, xfer_queue,
  pending,      \* per decode worker: requests whose KV has landed
  stepping,     \* per decode worker: whether a DecodeStep is scheduled
  free, held,   \* per decode worker: free blocks, and who holds NeedBlocks
  emitted       \* per decode worker: tokens_emitted of each running sequence

prefillVars == <<queue, batch, left, dest>>
decodeVars == <<pending, stepping, free, held, emitted>>
vars == <<per_step, heap, queue, batch, left, dest, xfer_busy, xfer_queue,
          pending, stepping, free, held, emitted>>

Event(delay, kind, who) == [delay |-> delay, kind |-> kind, who |-> who]

(* Event of events.rs: a client's or a request's, or a worker's.           *)
Events ==
  [delay : Nat, kind : {"Arrival", "KvArrived"}, who : Clients]
    \cup [delay : Nat, kind : {"PrefillDone"}, who : PrefillWorkers]
    \cup [delay : Nat, kind : {"DecodeStep"}, who : DecodeWorkers]

Running(d) == DOMAIN emitted[d]

TypeOK ==
  /\ per_step \in TokensPerStep
  /\ heap \in Seq(Events)
  /\ queue \in [PrefillWorkers -> SUBSET Clients]
  /\ batch \in [PrefillWorkers -> SUBSET Clients]
  /\ left \in [Clients -> 0 .. Chunks]
  /\ dest \in [Clients -> DecodeWorkers]
  /\ xfer_busy \in 0 .. Cardinality(Clients)
  /\ xfer_queue \in Seq(Clients)
  /\ pending \in [DecodeWorkers -> Seq(Clients)]
  /\ stepping \in [DecodeWorkers -> BOOLEAN]
  /\ free \in [DecodeWorkers -> 0 .. TotalBlocks]
  /\ held \in [DecodeWorkers -> SUBSET Clients]
  /\ emitted \in [DecodeWorkers -> UNION {[S -> 1 .. Osl] : S \in SUBSET Clients}]

(* run(): every client's first arrival is scheduled at time zero.          *)
Init ==
  /\ per_step \in TokensPerStep
  /\ heap = [c \in Clients |-> Event(0, "Arrival", c)]
  /\ queue = [p \in PrefillWorkers |-> {}]
  /\ batch = [p \in PrefillWorkers |-> {}]
  /\ left = [c \in Clients |-> 0]
  /\ dest \in [Clients -> {CHOOSE d \in DecodeWorkers : TRUE}]
  /\ xfer_busy = 0 /\ xfer_queue = <<>>
  /\ pending = [d \in DecodeWorkers |-> <<>>]
  /\ stepping = [d \in DecodeWorkers |-> FALSE]
  /\ free = [d \in DecodeWorkers |-> TotalBlocks]
  /\ held = [d \in DecodeWorkers |-> {}]
  /\ emitted = [d \in DecodeWorkers |-> [c \in {} |-> 0]]

(* PrefillCurve::batch_ms and DecodeCurve::step_ms, up to scale: a fixed   *)
(* cost and one that grows with the sequences.                             *)
BatchMs(n) == IF n = 0 THEN 0 ELSE 1 + n
StepMs(n) == 1 + n

-------------------------------------------------------------------------------
(* Scheduled::cmp: the earliest event, and of those the first pushed.      *)
Earliest ==
  CHOOSE k \in 1 .. Len(heap) :
    \A j \in 1 .. Len(heap) : \/ heap[k].delay < heap[j].delay
                              \/ heap[k].delay = heap[j].delay /\ k <= j

(* Pop the earliest event, which is of this kind, and push the new ones.   *)
Pop(kind, who, pushed) ==
  /\ heap # <<>>
  /\ heap[Earliest].kind = kind /\ heap[Earliest].who = who
  /\ heap' = LET rest == RemoveAt(heap, Earliest) IN
             [k \in 1 .. Len(rest) |->
                [rest[k] EXCEPT !.delay = @ - heap[Earliest].delay]] \o pushed

(* try_start_prefill: an idle worker with a queue starts some batch of it. *)
(* chosen is that batch, {} if the worker starts none.                     *)
StartsPrefill(p, chosen, queued, idle) ==
  IF idle /\ queued # {} THEN chosen # {} /\ chosen \subseteq queued
  ELSE chosen = {}

PrefillEvents(p, chosen) ==
  IF chosen = {} THEN <<>>
  ELSE <<Event(BatchMs(Cardinality(chosen)), "PrefillDone", p)>>

(* on_arrival: the router picks the workers; the request is queued and an  *)
(* idle prefill worker starts.                                             *)
OnArrival(c, p, d) ==
  \E chosen \in SUBSET Clients :
    /\ StartsPrefill(p, chosen, queue[p] \cup {c}, batch[p] = {})
    /\ Pop("Arrival", c, PrefillEvents(p, chosen))
    /\ dest' = [dest EXCEPT ![c] = d]
    /\ queue' = [queue EXCEPT ![p] = @ \cup {c}]
    /\ left' = [left EXCEPT ![c] = Chunks]
    /\ batch' = [batch EXCEPT ![p] = IF chosen = {} THEN @ ELSE chosen]
    /\ UNCHANGED <<per_step, xfer_busy, xfer_queue, decodeVars>>

(* Mutant of Drained: one buffer more than there are is handed out.        *)
DrainedOver(busy, waiting) == IF busy > XferConcurrency THEN 0 ELSE Min({1, Len(waiting)})

(* drain_xfer_queue: how many queued transfers find a free buffer.         *)
Drained(busy, waiting) ==
  LET buffers == IF XferConcurrency > 1 THEN XferConcurrency ELSE 1 IN
  IF busy >= buffers THEN 0 ELSE Min({buffers - busy, Len(waiting)})

Transfers(waiting, n) ==
  [k \in 1 .. n |-> Event(TransferMs, "KvArrived", waiting[k])]

(* on_prefill_done: the finished prompts have their first token and queue  *)
(* for a transfer buffer, in the order the planner gave the batch; the     *)
(* worker goes on with its queue.                                          *)
OnPrefillDone(p) ==
  LET finished == {c \in batch[p] : left[c] = 1}
  IN \E chosen \in SUBSET Clients, order \in SetToSeqs(finished) :
       LET waiting == xfer_queue \o order
           n == Drained(xfer_busy, waiting)
       IN /\ StartsPrefill(p, chosen, queue[p] \ finished, TRUE)
          /\ Pop("PrefillDone", p, Transfers(waiting, n) \o PrefillEvents(p, chosen))
          /\ left' = [c \in Clients |-> IF c \in batch[p] THEN left[c] - 1 ELSE left[c]]
          /\ queue' = [queue EXCEPT ![p] = @ \ finished]
          /\ batch' = [batch EXCEPT ![p] = chosen]
          /\ xfer_busy' = xfer_busy + n
          /\ xfer_queue' = SubSeq(waiting, n + 1, Len(waiting))
          /\ UNCHANGED <<per_step, dest, decodeVars>>

(* Mutant of Wakes: every landing schedules a step.                        *)
WakesAlways(d) == TRUE

(* A landing wakes a decode worker that has no step scheduled.             *)
Wakes(d) == ~ stepping[d]

(* on_kv_arrived: the buffer goes to whoever waits for one, the request to *)
(* its decode worker.                                                      *)
OnKvArrived(c) ==
  LET d == dest[c]
      busy == IF xfer_busy > 0 THEN xfer_busy - 1 ELSE 0
      n == Drained(busy, xfer_queue)
      wake == IF Wakes(d) THEN <<Event(0, "DecodeStep", d)>> ELSE <<>>
  IN /\ Pop("KvArrived", c, Transfers(xfer_queue, n) \o wake)
     /\ xfer_busy' = busy + n
     /\ xfer_queue' = SubSeq(xfer_queue, n + 1, Len(xfer_queue))
     /\ pending' = [pending EXCEPT ![d] = Append(@, c)]
     /\ stepping' = [stepping EXCEPT ![d] = TRUE]
     /\ UNCHANGED <<per_step, queue, batch, left, dest, free, held, emitted>>

(* Mutant of Admits: the head-room asked for is more than the pool has.    *)
AdmitsShy(d, n) ==
  LET headroom(k) == free[d] - (k - 1) * NeedBlocks >= NeedBlocks + 4 * WatermarkBlocks
  IN /\ \A k \in 1 .. n : headroom(k)
     /\ n = Len(pending[d]) \/ ~ headroom(n + 1)

(* admit_decode takes the first n pending requests: each has head-room,    *)
(* and the next one is refused, for want of blocks or by the controller,   *)
(* which refuses only while something runs.                                *)
Admits(d, n) ==
  LET headroom(k) == free[d] - (k - 1) * NeedBlocks >= NeedBlocks + WatermarkBlocks
  IN /\ \A k \in 1 .. n : headroom(k)
     /\ \/ n = Len(pending[d])
        \/ ~ headroom(n + 1)
        \/ Cardinality(Running(d)) + n > 0

(* Mutant of Finished: the token of this step is not counted.              *)
FinishedLate(tokens) == {c \in DOMAIN tokens : tokens[c] >= Osl}

(* on_step_synthetic: who finishes with this step.                         *)
Finished(tokens) == {c \in DOMAIN tokens : tokens[c] + 1 >= Osl}

(* Mutants of Booked: the budget does not bound the count; and a finished  *)
(* sequence stays in the running map.                                      *)
BookedPast(tokens) ==
  [c \in DOMAIN tokens \ Finished(tokens) |-> tokens[c] + per_step + 1]
BookedAll(tokens) == [c \in DOMAIN tokens |-> Min({tokens[c] + per_step, Osl})]

(* on_step: the tokens booked to the sequences that go on.                 *)
Booked(tokens) ==
  [c \in DOMAIN tokens \ Finished(tokens) |-> Min({tokens[c] + per_step, Osl})]

(* Mutant of Freed: a retired sequence's blocks are not given back.        *)
FreedNever(d, n, retired) == free[d] - n * NeedBlocks

(* The free blocks after n admissions and some retirements.                *)
Freed(d, n, retired) == free[d] - n * NeedBlocks + Cardinality(retired) * NeedBlocks

(* on_decode_step with something running: one step, whose finished         *)
(* sequences retire and release their clients, in the order of a HashMap.  *)
OnDecodeStep(d) ==
  \E n \in 0 .. Len(pending[d]) :
    LET admitted == ToSet(SubSeq(pending[d], 1, n))
        tokens == [c \in Running(d) \cup admitted |->
                     IF c \in admitted THEN 1 ELSE emitted[d][c]]
        done == Finished(tokens)
        ms == StepMs(Cardinality(DOMAIN tokens))
    IN /\ Admits(d, n)
       /\ DOMAIN tokens # {}
       /\ \E retired \in SetToSeqs(done) :
            Pop("DecodeStep", d,
                [k \in 1 .. Len(retired) |-> Event(ms, "Arrival", retired[k])]
                  \o <<Event(ms, "DecodeStep", d)>>)
       /\ pending' = [pending EXCEPT ![d] = SubSeq(@, n + 1, Len(@))]
       /\ emitted' = [emitted EXCEPT ![d] = Booked(tokens)]
       /\ free' = [free EXCEPT ![d] = Freed(d, n, done)]
       /\ held' = [held EXCEPT ![d] = (@ \cup admitted) \ done]
       /\ UNCHANGED <<per_step, prefillVars, xfer_busy, xfer_queue, stepping>>

(* on_decode_step with nothing running: retry later what could not be      *)
(* admitted, or stop stepping.                                             *)
OnDecodeIdle(d) ==
  /\ Admits(d, 0) /\ Running(d) = {}
  /\ Pop("DecodeStep", d, IF pending[d] = <<>> THEN <<>>
                          ELSE <<Event(StepMs(1), "DecodeStep", d)>>)
  /\ stepping' = [stepping EXCEPT ![d] = pending[d] # <<>>]
  /\ UNCHANGED <<per_step, prefillVars, xfer_busy, xfer_queue, pending, free,
                 held, emitted>>

Next ==
  \/ \E c \in Clients, p \in PrefillWorkers, d \in DecodeWorkers : OnArrival(c, p, d)
  \/ \E p \in PrefillWorkers : OnPrefillDone(p)
  \/ \E c \in Clients : OnKvArrived(c)
  \/ \E d \in DecodeWorkers : OnDecodeStep(d) \/ OnDecodeIdle(d)

(* run() is a loop: it handles the earliest event while there is one.      *)
Spec == Init /\ [][Next]_vars /\ WF_vars(Next)

-------------------------------------------------------------------------------
Scheduled(kind, who) ==
  Cardinality({k \in 1 .. Len(heap) : heap[k].kind = kind /\ heap[k].who = who})
Bool(b) == IF b THEN 1 ELSE 0

(* Every place where a client's request is found: an event, a position in  *)
(* a queue, a worker that runs it.                                         *)
EventsFor(c) ==
  {k \in 1 .. Len(heap) : heap[k].kind \in {"Arrival", "KvArrived"} /\ heap[k].who = c}
Positions(seq, c) == {k \in 1 .. Len(seq) : seq[k] = c}
Places(c) ==
  UNION {{<<"heap", k>> : k \in EventsFor(c)},
         {<<"queue", p>> : p \in {p \in PrefillWorkers : c \in queue[p]}},
         {<<"xfer_queue", k>> : k \in Positions(xfer_queue, c)},
         UNION {{<<"pending", d, k>> : k \in Positions(pending[d], c)} : d \in DecodeWorkers},
         {<<"running", d>> : d \in {d \in DecodeWorkers : c \in Running(d)}}}

(***************************************************************************)
(* The loop is closed: at any time each client has exactly one request,    *)
(* and it is in exactly one place: about to arrive, in a prefill queue,    *)
(* waiting for a buffer, in transfer, pending or running (sim.rs:469-471). *)
(***************************************************************************)
ClosedLoop == \A c \in Clients : Cardinality(Places(c)) = 1

(***************************************************************************)
(* No worker sleeps on work, and none is woken twice: a prefill worker     *)
(* with a queue runs one batch of it, a decode worker with pending or      *)
(* running requests has exactly one step scheduled (sim.rs:377-425).       *)
(***************************************************************************)
NoLostWakeup ==
  /\ \A p \in PrefillWorkers :
       /\ queue[p] # {} <=> batch[p] # {}
       /\ batch[p] \subseteq queue[p]
       /\ Scheduled("PrefillDone", p) = Bool(batch[p] # {})
  /\ \A d \in DecodeWorkers :
       /\ pending[d] # <<>> \/ Running(d) # {} => stepping[d]
       /\ Scheduled("DecodeStep", d) = Bool(stepping[d])

(***************************************************************************)
(* The transfer buffers are counted exactly and none is idle while a       *)
(* request waits for one (sim.rs:359-381).                                 *)
(***************************************************************************)
BuffersConserved ==
  LET buffers == Max({XferConcurrency, 1})
      flying == Cardinality({k \in 1 .. Len(heap) : heap[k].kind = "KvArrived"})
  IN /\ xfer_busy = flying /\ flying <= buffers
     /\ xfer_queue # <<>> => flying = buffers

(***************************************************************************)
(* A decode worker's blocks are free or held by a running sequence.        *)
(***************************************************************************)
BlocksBalanced ==
  \A d \in DecodeWorkers :
    /\ held[d] = Running(d)
    /\ free[d] + NeedBlocks * Cardinality(held[d]) = TotalBlocks

(***************************************************************************)
(* "Same engine, same token count" (sim.rs:131): a sequence that has       *)
(* emitted its budget does not stay for another step.                      *)
(***************************************************************************)
NeverOverstays ==
  \A d \in DecodeWorkers : \A c \in Running(d) : emitted[d][c] < Osl

(***************************************************************************)
(* Without speculation a sequence that has emitted its budget does not     *)
(* stay for another step.                                                  *)
(***************************************************************************)
RetiresOnTime == per_step = 1 /\ Osl > 1 => NeverOverstays

(***************************************************************************)
(* The closed loop turns: every client's request comes back as its next    *)
(* arrival, whatever the others do.                                        *)
(***************************************************************************)
ClientsReturn ==
  \A c \in Clients : []<>(Scheduled("Arrival", c) = 1)

(***************************************************************************)
(* Transfer buffers and blocks are counted exactly; with one token a step  *)
(* no sequence keeps its blocks past its budget.  A speculating one may    *)
(* (decode.rs:650), for a step.                                            *)
(***************************************************************************)
ResourcesExact == TypeOK /\ BuffersConserved /\ BlocksBalanced /\ RetiresOnTime
===============================================================================
