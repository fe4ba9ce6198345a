----------------------------- MODULE PrefillWorker -----------------------------
(***************************************************************************)
(* The prefill worker of crates/worker/src/prefill_worker.rs and the       *)
(* scheduler it owns, crates/sched/src/prefill.rs: one task that queues    *)
(* prompts, assembles a batch of chunks under the deadlines, finds KV      *)
(* pages for the chunks, runs the engine and reports first tokens.         *)
(*                                                                         *)
(* The task suspends in the engine and in its channels; meanwhile time     *)
(* passes and prompts arrive.  Pages are counted, not named.               *)
(***************************************************************************)
EXTENDS PrefillPolicy, FiniteSets

CONSTANTS
  NumReq,          \* requests are 1 .. NumReq
  Prompts,         \* what the prompt lengths of the requests may be, in tokens
  ChunkTokens,     \* chunk_tokens
  MaxSeqs,         \* max_seqs
  DemoteHopeless,  \* demote_hopeless
  Rates,           \* the rates the pool may be measured at, tokens/ms
  Pools,           \* the sizes the KV pool may have, in pages
  Reserve,         \* the pages of it that the watermark keeps
  BlockSize,       \* tokens per page
  Ttft,            \* first-token budget
  MaxNow           \* bound: the clock stops here

Req == 1 .. NumReq

ASSUME PrefillAssumption ==
  /\ NumReq \in Nat /\ Prompts \subseteq [Req -> Nat]
  /\ ChunkTokens \in Nat \ {0} /\ MaxSeqs \in Nat \ {0}
  /\ DemoteHopeless \in BOOLEAN
  /\ Rates \subseteq Nat \ {0} /\ Rates # {}
  /\ Pools \subseteq Nat /\ Reserve \in Nat /\ \A pages \in Pools : Reserve <= pages
  /\ BlockSize \in Nat \ {0}
  /\ Ttft \in Nat /\ MaxNow \in Nat

VARIABLES
  now,       \* the clock
  policy,    \* tuning.policy, fixed at start
  pool,      \* pages of the KV pool, fixed at start
  prompt,    \* prompt length of each request
  rate,      \* tuning.tokens_per_ms
  jobs,      \* the channel of prompts
  pc,        \* where run() is
  arrival,   \* arrival of each request, for those submitted
  order,     \* the scheduler's queue, in insertion order
  done,      \* done_tokens of each request
  demoted,   \* the requests the last plan gave up on
  free,      \* free pages
  held,      \* pages held for each request
  batch,     \* the batch the engine is running
  work,      \* the chunks of it that were given to the engine
  computed,  \* the tokens the engine computed (not in the source)
  sent       \* the requests whose first token was reported

fixed == <<policy, pool, prompt>>
prefillVars == <<now, fixed, rate, jobs, pc, arrival, order, done, demoted, free,
          held, batch, work, computed, sent>>

sched == <<rate, order, done, demoted>>
kv == <<free, held>>

Submitted == DOMAIN arrival
Queued == ToSet(order)
Deadline(r) == arrival[r] + Ttft

Chunk == [id : Req, start : Nat, tokens : Nat, completes : BOOLEAN]
NoBatch == [chunks |-> <<>>, total |-> 0, deadline |-> MaxNow + Ttft,
            stop |-> FALSE]

PrefillTypeOK ==
  /\ now \in 0 .. MaxNow /\ policy \in Policies /\ pool \in Pools
  /\ prompt \in Prompts /\ rate \in Rates
  /\ jobs \in Seq(Req)
  /\ pc \in {"top", "plan", "engine", "stopped"}
  /\ Submitted \subseteq Req /\ \A r \in Submitted : arrival[r] \in 0 .. MaxNow
  /\ order \in Seq(Req) /\ demoted \subseteq Queued
  /\ \A r \in Req : done[r] \in 0 .. prompt[r]
  /\ free \in 0 .. pool /\ \A r \in Req : held[r] \in 0 .. pool
  /\ batch.chunks \in Seq(Chunk) /\ work \in Seq(Chunk)
  /\ \A r \in Req : computed[r] \subseteq 0 .. prompt[r] - 1
  /\ sent \subseteq Req

PrefillInit ==
  /\ now = 0
  /\ policy \in Policies
  /\ pool \in Pools
  /\ prompt \in Prompts
  /\ rate \in Rates
  /\ jobs = <<>>
  /\ pc = "top"
  /\ arrival = [r \in {} |-> 0]
  /\ order = <<>>
  /\ done = [r \in Req |-> 0]
  /\ demoted = {}
  /\ free = pool
  /\ held = [r \in Req |-> 0]
  /\ batch = NoBatch
  /\ work = <<>>
  /\ computed = [r \in Req |-> {}]
  /\ sent = {}

-------------------------------------------------------------------------------
(* f[1] + ... + f[n].                                                      *)
Sum(n, f) ==
  LET upto[k \in 0 .. n] == IF k = 0 THEN 0 ELSE upto[k - 1] + f[k]
  IN upto[n]

(* The part of f that is about the members of S.                           *)
Of(S, f) == [i \in DOMAIN f |-> IF i \in S THEN f[i] ELSE 0]

Tick ==
  /\ now < MaxNow
  /\ now' = now + 1
  /\ UNCHANGED <<fixed, jobs, pc, arrival, sched, kv, batch, work, computed,
                 sent>>

(* A prompt arrives, while its deadline is within the clock's range.       *)
Submit(r) ==
  /\ r \notin Submitted
  /\ pc # "stopped"
  /\ now + Ttft < MaxNow
  /\ arrival' = [q \in Submitted \cup {r} |->
                   IF q = r THEN now ELSE arrival[q]]
  /\ jobs' = Append(jobs, r)
  /\ UNCHANGED <<now, fixed, pc, sched, kv, batch, work, computed, sent>>

(* recv if the queue is empty, then try_recv the rest.                     *)
Gather ==
  /\ pc = "top"
  /\ order # <<>> \/ jobs # <<>>
  /\ order' = order \o jobs
  /\ jobs' = <<>>
  /\ pc' = "plan"
  /\ UNCHANGED <<now, fixed, rate, arrival, done, demoted, kv, batch, work,
                 computed, sent>>

(* The channel is closed and drained, and nothing is queued: run() ends.   *)
Shut ==
  /\ pc = "top" /\ order = <<>> /\ jobs = <<>>
  /\ pc' = "stopped"
  /\ UNCHANGED <<now, fixed, jobs, arrival, sched, kv, batch, work, computed,
                 sent>>

Remaining(r) == prompt[r] - done[r]

QueuedJobs ==
  [i \in DOMAIN order |->
    [id |-> order[i], arrival |-> arrival[order[i]],
     deadline |-> Deadline(order[i]), service |-> Remaining(order[i])]]

(* Mutant of AddChunk: the deadlines already in the batch do not bind.     *)
AddChunkGreedy(pass, b, r) ==
  LET budget == ChunkTokens - b.total
      want == IF Remaining(r) < budget THEN Remaining(r) ELSE budget
  IN IF b.stop \/ Len(b.chunks) >= MaxSeqs \/ want = 0 THEN b
     ELSE [chunks |-> Append(b.chunks,
             [id |-> r, start |-> done[r], tokens |-> want,
              completes |-> want = Remaining(r)]),
           total |-> b.total + want, deadline |-> Deadline(r), stop |-> FALSE]

(* Mutant of AddChunk: the rest of the prompt does not bound the chunk.    *)
AddChunkWhole(pass, b, r) ==
  LET want == ChunkTokens - b.total
  IN IF b.stop \/ Len(b.chunks) >= MaxSeqs \/ want = 0 THEN b
     ELSE [chunks |-> Append(b.chunks,
             [id |-> r, start |-> done[r], tokens |-> want,
              completes |-> want >= Remaining(r)]),
           total |-> b.total + want, deadline |-> Deadline(r), stop |-> FALSE]

(* One candidate of plan(): pass is whether it is a demoted one.  The      *)
(* first sequence goes in whatever its deadline; another one only if the   *)
(* batch still finishes by the earliest deadline in it, and the first      *)
(* demoted one that does not fit ends the pass.                            *)
AddChunk(pass, b, r) ==
  LET budget == ChunkTokens - b.total
      want == IF Remaining(r) < budget THEN Remaining(r) ELSE budget
      deadline == IF ~ pass /\ Deadline(r) < b.deadline
                    THEN Deadline(r) ELSE b.deadline
  IN IF b.stop \/ Len(b.chunks) >= MaxSeqs \/ want = 0 THEN b
     ELSE IF b.chunks # <<>> /\ deadline # NoBatch.deadline
             /\ Late(now, rate, b.total + want, deadline)
       THEN [b EXCEPT !.stop = pass]
     ELSE [chunks |-> Append(b.chunks,
             [id |-> r, start |-> done[r], tokens |-> want,
              completes |-> want = Remaining(r)]),
           total |-> b.total + want, deadline |-> deadline, stop |-> FALSE]

(* PrefillScheduler::plan(): the batch, and who was given up on.           *)
Ordering == OrderJobs(QueuedJobs, now, rate, policy)
HopelessOf(ordering) == IF DemoteHopeless THEN ordering.demoted ELSE <<>>
Pass(pass, b, ids) ==
  LET after[n \in 0 .. Len(ids)] ==
        IF n = 0 THEN b ELSE AddChunk(pass, after[n - 1], ids[n])
  IN after[Len(ids)]

(* Mutant of Planned: only those that can make it are considered.          *)
PlannedOnTime(ordering) == Pass(FALSE, NoBatch, ordering.on_time)
Planned(ordering) ==
  Pass(TRUE, Pass(FALSE, NoBatch, ordering.on_time), HopelessOf(ordering))

BlocksFor(tokens) == (tokens + BlockSize - 1) \div BlockSize

(* Mutant of FindPages: the pages a chunk holds already are not counted.   *)
FindPagesAnew(acc, c) ==
  LET extra == BlocksFor(c.start + c.tokens)
  IN IF acc.stop \/ acc.free < extra + Reserve
       THEN [acc EXCEPT !.stop = TRUE]
       ELSE [acc EXCEPT !.free = @ - extra, !.held[c.id] = extra,
                        !.work = Append(@, c)]

(* Pages for one chunk of the batch; the first chunk that finds none ends  *)
(* the search.                                                             *)
FindPages(acc, c) ==
  LET want == BlocksFor(c.start + c.tokens)
      extra == IF want > acc.held[c.id] THEN want - acc.held[c.id] ELSE 0
  IN IF acc.stop \/ (extra > 0 /\ acc.free < extra + Reserve)
       THEN [acc EXCEPT !.stop = TRUE]
       ELSE [acc EXCEPT !.free = @ - extra, !.held[c.id] = @ + extra,
                        !.work = Append(@, c)]

Found(chunks) ==
  LET after[n \in 0 .. Len(chunks)] ==
        IF n = 0 THEN [free |-> free, held |-> held, work |-> <<>>, stop |-> FALSE]
        ELSE FindPages(after[n - 1], chunks[n])
  IN after[Len(chunks)]

(* Plan, and find pages: without a chunk, or without pages for the first   *)
(* one, the loop starts over.                                              *)
Plan ==
  LET ordering == Ordering
      b == Planned(ordering)
      found == Found(b.chunks)
  IN /\ pc = "plan"
     /\ demoted' = ToSet(HopelessOf(ordering))
     /\ free' = found.free
     /\ held' = found.held
     /\ IF found.work = <<>>
          THEN pc' = "top" /\ UNCHANGED <<batch, work>>
          ELSE pc' = "engine" /\ batch' = b /\ work' = found.work
     /\ UNCHANGED <<now, fixed, jobs, arrival, rate, order, done, computed,
                    sent>>

(* PrefillScheduler::complete(), which is given the batch as planned.      *)
DoneAfter(r) ==
  LET booked == Sum(Len(batch.chunks),
                    [i \in DOMAIN batch.chunks |->
                       IF batch.chunks[i].id = r THEN batch.chunks[i].tokens ELSE 0])
  IN IF done[r] + booked < prompt[r] THEN done[r] + booked ELSE prompt[r]

FinishedNow ==
  {batch.chunks[i].id : i \in DOMAIN batch.chunks}
    \cap {r \in Req : DoneAfter(r) = prompt[r]}

(* s without the members of S.                                             *)
Without(s, S) ==
  LET kept[n \in 0 .. Len(s)] ==
        IF n = 0 THEN <<>>
        ELSE IF s[n] \in S THEN kept[n - 1] ELSE Append(kept[n - 1], s[n])
  IN kept[Len(s)]

(* The engine computed the chunks it was given; complete() books the batch *)
(* and takes what is finished off the queue.                               *)
Booked ==
  /\ computed' = [r \in Req |-> computed[r] \cup
       UNION {c.start .. c.start + c.tokens - 1 :
                c \in {d \in ToSet(work) : d.id = r}}]
  /\ rate' \in Rates
  /\ done' = [r \in Req |-> DoneAfter(r)]
  /\ order' = Without(order, FinishedNow)
  /\ demoted' = demoted \ FinishedNow

(* The requests the engine sampled a first token for.                      *)
FirstTokens == {c.id : c \in {d \in ToSet(work) : d.completes}}

(* The engine answers: the batch is booked, the first tokens are sent, and *)
(* finished prompts give their pages back.                                 *)
Complete ==
  /\ pc = "engine"
  /\ Booked
  /\ sent' = sent \cup FirstTokens
  /\ free' = free + Sum(NumReq, Of(FinishedNow, held))
  /\ held' = [r \in Req |-> IF r \in FinishedNow THEN 0 ELSE held[r]]
  /\ pc' = "top" /\ batch' = NoBatch /\ work' = <<>>
  /\ UNCHANGED <<now, fixed, jobs, arrival>>

(* The receiver of first tokens is gone: run() returns in the middle of    *)
(* sending them, with the batch booked and the pages not given back.       *)
Hangup ==
  /\ pc = "engine"
  /\ FirstTokens # {}
  /\ Booked
  /\ \E some \in SUBSET FirstTokens :
       some # FirstTokens /\ sent' = sent \cup some
  /\ pc' = "stopped" /\ batch' = NoBatch /\ work' = <<>>
  /\ UNCHANGED <<now, fixed, jobs, arrival, kv>>

(* Mutant of EngineFails: the failed batch is booked.                      *)
EngineFailsBooked ==
  /\ pc = "engine"
  /\ done' = [r \in Req |-> DoneAfter(r)]
  /\ pc' = "top" /\ batch' = NoBatch /\ work' = <<>>
  /\ UNCHANGED <<now, fixed, jobs, arrival, rate, order, demoted, kv,
                 computed, sent>>

(* The engine fails: logged, nothing booked, the pages stay.               *)
EngineFails ==
  /\ pc = "engine"
  /\ pc' = "top" /\ batch' = NoBatch /\ work' = <<>>
  /\ UNCHANGED <<now, fixed, jobs, arrival, sched, kv, computed, sent>>

PrefillNext ==
  \/ Tick
  \/ \E r \in Req : Submit(r)
  \/ Gather \/ Shut \/ Plan \/ Complete \/ Hangup \/ EngineFails

PrefillSpec == PrefillInit /\ [][PrefillNext]_prefillVars

(***************************************************************************)
(* The task runs, and an engine that is asked again and again answers.     *)
(* Plan is always possible at "plan" and the only way to leave it, so its  *)
(* weak fairness is that of the change of pc it makes.                     *)
(***************************************************************************)
LeavePlan == pc = "plan" /\ pc' \in {"top", "engine"}

PrefillFairness == WF_prefillVars(Gather) /\ WF_pc(LeavePlan) /\ SF_prefillVars(Complete)

FairPrefillSpec == PrefillSpec /\ PrefillFairness

-------------------------------------------------------------------------------
(***************************************************************************)
(* Pages are neither lost nor doubled across partial chunks, failed        *)
(* batches, chunks without pages and finished prompts, a prompt that has   *)
(* left the queue holds none, and the reserve is never touched.            *)
(***************************************************************************)
PagesBalanced ==
  /\ free + Sum(NumReq, held) = pool
  /\ free >= Reserve
  /\ pc # "stopped" => \A r \in Req \ Queued : held[r] = 0

(***************************************************************************)
(* "a sequence is added only if the enlarged batch still finishes before   *)
(* the earliest first-token deadline already in it" (prefill.rs:14): no    *)
(* member of a batch of several is made late by the others, except those   *)
(* already given up on.                                                    *)
(***************************************************************************)
BatchMeetsDeadlines ==
  [][pc = "plan" /\ pc' = "engine" /\ Len(batch'.chunks) > 1 =>
       \A c \in ToSet(batch'.chunks) :
         c.id \in demoted' \/ ~ Late(now, rate, batch'.total, Deadline(c.id))
    ]_prefillVars

(***************************************************************************)
(* "A chunk that cannot get KV is dropped from this batch and retried next *)
(* round rather than failing the request" (prefill_worker.rs:117): what    *)
(* the scheduler books as done was computed, and a prompt that leaves the  *)
(* queue has reported its first token.                                     *)
(***************************************************************************)
BookedIsComputed ==
  pc # "stopped" =>
    \A r \in Submitted :
      /\ computed[r] = 0 .. done[r] - 1
      /\ r \in Queued \cup ToSet(jobs) \cup sent

(* Pages for every prompt at once.                                         *)
Ample == pool >= Reserve + Sum(NumReq, [r \in Req |-> BlocksFor(prompt[r])])

(***************************************************************************)
(* The same with pages for every prompt: no failed batch, chunk boundary   *)
(* or reordering between two plans makes the scheduler book a token twice, *)
(* or one that was not computed.                                           *)
(***************************************************************************)
BookedWhenAmple == Ample => BookedIsComputed

(***************************************************************************)
(* With pages for every prompt each one gets its first token, in time or   *)
(* not: the demoted ones "are still served" (policy.rs:22).  An empty one, *)
(* which plan() skips for ever (prefill.rs:245), keeps its place in the    *)
(* queue and in nobody's way.                                              *)
(***************************************************************************)
StillServed ==
  \A r \in Req : Ample /\ prompt[r] > 0 /\ r \in Submitted ~> (r \in sent \/ pc = "stopped")

(***************************************************************************)
(* An ordering (policy.rs:72) has every queued prompt once, on time or     *)
(* demoted, under every policy: none is forgotten.                         *)
(***************************************************************************)
OrderingIsPermutation ==
  pc = "plan" =>
    LET all == Ordering.on_time \o Ordering.demoted
    IN Len(all) = Len(order) /\ ToSet(all) = Queued

(* A set of jobs can be on time iff earliest deadline first is.            *)
WorkBy(queue, set, d) ==
  Sum(Len(queue), Of({i \in set : queue[i].deadline <= d},
                     [i \in DOMAIN queue |-> queue[i].service]))
Feasible(queue, set) ==
  \A i \in set : ~ Late(now, rate, WorkBy(queue, set, queue[i].deadline),
                        queue[i].deadline)

(***************************************************************************)
(* "Moore-Hodgson, the optimal algorithm" (policy.rs:62): of the prompts   *)
(* queued at any plan, with whatever deadlines, those it keeps are all on  *)
(* time in the order it gives, and no other choice keeps more of them.     *)
(***************************************************************************)
MooreHodgsonOptimal ==
  pc = "plan" /\ policy = "MooreHodgson" /\ (\A r \in Queued : prompt[r] > 0) =>
    \A deadline \in [DOMAIN order -> now .. now + Ttft] :
      LET queue == [i \in DOMAIN order |->
                      [QueuedJobs[i] EXCEPT !.deadline = deadline[i]]]
          kept == MooreHodgson(queue, now, rate).on_time
      IN /\ Feasible(queue, {i \in DOMAIN order : order[i] \in ToSet(kept)})
         /\ \A i, j \in DOMAIN kept, k, l \in DOMAIN order :
              /\ i < j /\ kept[i] = order[k] /\ kept[j] = order[l]
              => deadline[k] <= deadline[l]
         /\ \A set \in SUBSET DOMAIN order :
              Feasible(queue, set) => Cardinality(set) <= Len(kept)

(***************************************************************************)
(* The books of the prefill worker: pages across partial and failed        *)
(* chunks, and progress where pages are ample.                             *)
(***************************************************************************)
BooksBalanced == PrefillTypeOK /\ PagesBalanced /\ BookedWhenAmple

(***************************************************************************)
(* The orderings lose nobody, and Moore-Hodgson's is optimal.              *)
(***************************************************************************)
OrderingOptimal == OrderingIsPermutation /\ MooreHodgsonOptimal
===============================================================================
