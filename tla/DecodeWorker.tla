----------------------------- MODULE DecodeWorker -----------------------------
(***************************************************************************)
(* The decode worker of crates/worker/src/decode_worker.rs: one task that  *)
(* takes jobs from a channel, admits them in order while there is KV and   *)
(* the scheduler agrees, drives the engine, and reports tokens and ends.   *)
(*                                                                         *)
(* The task suspends in every call of the engine and in every send; what   *)
(* the rest of the system does meanwhile is to submit more jobs, or to     *)
(* close either end of its channels.  The scheduler's opinion is left open *)
(* except that it takes a sequence when none runs (IdleAdmits of module    *)
(* DecodeScheduler), and a page is a model value (module KvCache has the   *)
(* allocator itself).                                                      *)
(***************************************************************************)
EXTENDS Integers, Sequences, FiniteSets

CONSTANTS
  Req,       \* requests
  Page,      \* KV pages of the worker's pool
  Need,      \* pages each request needs, by request
  Reserve    \* pages the watermark keeps back

ASSUME WorkerAssumption ==
  /\ IsFiniteSet(Req) /\ IsFiniteSet(Page)
  /\ Need \in [Req -> Nat]
  /\ Reserve \in 0 .. Cardinality(Page)

VARIABLES
  jobs,      \* the channel of jobs
  closed,    \* the senders of jobs are gone
  pc,        \* where run() is
  pending,   \* the jobs taken from the channel and not admitted
  free,      \* free pages of the pool
  kv,        \* the pages held for each request
  attached,  \* the sequences the engine has (external)
  running,   \* the sequences the scheduler has
  tokens,    \* tokens of the last step not reported yet
  done,      \* sequences of the last step not retired yet
  status     \* what became of each request

vars == <<jobs, closed, pc, pending, free, kv, attached, running, tokens,
          done, status>>

(***************************************************************************)
(* "top": about to drain the channel.  "recv": idle, awaiting a job.       *)
(* "admit": at the head of the admission loop.  "adding": awaiting         *)
(* add_decode_seq.  "step": about to step the engine.  "emit": reporting   *)
(* the outcome.  "stopped": run() has returned.                            *)
(***************************************************************************)
Location == {"top", "recv", "admit", "adding", "step", "emit", "stopped"}

(* status is what the other side of the event channel knows; "dropped" and *)
(* "submitted" look the same to it.                                        *)
Status == {"new", "submitted", "dropped", "streaming", "finished"}

Held(r) == kv[r] # {}

TypeOK ==
  /\ jobs \in Seq(Req) /\ pending \in Seq(Req)
  /\ closed \in BOOLEAN
  /\ pc \in Location
  /\ free \subseteq Page
  /\ kv \in [Req -> SUBSET Page]
  /\ \A r \in Req : Held(r) => Cardinality(kv[r]) = Need[r]
  /\ attached \subseteq Req /\ running \subseteq Req
  /\ tokens \subseteq Req /\ done \subseteq Req
  /\ status \in [Req -> Status]

Init ==
  /\ jobs = <<>> /\ pending = <<>>
  /\ closed = FALSE
  /\ pc = "top"
  /\ free = Page
  /\ kv = [r \in Req |-> {}]
  /\ attached = {} /\ running = {}
  /\ tokens = {} /\ done = {}
  /\ status = [r \in Req |-> "new"]

-------------------------------------------------------------------------------
(* The prefill side hands a request over.                                  *)
Submit(r) ==
  /\ status[r] = "new"
  /\ ~ closed
  /\ jobs' = Append(jobs, r)
  /\ status' = [status EXCEPT ![r] = "submitted"]
  /\ UNCHANGED <<closed, pc, pending, free, kv, attached, running, tokens,
                 done>>

CloseJobs ==
  /\ ~ closed
  /\ closed' = TRUE
  /\ UNCHANGED <<jobs, pc, pending, free, kv, attached, running, tokens,
                 done, status>>

(* Mutant of Drain: a running sequence does not keep it from awaiting.     *)
DrainBlocking ==
  /\ pc = "top"
  /\ pending' = pending \o jobs
  /\ jobs' = <<>>
  /\ pc' = IF pending' = <<>> THEN "recv" ELSE "admit"
  /\ UNCHANGED <<closed, free, kv, attached, running, tokens, done, status>>

(* try_recv until the channel is empty, then recv if there is nothing to   *)
(* do at all.                                                              *)
Drain ==
  /\ pc = "top"
  /\ pending' = pending \o jobs
  /\ jobs' = <<>>
  /\ pc' = IF running = {} /\ pending' = <<>> THEN "recv" ELSE "admit"
  /\ UNCHANGED <<closed, free, kv, attached, running, tokens, done, status>>

Receive ==
  /\ pc = "recv"
  /\ jobs # <<>>
  /\ pending' = Append(pending, Head(jobs))
  /\ jobs' = Tail(jobs)
  /\ pc' = "admit"
  /\ UNCHANGED <<closed, free, kv, attached, running, tokens, done, status>>

(* recv() returned None: the senders are gone and nothing is queued.       *)
Finish ==
  /\ pc = "recv"
  /\ jobs = <<>>
  /\ closed
  /\ pc' = "stopped"
  /\ UNCHANGED <<jobs, closed, pending, free, kv, attached, running, tokens,
                 done, status>>

(* Mutant of Headroom: the reserve is not kept back.                       *)
HeadroomBare(r) == Cardinality(free) >= Need[r]

(* BlockPool::can_admit.                                                   *)
Headroom(r) == Cardinality(free) >= Need[r] + Reserve

(* The admission loop ends: nothing pending, no KV for the head, or the    *)
(* scheduler refuses (AtCap, WouldSpoilRunning), which takes a running     *)
(* sequence.  Without a running sequence the loop starts over.             *)
Refuse ==
  /\ pc = "admit"
  /\ \/ pending = <<>>
     \/ pending # <<>> /\ ~ Headroom(Head(pending))
     \/ pending # <<>> /\ Headroom(Head(pending)) /\ running # {}
  /\ pc' = IF running = {} THEN "top" ELSE "step"
  /\ UNCHANGED <<jobs, closed, pending, free, kv, attached, running, tokens,
                 done, status>>

(* Mutant of Allocate: a page short, as without the tokens to come.        *)
AllocateShort ==
  /\ pc = "admit"
  /\ pending # <<>>
  /\ Headroom(Head(pending))
  /\ \E pages \in SUBSET free :
       /\ Cardinality(pages) = Need[Head(pending)] - 1
       /\ free' = free \ pages
       /\ kv' = [kv EXCEPT ![Head(pending)] = pages]
  /\ pc' = "adding"
  /\ UNCHANGED <<jobs, closed, pending, attached, running, tokens, done,
                 status>>

(* The head is admitted: its pages are taken, the engine is asked.         *)
Allocate ==
  /\ pc = "admit"
  /\ pending # <<>>
  /\ Headroom(Head(pending))
  /\ \E pages \in SUBSET free :
       /\ Cardinality(pages) = Need[Head(pending)]
       /\ free' = free \ pages
       /\ kv' = [kv EXCEPT ![Head(pending)] = pages]
  /\ pc' = "adding"
  /\ UNCHANGED <<jobs, closed, pending, attached, running, tokens, done,
                 status>>

(* add_decode_seq succeeded.                                               *)
Attach ==
  LET r == Head(pending) IN
  /\ pc = "adding"
  /\ attached' = attached \cup {r}
  /\ running' = running \cup {r}
  /\ status' = [status EXCEPT ![r] = "streaming"]
  /\ pending' = Tail(pending)
  /\ pc' = "admit"
  /\ UNCHANGED <<jobs, closed, free, kv, tokens, done>>

(* Mutant of AttachFails: the pages are not given back.                    *)
AttachFailsLeaking ==
  LET r == Head(pending) IN
  /\ pc = "adding"
  /\ kv' = [kv EXCEPT ![r] = {}]
  /\ status' = [status EXCEPT ![r] = "dropped"]
  /\ pending' = Tail(pending)
  /\ pc' = "admit"
  /\ UNCHANGED <<jobs, closed, free, attached, running, tokens, done>>

(* add_decode_seq failed: the pages go back, the job is forgotten and no   *)
(* event is sent for it.                                                   *)
AttachFails ==
  LET r == Head(pending) IN
  /\ pc = "adding"
  /\ free' = free \cup kv[r]
  /\ kv' = [kv EXCEPT ![r] = {}]
  /\ status' = [status EXCEPT ![r] = "dropped"]
  /\ pending' = Tail(pending)
  /\ pc' = "admit"
  /\ UNCHANGED <<jobs, closed, attached, running, tokens, done>>

(* decode_step succeeded and on_step was told: the engine reports on the   *)
(* sequences it has.                                                       *)
Step(advanced, finished) ==
  /\ pc = "step"
  /\ advanced \subseteq attached
  /\ finished \subseteq attached
  /\ tokens' = advanced
  /\ done' = finished \cap running
  /\ running' = running \ finished
  /\ pc' = "emit"
  /\ UNCHANGED <<jobs, closed, pending, free, kv, attached, status>>

(* decode_step failed: logged, and the loop goes on.                       *)
StepFails ==
  /\ pc = "step"
  /\ pc' = "top"
  /\ UNCHANGED <<jobs, closed, pending, free, kv, attached, running, tokens,
                 done, status>>

(* One Token event.                                                        *)
SendToken(r) ==
  /\ pc = "emit"
  /\ r \in tokens
  /\ tokens' = tokens \ {r}
  /\ UNCHANGED <<jobs, closed, pc, pending, free, kv, attached, running,
                 done, status>>

(* Mutants of Retire: its pages are kept; the engine is not told; the end  *)
(* is reported before the tokens are.                                      *)
RetireKeeping(r) ==
  /\ pc = "emit"
  /\ tokens = {}
  /\ r \in done
  /\ done' = done \ {r}
  /\ attached' = attached \ {r}
  /\ status' = [status EXCEPT ![r] = "finished"]
  /\ UNCHANGED <<jobs, closed, pc, pending, free, kv, running, tokens>>
RetireAttached(r) ==
  /\ pc = "emit"
  /\ tokens = {}
  /\ r \in done
  /\ done' = done \ {r}
  /\ free' = free \cup kv[r]
  /\ kv' = [kv EXCEPT ![r] = {}]
  /\ status' = [status EXCEPT ![r] = "finished"]
  /\ UNCHANGED <<jobs, closed, pc, pending, attached, running, tokens>>
RetireEarly(r) ==
  /\ pc = "emit"
  /\ r \in done
  /\ done' = done \ {r}
  /\ free' = free \cup kv[r]
  /\ kv' = [kv EXCEPT ![r] = {}]
  /\ attached' = attached \ {r}
  /\ status' = [status EXCEPT ![r] = "finished"]
  /\ UNCHANGED <<jobs, closed, pc, pending, running, tokens>>

(* One finished sequence, after every token: its pages go back, the engine *)
(* forgets it, and a Finished event is sent.  The loop suspends between    *)
(* these, but nothing else takes pages or admits: it is the same task.     *)
Retire(r) ==
  /\ pc = "emit"
  /\ tokens = {}
  /\ r \in done
  /\ done' = done \ {r}
  /\ free' = free \cup kv[r]
  /\ kv' = [kv EXCEPT ![r] = {}]
  /\ attached' = attached \ {r}
  /\ status' = [status EXCEPT ![r] = "finished"]
  /\ UNCHANGED <<jobs, closed, pc, pending, running, tokens>>

Loop ==
  /\ pc = "emit"
  /\ tokens = {} /\ done = {}
  /\ pc' = "top"
  /\ UNCHANGED <<jobs, closed, pending, free, kv, attached, running, tokens,
                 done, status>>

(* The event channel was closed: a send fails and run() returns.  The      *)
(* sequence whose Finished could not be sent has been released by then.    *)
Hangup ==
  /\ pc = "emit"
  /\ \/ /\ tokens # {}
        /\ UNCHANGED <<free, kv, attached>>
     \/ /\ tokens = {}
        /\ \E r \in done :
             /\ free' = free \cup kv[r]
             /\ kv' = [kv EXCEPT ![r] = {}]
             /\ attached' = attached \ {r}
  /\ pc' = "stopped"
  /\ UNCHANGED <<jobs, closed, pending, running, tokens, done, status>>

Emit == Loop \/ \E r \in Req : SendToken(r) \/ Retire(r)
Report ==
  \E advanced, finished \in SUBSET attached : Step(advanced, finished)

Next ==
  \/ \E r \in Req : Submit(r)
  \/ CloseJobs \/ Drain \/ Receive \/ Finish \/ Refuse \/ Allocate
  \/ Attach \/ AttachFails \/ Report \/ StepFails \/ Emit \/ Hangup

Spec == Init /\ [][Next]_vars

(***************************************************************************)
(* The task runs whenever it can, the engine answers, an add or a step     *)
(* that is tried again and again succeeds once, and the engine ends every  *)
(* sequence it steps often enough, since each has a token budget.  The     *)
(* receiver of the events drains them.                                     *)
(***************************************************************************)
Fairness ==
  /\ WF_vars(Drain) /\ WF_vars(Receive) /\ WF_vars(Refuse)
  /\ WF_vars(Allocate)
  /\ WF_vars(Attach \/ AttachFails)
  /\ WF_vars(Emit)
  /\ WF_vars(Report \/ StepFails)
  /\ \A r \in Req :
       SF_vars(\E finished \in SUBSET attached :
                 r \in finished /\ Step({}, finished))

FairSpec == Spec /\ Fairness

-------------------------------------------------------------------------------
(***************************************************************************)
(* No page is in two hands, and none is lost: the free pages and the ones  *)
(* held for each request partition the pool, and pages are held exactly    *)
(* for the sequence being added and those running or about to be retired.  *)
(* A page released twice, or kept after a failed add, would break it.      *)
(***************************************************************************)
PagesPartitioned ==
  /\ free \cup UNION {kv[r] : r \in Req} = Page
  /\ \A r \in Req : kv[r] \cap free = {}
  /\ \A r, q \in Req : r # q => kv[r] \cap kv[q] = {}

HeldByLive ==
  \A r \in Req : Held(r) =>
    \/ r \in running \cup done
    \/ pc = "adding" /\ r = Head(pending)

(***************************************************************************)
(* "Would admitting a sequence ... leave the pool above its watermark?"    *)
(* (pool.rs:106): the reserve survives every admission, failure and        *)
(* retirement.                                                             *)
(***************************************************************************)
ReserveKept == Cardinality(free) >= Reserve

(***************************************************************************)
(* Between two steps the scheduler and the engine agree on which sequences *)
(* run; a sequence the scheduler forgot would keep the engine's slot.      *)
(***************************************************************************)
SchedulerAgreesWithEngine ==
  pc \notin {"emit", "stopped"} => attached = running

(***************************************************************************)
(* A request's Finished event comes after all its tokens: no token is left *)
(* to report for a finished one.                                           *)
(***************************************************************************)
FinishedIsLast == \A r \in tokens : status[r] = "streaming"

(***************************************************************************)
(* Every submitted request is settled: it finishes, or the engine refused  *)
(* it.  It takes a pool in which each request fits on its own.             *)
(***************************************************************************)
SubmittedSettles ==
  \A r \in Req :
    status[r] = "submitted" ~> \/ status[r] \in {"finished", "dropped"}
                               \/ pc = "stopped"

(***************************************************************************)
(* The pages of the pool are free or held by one live sequence, which has  *)
(* as many as it needs, and the reserve is free.                           *)
(***************************************************************************)
PagesAccounted == TypeOK /\ PagesPartitioned /\ HeldByLive /\ ReserveKept

(***************************************************************************)
(* Scheduler, engine and clients agree on which sequences are running and  *)
(* which have ended.                                                       *)
(***************************************************************************)
SequencesAccounted == SchedulerAgreesWithEngine /\ FinishedIsLast
===============================================================================
