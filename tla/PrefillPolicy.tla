----------------------------- MODULE PrefillPolicy -----------------------------
(***************************************************************************)
(* The queue orderings of crates/sched/src/policy.rs, as operators on a    *)
(* sequence of jobs.                                                       *)
(*                                                                         *)
(* The source divides the tokens of a job by the rate of the pool and adds *)
(* times; here both sides of every comparison are multiplied by the rate,  *)
(* so that service is in tokens and Late says whether so many tokens,      *)
(* started now, miss a deadline.                                           *)
(***************************************************************************)
EXTENDS Integers, SequencesExt

Policies == {"Fcfs", "Edf", "MooreHodgson"}

Late(now, rate, tokens, deadline) == tokens > (deadline - now) * rate

ByArrival(a, b) ==
  a.arrival < b.arrival \/ (a.arrival = b.arrival /\ a.id < b.id)
ByDeadline(a, b) ==
  a.deadline < b.deadline \/ (a.deadline = b.deadline /\ a.id < b.id)

(* The longest job; ties go to the later deadline, then to the higher id.  *)
Longer(a, b) ==
  \/ a.service > b.service
  \/ a.service = b.service /\ ByDeadline(b, a)

JobIds(jobs) == [i \in DOMAIN jobs |-> jobs[i].id]

(* sort_by: the jobs, each before those that should follow it.             *)
SortJobs(jobs, before(_, _)) ==
  LET place == CHOOSE p \in [DOMAIN jobs -> DOMAIN jobs] :
                 \A i, j \in DOMAIN jobs : i < j => before(jobs[p[i]], jobs[p[j]])
  IN [i \in DOMAIN jobs |-> jobs[place[i]]]

Victim(accepted) ==
  CHOOSE v \in DOMAIN accepted :
    \A i \in DOMAIN accepted \ {v} : Longer(accepted[v], accepted[i])

(* Mutants of Accept: the evicted job is forgotten; the job that made the  *)
(* schedule late is the one evicted.                                       *)
AcceptForgets(now, rate, acc, job) ==
  LET accepted == Append(acc.accepted, job)
      clock == acc.clock + job.service
      v == Victim(accepted)
  IN IF Late(now, rate, clock, job.deadline)
       THEN [acc EXCEPT !.accepted = RemoveAt(accepted, v),
                        !.clock = clock - accepted[v].service]
       ELSE [acc EXCEPT !.accepted = accepted, !.clock = clock]
AcceptEvictLast(now, rate, acc, job) ==
  LET clock == acc.clock + job.service IN
  IF Late(now, rate, clock, job.deadline)
    THEN [acc EXCEPT !.demoted = Append(@, job)]
    ELSE [acc EXCEPT !.accepted = Append(@, job), !.clock = clock]

(* One job of the walk in deadline order: take it on, and once the         *)
(* schedule is late give up the longest job taken on so far.               *)
Accept(now, rate, acc, job) ==
  LET accepted == Append(acc.accepted, job)
      clock == acc.clock + job.service
      v == Victim(accepted)
  IN IF Late(now, rate, clock, job.deadline)
       THEN [accepted |-> RemoveAt(accepted, v),
             demoted |-> Append(acc.demoted, accepted[v]),
             clock |-> clock - accepted[v].service]
       ELSE [acc EXCEPT !.accepted = accepted, !.clock = clock]

MooreHodgson(jobs, now, rate) ==
  LET by_deadline == SortJobs(jobs, ByDeadline)
      walk[n \in 0 .. Len(jobs)] ==
        IF n = 0 THEN [accepted |-> <<>>, demoted |-> <<>>, clock |-> 0]
        ELSE Accept(now, rate, walk[n - 1], by_deadline[n])
      end == walk[Len(jobs)]
  IN [on_time |-> JobIds(end.accepted),
      demoted |-> JobIds(SortJobs(end.demoted, ByDeadline))]

(* order_jobs().                                                           *)
OrderJobs(jobs, now, rate, policy) ==
  CASE policy = "Fcfs" ->
         [on_time |-> JobIds(SortJobs(jobs, ByArrival)), demoted |-> <<>>]
    [] policy = "Edf" ->
         [on_time |-> JobIds(SortJobs(jobs, ByDeadline)), demoted |-> <<>>]
    [] policy = "MooreHodgson" -> MooreHodgson(jobs, now, rate)
===============================================================================
