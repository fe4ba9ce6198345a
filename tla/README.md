# A verification project for trt-llm-rs

This directory holds TLA+ models of trt-llm-rs (its serving core, its bridge
into TensorRT-LLM's executor, its simulator and its planning tools), the TLC
configurations that check them on small instances, and proofs of the main safety
properties that TLAPS checks for every value of the constants.
`PROJECT.json` maps each definition to the lines of the source it stands for.

    tlc -workers 2 -config <run>.cfg <Module>      one model-checking run
    tlapm <...>Proofs.tla                          the proofs of a module

## 1. The system

trt-llm-rs puts a Rust control plane around TensorRT-LLM engines: it routes
requests to engine processes, decides which prompts are prefilled in which
batch, decides how many sequences may decode together without missing the
inter-token budget, keeps the books of the paged KV cache, and streams tokens
back to clients. The engines themselves are external.

| component | state it keeps | operations | talks to |
|---|---|---|---|
| request stream and HTTP transport, `wire/transport.rs` | `terminal`, `finished`, `cleaned_up`, telemetry outcome; the buffered bytes | `next_at`, `cancel_at`, `fail`, `cleanup`, `Drop`; `send`, `next_event`, `cancel` | an engine process over HTTP |
| Dynamo adapter, `dynamo/engine.rs` | the `active` gauge, started flag | `start`, `generate`, `convert_request`, polling the stream, `abort`, `cleanup` | Dynamo runtime (context), request streams |
| serving deployment, `worker/serving.rs` | observed in-flight counts per process | `refresh_load`, `generate`, one spawned task per request | router and registry (locks), request streams, client channel |
| router, registry, radix index, `router/*`, `kvcache/radix.rs` | worker loads and their times, prefix tree | `register`, `update_load`, `route`, `note_prefill`, `insert`, `prune`, `forget_worker` | serving and in-process deployments, simulator |
| decode scheduler, `sched/decode.rs` | running sequences, the AIMD controller (cap, latency estimate, probe) | `can_admit`, `admit`, `on_step`, `note` | decode worker, simulator |
| decode worker, `worker/decode_worker.rs` | pending jobs, KV pages per sequence | the loop of `run()` | channel of jobs, block pool, engine, event channel |
| prefill policy, `sched/policy.rs` | none | `order_jobs`, `moore_hodgson` | prefill scheduler |
| prefill scheduler and worker, `sched/prefill.rs`, `worker/prefill_worker.rs` | queue, progress, demotions, pages per prompt | `enqueue`, `plan`, `complete`, the loop of `run()` | channel of jobs, block pool, engine, event channel |
| block pool and prefix cache, `kvcache/pool.rs`, `prefix.rs` | reference counts, free list, reclaim queue, hash index | `alloc`, `incref`, `release`, `release_to_cache`, `reacquire`, `evict_cached`, `lookup`, `insert`, `forget` | workers |
| in-process deployment and frontend, `worker/deployment.rs`, `frontend/server.rs` | map of clients, channels, open connections | `generate`, two pumps, the completion handler | prefill and decode workers, router, clients |
| Python decisions and bridge, `pyext/*`, `python/trtllm_rs_bridge` | ledger of ids, controller; first-seen times, counters | `decide`, `observe`; `schedule_request`, `can_schedule` | TensorRT-LLM's executor and its own scheduler |
| simulator, `sim/*` | event heap, queues, transfer buffers, blocks | `on_arrival`, `on_prefill_done`, `on_kv_arrived`, `on_decode_step` | prefill planner, decode scheduler, router |
| capacity, remedies, verdicts, scoring, resharding, tuner, CLI | none; the operator's configuration file | `plan`, `verdict`, `tune`, `serve` | the operator, measured runs, AIConfigurator's tables |

What is hard here, and therefore what the properties are about:

* futures are dropped at any suspension point (a client disconnects, a context
  is stopped), so every gauge, slot and transport must be given back by a guard
  or by `Drop`, exactly once;
* load counts are cloned, written back and used under separate lock
  acquisitions, with other requests in between;
* the decode controller is a feedback loop with several modes (warm-up, probe,
  given up) driven by reports in which ids may be unknown, late or repeated;
* KV pages are taken before an engine call that may fail and given back after
  sends that suspend; a leak is permanent and a double release corrupts another
  sequence;
* batches are planned before pages are found for them and booked after the
  engine ran;
* admission is in order and holds resources while it waits;
* answers arrive in chunks that are cut anywhere, and a request's controls cross
  a contract between two languages;
* two pumps write to one client, and one slow client stands in front of a pump;
* every tensor-parallel rank decides for itself and must decide the same;
* a discrete-event simulation loses or doubles work silently;
* advice is computed from one file, written back into it, and computed again.

`PROJECT.json` lists where these bite, line by line, under `hazards`.

## 2. Modules

    RequestStream          operators on one stream, shared by the next two
      DynamoEngine           streams + gauge + contexts
        HttpEngine             ... over HttpTransport        HttpEngineProofs (both)
      ServingDeployment      streams + router + tasks + clients
                                                             ServingProofs
    ItlController          operators of the AIMD controller
      DecodeScheduler        controller + running sequences  DecodeSchedulerProofs
    DecodeWorker           the decode loop, its pages and channels
                                                             DecodeWorkerProofs
    PrefillPolicy          order_jobs and moore_hodgson as operators
      PrefillWorker          queue, plan, pages, engine, books
                                                             BatchingProofs
    PrefixSharing          what a prefix cache promises (abstract)
      KvCache                block pool and prefix index that implement it
                                                             KvCacheProofs
    Deployment             pumps, client map and HTTP handlers
                                                             DeploymentProofs
    RadixIndex             the prefix tree as operators
      Router                 registry, routing, the index over time
                                                             ServingProofs
    CapacityDecision       decide_indices as an operator
      CapacityBridge         ledger, wrapper and executor around it
                                                             BatchingProofs
    Simulator              the event loop and its accounts  SimulatorProofs
    Capacity               rates, memory, search, gap on exact fractions
      Advice                 verdicts, remedies, validation, candidates
    Scoring, Reshard       verdict of a request, report; the plan of a handoff
      OperatorSession        verdict, plan and tune on one file (all four)
    MC...                  values of the constants, reference definitions

**RequestStream** has no variables: a stream is a record and each method an
operator from record to record, with what the caller is given as a second
operator (`NextAt`/`NextAtOutput`, `CancelAt`/`CancelAtOutput`, `Fail`,
`Cleanup`, `DropStream`). `cancels` counts the calls of `Transport::cancel`,
which the source does not keep.

**DynamoEngine** gives each request a phase: the send inside `generate()` is a
step of its own (`SendSucceeds`, `SendFails`), a poll is two steps with the
suspension between them (`PollBegin`, then `Receive`), and `Abandon` drops a
stream in either half. The stop flag is read only at the beginning of a poll, as
in the code (`PollStopped`). Its transport may yield any event; whether a request
is converted depends on the controls it sets (`Unsupported`).

**HttpEngine** conjoins to those actions what `HttpTransport` does: `send` posts
the controls of the request under the names `convert_request` gives them
(`Forwarded`), and `NextEvent` reads chunks, of any size, until the buffer has a
frame (`FrameEnd`, `Drain`) that holds an event. A body is a sequence of line
endings and lines. What the worker writes is a record of its lines and of the
line ending it uses (CR, LF or CR LF), from which `Written` computes both the
text that goes over the wire and the events it completes, so the reading side is
compared with the writing side and not with itself. The answers include frames
without data, a body that ends inside a frame, one that is not UTF-8, error
payloads, and a worker that never stops. A frame has at most one data line, as
the worker writes it; a worker that goes on for ever ends each frame before the
next (`AnswersAssumption`). The worker's list of fields is that of
`scripts/trtllm_dynamo_http_worker.py`. Every step of HttpEngine is a step of
DynamoEngine or leaves that module's state alone, which is proved.

**ServingDeployment** splits `generate()` where the code releases a lock or
awaits: `CloneLoad`, `PushLoad`, `Route`/`RouteFails`,
`SendSucceeds`/`SendFails`. `route()` can refuse only if another request, suspended
since it read the clock, has pushed a stale time over this one's. The task
alternates between waiting for its worker and waiting for room in the client's
channel; clients read, stall or hang up. The decode pick of the router is
included (`Headroom`, `RouteTo`), the prefill pick has a single candidate per
process here; Router has both.

**ItlController** and **DecodeScheduler** keep the controller's arithmetic on
integers: the cap is counted in `1/Unit` sequences, and latency is a `Level` on
a small scale on which `LowLevel` and `HighLevel` are the two thresholds. All
that is assumed of the exponential average is that it lies between the old
average and the new observation. The order of the branches
of `on_step`, the probe that tests whether a decrease helped, `give_up`, `resume`
and `back_off` are kept as they are. Reports are arbitrary sets of ids.

**DecodeWorker** is the loop of `run()` with a program counter: `Drain` and
`Receive` (the two ways jobs are taken), admission (`Refuse`, `Allocate`,
`Attach`, `AttachFails`), the engine step (`Step`, `StepFails`), the sends one
by one (`SendToken`, `Retire`), and `Hangup` for closed channels. Pages are
named. The scheduler's answer is nondeterministic except that an idle scheduler
admits: that exception is `IdleAdmits`, checked and proved of DecodeScheduler.

**PrefillPolicy** gives `order_jobs` for the three policies: a sort is the one
placement in which each job precedes those that should follow it, and the loop of
`moore_hodgson` is a recursive function. **PrefillWorker** takes the same jobs through `submit`, `plan` (two
passes, the deadline test and the demotion of hopeless requests), the search for
pages, the engine and `complete`. The clock moves at every suspension. Pages are
counted, and the watermark's share is no larger than the pool (pool.rs:74 clamps
it); the policy and the pool size are chosen at the start. What the policies
compute is checked at every plan the worker reaches, for all deadlines.

**KvCache** drives `BlockPool` and `PrefixCache` by sequences that look up their
prefix, allocate and fill the rest, publish it, fork, and finish or discard.
Its owners keep the rule the comment in `alloc()` puts on them (pool.rs:127):
what the pool hands out or takes back is forgotten by the index. Which free
page or which cached page comes next is left open. **PrefixSharing** says in
four actions what users rely on: a match is a prefix of the sequence's own text,
and nobody writes a page that somebody has.

**Deployment** has the request's way through `generate()`, the bounded channel of
jobs, the completion channel, `pump_prefill`, the decode worker, the event channel
and `pump_decode`. `generate()` is split at its await: `Generate` makes the entry,
then `Submit` sends the job when there is room, `SubmitFails` finds the worker gone,
and `Abandon` drops the handler while the send waits; `RouteFails` refuses before
the entry is made. A pump that awaits a send holds what it is sending (`handP`,
`handD`), so one client's full channel stops it; the taking of an event and the
sending are separate steps. The handler either forwards chunks or collects them,
and the client may hang up at any time, or (`Stalling`) stop reading without
hanging up. Workers are taken by what they promise: a sequence may end at any
token up to its limit, and a worker may lose a job (DecodeWorker drops a job the
engine refuses) or die with those it has and those in its channel.

**RadixIndex** keeps a node as its path from the root, which the vector slots of
the code only encode: splitting an edge adds the path in between, sweeping
removes leaves from the bottom up. **Router** adds registry and clock; what the
index was told is kept beside it, to compare. Costs are fractions compared
exactly (`Cheaper`); the tolerance of 1e-9 in the code is for rounding.

**CapacityDecision** is `decide_indices` over rows, in the two decode orders. A
sort is its result, the arrangement in which each row comes before those that
should follow it (`Sorted`); that there is exactly one, ties included, is proved.
**CapacityBridge** puts the Rust object (ledger, cap) and the Python wrapper
(first-seen times, counters of shadow mode) around it. Upstream's own scheduler
offers any subset of the active requests, in some order, and the executor
computes what was fitted. A call may raise: in shadow mode an exception of
`decide()` is counted and upstream's answer runs (`ShadowRaises`), everything else
leaves `schedule_request` after the arrivals were noted (`CallRaises`). A probe
(`FitCheck`, `FitCheckRaises`) goes the same way for one request that upstream fits
or does not. Times are ages.

**Simulator** keeps the heap as the sequence of pushed events with the time left
to each, so that ties are broken by `seq` as in the code and the state space is
finite although the clock is not bounded. A request goes by its client. The
prefill planner, router and controller may choose whatever their code can; so
may the planner the order of a finished batch.

**Capacity**, **Advice**, **Scoring** and **Reshard** are the formulas and
decision tables of the planning tools on exact fractions (a pair of integers)
instead of floats. **OperatorSession** makes a system of them: an operator asks
for a verdict on a measured run, for a plan or for a tuned candidate, writes what
was advised into the file, and asks again. The interesting defects of such tools
take several rounds.

## 3. Runs

All passing runs explore every reachable state of their instance. Each property
has mutants in `PROJECT.json`: plausible mistakes in the code that make TLC
report that property.

| run | instance | what it shows |
|---|---|---|
| `dynamo_engine` | 3 requests with supported and unsupported controls, 6 answers, one endless worker | the gauge is the number of live streams; a transport is cancelled once, or never if its worker ended; a terminal item or error is last; outcomes are recorded; the events read are those written; controls arrive; a stopped context is released |
| `serving` | 3 requests, 2 processes, cap 1, channel of 1 | load equals tasks per process; workers cancelled once; terminal chunk last; a routing decision uses one reading, never a mixture; hung-up clients free their slot; a reading client finishes beside a stalled one |
| `decode_scheduler` | 2 sequences, caps 1 to 2, 3 latency levels, warm-up 2, probe 2 | an idle scheduler admits; each disagreement is counted once; giving up closes the probe; the cap rises only under a batch that fills it, and after giving up only a refusal lowers it |
| `decode_worker` | 3 jobs of 1, 2 and 1 pages, 4 pages, reserve 1 | free and held pages partition the pool; pages are held only by live sequences; the reserve survives; scheduler and engine agree between steps; `Finished` is last; every job settles |
| `prefill_worker` | prompts of 3, 2, 2 or 2, 3, 0 tokens, pools of 6 and 8 with reserve 1, 2 rates, 3 policies, clock to 4 | pages balance across partial chunks and failures; no member of a batch is made late by the others; orderings lose nobody; Moore-Hodgson keeps as many on time as any subset; with pages for all, what is booked was computed and every prompt is served |
| `kv_cache` | 3 sequences (two equal, one sharing the first block), 5 pages | counts are exact; the index is sound; pool and index implement PrefixSharing |
| `deployment` | 3 requests of 2, 2 and 1 tokens, two streamed, one of their clients stalling; channels of 1, 1 loss | an entry of the map has an owner or is of one of three kinds that leak; a 200 is never truncated; two writers keep a stream in order; every reader is answered, unless a client that stopped reading holds a pump for ever |
| `router` | 4 prompts over a common prefix, 2 + 2 workers, cap of 4 nodes, 3 notes, 2 reports | the index is a radix tree, claims neither too much nor, of what is fresh, too little; its size is bounded; decisions follow from the numbers the router has |
| `bridge` | 2 requests in every mode, with and without probes, and 3 in live mode; batch 2, 2 tokens per step, watermark 1, both orders | the ledger is exact; shadow counts add up; arrivals are exact without probes and never too early with them; a decision is maximal and the same on every rank; in live mode all requests complete |
| `simulator` | 3 clients, 2 + 2 workers, prompts of 2 chunks, 3 tokens, 1 buffer, 5 blocks, speculation on and off | one request per client in one place; no lost or double wake-up; buffers and blocks exact; sequences retire on time without speculation; every client returns for ever |
| `planning` | 16 GPUs, 4 KV heads, 3 files, 8 measured runs, 3 tables, 2 targets | advice is given once and conflicts only in known ways; following it helps; the search is exhaustive; sizing, blame, gap, score and layouts are right; advised kernels exist; engines get their own GPUs |

Safety statements that need each other are checked together, under the name of
what they jointly say; the parts keep their names and their comments.

| property | parts |
|---|---|
| `StreamsReleased`, `EndsOnce` | `ActiveCounts`, `CancelExactlyOnce`; `OneTerminal`, `OutcomeRecorded` |
| `WireExact` | `HttpTypeOK`, `EventsAsWritten` |
| `TasksAccounted`, `ClientsSettled` | `TypeOK`, `InflightCounts`, `CancelsWorkerOnce`, `TerminalChunkLast`; `HangUpReleases`, `AttentiveClientsFinish` |
| `CapSound`, `NothingLeftOpen` | `TypeOK`, `IdleAdmits`; `CountedOncePerSequence`, `GivenUpClosesProbe` |
| `PagesAccounted`, `SequencesAccounted` | `TypeOK`, `PagesPartitioned`, `HeldByLive`, `ReserveKept`; `SchedulerAgreesWithEngine`, `FinishedIsLast` |
| `BooksBalanced`, `OrderingOptimal` | `TypeOK`, `PagesBalanced`, `BookedWhenAmple`; `OrderingIsPermutation`, `MooreHodgsonOptimal` |
| `BlocksAccounted` | `TypeOK`, `PoolAccounted` |
| `EntriesOwned`, `StreamsWhole` | `TypeOK`, `EntryHasOwner`; `AnswerWhole`, `StreamInOrder` |
| `IndexFaithful`, `IndexBounded` | `TreeSound`, `NeverOverclaims`, `FreshIsKnown`; `RouterTypeOK`, `NodesBounded` |
| `BooksExact` | `TypeOK`, `LedgerExact`, `CountsAddUp`, `ArrivalKept` |
| `ResourcesExact` | `TypeOK`, `BuffersConserved`, `BlocksBalanced`, `RetiresOnTime` |
| `AdviceConsistent`, `ModelConsistent` | `TypeOK`, `OfferedOnce`, `KnownConflictsOnly`, `AdviceRunsHere`; `PlanExhaustive`, `SizedForSlo`, `GapHonest` |
| `JudgedFairly`, `PlacedRight` | `BlameFair`, `TunedFromTable`, `ScoreHonest`; `HandoffCarriesLayout`, `ServesOnOwnGpus` |

Two actors are enough for each pairwise interference in these components; the
third request in `dynamo_engine`, `serving` and `deployment` lets one be ahead
of, one beside and one behind a step, and mixing two load readings needs it. In
`bridge` the third request in live mode is the prompt that waits while one of two
generations is paused, which is when `decide_indices` starts no prompt
(decide.rs:265); `Setups` lists the combinations that are explored. A
channel of one is full after one chunk; a cap of one is reached by one request.
Six pages less the reserve cannot hold the seven prompt tokens, so waiting for
pages happens, and eight can. Three latency levels cover below, between and
above the thresholds. Four nodes are reached by two notes, so insertions at the
cap happen; three clients with five blocks, two per request and one in reserve
make the third wait for blocks, and one buffer makes transfers queue. The named
bounds are `MaxTokens`, `MaxReports`, `MaxLevel`, `MaxNow`, `MaxLost`,
`MaxNotes`, `MaxTime`, `MaxAge` and `MaxShadowSteps`. Symmetry is used for
sequence ids in `decode_scheduler` and for pages in `kv_cache`, neither of which
checks liveness.

`CHECK_DEADLOCK FALSE` is set where the program may stop: all requests served,
a channel closed, or no more input within the bounds.

### Where the code and its comments disagree

`prefill_booked` is expected to be violated: a chunk left out for want of pages
is booked as computed, and its prompt leaves the queue without a first token;
prefill_worker.rs:117 says it is "retried next round". `BookedWhenAmple` is what
holds.

Met while modelling, without a run of their own:

*Scheduling*
* `back_off()` lowers the cap although the controller has given up
  (decode.rs:332); decode.rs:321 says the cap "stays there until the budget is
  reachable again". `CapGrowsWhenFilled` says that nothing else does.
* The decode worker admits with the first-token time as admission time
  (decode_worker.rs:135), so the handoff steers the controller; decode.rs:619
  says none is charged.
* The first chunk without pages ends the search (prefill_worker.rs:135): if the
  prompts behind it hold the pages, nobody is served again. `StillServed` holds
  with pages for every prompt and not otherwise.
* With `demote_hopeless = false`, `plan()` walks only `on_time`, so under
  Moore-Hodgson a request that became hopeless is in no batch (prefill.rs:226);
  policy.rs:22 says such requests "are still served".
* A prompt with nothing to compute is skipped by every plan (prefill.rs:245); it
  stands in nobody's way, but it is never answered. The simulator makes such
  prompts of full prefix hits (sim.rs:286).
* `refresh_load()` may put back a reading older than the one a request made
  itself (serving.rs:168); `RoutesByOneReading` says what remains true.

*Caches*
* An index entry whose page was given away and is in use again is a hit, since
  `reacquire()` cannot tell (prefix.rs:122); only the owner's discipline, which
  KvCache includes, prevents it.
* The radix index may exceed its "hard cap" by one node (radix.rs:160), and at
  the cap it does not refresh what it already knows (radix.rs:80).
* Nothing but tests calls `prune`, `forget_worker` and `deregister`, and the
  in-process deployment never calls `note_prefill`, so its index stays empty.

*Streams and deployments*
* A CR LF CR LF delimiter that is cut before its last LF ends the frame early
  and leaves that LF in the buffer. No event is lost (`EventsAsWritten`), but a
  body that ends there without a terminal event is reported as a partial frame
  instead of a plain end; both fail the request.
* The health check posts empty `token_ids` (engine.rs:211), which the Python
  worker refuses.
* The entry of a request is made before its job is sent (deployment.rs:377, 392).
  It stays in the map for ever if the prefill worker is gone, if the client
  disconnects while the channel of jobs is full, or if a worker loses the job.
  `EntryHasOwner` says that there is no fourth case.
* A client that hangs up stops no decoding.
* One streaming client that stops reading without hanging up stops a pump, and
  with it every other client (deployment.rs:259, 304); nothing times it out.
  `ReadersServed` says that nothing else keeps a reader waiting. The serving
  deployment has a task per request and no such coupling.

*Bridge and simulator*
* `can_schedule()` offers its one request to `_arrival_ms_for`, which forgets all
  others (scheduler.py:313): after such a probe an arrival is no longer "the
  first monotonic timestamp" (scheduler.py:280). `ArrivalIsFirstSeen` is that
  statement and holds without probes; with them a request may look younger than it
  is and never older (`NeverOlder`). `ArrivalKept` says both.
* A prompt longer than `max_num_tokens` is never admitted in live mode
  (decide.rs:280), and without a KV accessor the free-block count is 0, under
  which a positive watermark admits no new prompt.
* With speculation a simulated sequence stays one step too long if its budget is
  not one more than a multiple of the tokens per step (decode.rs:650); sim.rs:131
  wants the "same token count". `NeverOverstays` is the unconditional statement.
* Requests that are unfinished when the simulation ends are not scored.
* `Config::validate` does not ask that a decode worker's blocks cover one request
  and the watermark, as the Simulator assumes (`SimulatorAssumption`). With fewer
  the simulated worker admits nothing and no client returns.

*Planning tools*
* Remedies look at the file one at a time: CONTEXT_PARALLEL and SPECULATION kept
  together are refused by `validate()`, DECODE_TP leaves the number of decode
  workers and may ask for too many GPUs, CONTEXT_PARALLEL asks for one prefill
  worker of four. `KnownConflictsOnly` and `FollowingHelps` say that there is no
  other case.
* KV_CACHE_DTYPE is emitted from `model.kv_dtype` (config.rs:88) and looked for
  in `topology.kv_dtype_bytes` (remedy.rs:141), so it is advised again.
* `plan` and `verdict` do not validate the file, and nothing calls
  `validate_for`; a prefill TP of 0 passes `validate()`.
* The remedies of `plan` are for the best split, not for the file's.
* `TuningPlan::best` does not ask whether a candidate passed.
* A TP degree below the number of heads that does not divide it gives a rank out
  of range without an error (reshard.rs:78, 83).

### Fairness

* `DynamoEngine`, `HttpEngine`: weak fairness of `Poll` (the runtime polls a live
  stream) and of the worker's next event (it answers or its connection breaks,
  which `next_at` turns into an error). Nothing is assumed of contexts or
  callers, nor that a worker ever ends its answer.
* `ServingDeployment`: weak fairness of tasks and of workers; for attentive
  clients also of reading, and strong fairness of the end of generation, since
  `max_tokens` bounds it while the model caps nothing else. A stalled client has
  no fairness at all.
* `DecodeWorker`: weak fairness of each part of the loop, which is one task that
  is never blocked except in its channels and its engine; strong fairness that a
  step in which a sequence may end does end it at some point, as the engine's
  own token limit guarantees.
* `PrefillWorker`: weak fairness of taking jobs and of planning (the loop is one
  task), and strong fairness of `Complete`: an engine that is asked again and
  again succeeds at some point, although any single batch may fail. The fairness
  of `Plan` is stated on the change of `pc` it makes (`LeavePlan`), which is
  possible exactly when `Plan` is.
* `Deployment`: weak fairness of both pumps and of a `generate()` that can go on
  (tasks of the runtime), of the workers as long as they run, and of the handlers
  whose clients read. `collect_response` is such a handler; an event stream is read
  as fast as its client, so a client in `Stalling` has no fairness at all. A lost
  job and a dead worker are never assumed away.
* `CapacityBridge`: the executor keeps stepping, and again and again upstream fits
  at least one active request, whichever it likes, when the free blocks are not
  below the watermark. It need not ever fit all of them together, nor a given one
  while others are active. Nothing is assumed of shadow mode, probes, exceptions or
  the controller.
* `Simulator`: weak fairness of `Next`: `run()` is a loop over the heap. That time
  passes follows from the delays and is not assumed.

## 4. Proofs

| module | theorem | statement |
|---|---|---|
| `HttpEngineProofs` | `StreamsReleasedTheorem`, `EndsOnceTheorem`, `TerminalIsFinalTheorem` | the safety properties of the adapter, for any finite set of requests, any controls and any number of tokens |
| | `HttpImplementsEngine`, `HttpGaugeAndCancel`, `HttpEndsOnce`, `HttpControlsArrive` | the adapter over `HttpTransport` implements the adapter over any transport, so its results carry over; controls arrive |
| | `WireExactTheorem` | the events read are those written, for any answers of any length, any line ending and any way to cut the body into chunks |
| `ServingProofs` | `TasksAccountedTheorem`, `RoutesByOneReadingTheorem` | load, cancellation and order of the chunks, and the action property of routing, for any processes, requests and channel |
| | `IndexBoundedTheorem`, `IndexFaithfulTheorem`, `RoutedWellTheorem` | everything `router` checks, for any prompts, workers, loads, cap, ttl and staleness |
| `DecodeSchedulerProofs` | `CapSoundTheorem`, `NothingLeftOpenTheorem`, `CapGrowsWhenFilledTheorem` | everything `decode_scheduler` checks, for any caps, scale, thresholds, windows and sequences |
| `DecodeWorkerProofs` | `PagesAccountedTheorem`, `SequencesAccountedTheorem` | the invariants of `decode_worker`, for any pool, reserve and jobs |
| `KvCacheProofs` | `BlocksAccountedTheorem`, `IndexSoundTheorem`, `SharingTheorem` | everything `kv_cache` checks, the refinement of PrefixSharing included, for any pool, sequences and chains of hashes |
| `DeploymentProofs` | `EntriesOwnedTheorem`, `StreamsWholeTheorem` | the invariants of `deployment`, for any requests, lengths, channel and number of losses |
| `SimulatorProofs` | `ClosedLoopTheorem`, `NoLostWakeupTheorem`, `ResourcesExactTheorem` | the invariants of `simulator`, for any clients, workers, chunks, tokens, buffers and blocks |
| `BatchingProofs` | `BooksExactTheorem`, `DecisionMaximalTheorem`, `RanksAgreeTheorem` | the invariants of `bridge`, for any requests, budgets and arrangement of the rows |
| | `PrefillBooksTheorem`, `OrderingOptimalTheorem`, `BatchDeadlinesTheorem` | the safety properties of `prefill_worker`, the optimality of Moore-Hodgson included, for any prompts, rates, pools, budgets and bounds of a batch |

Each part of the older properties has a theorem of its own in the same module
(`ActiveCountsTheorem`, `PagesPartitionedTheorem`, `TypeCorrect` and so on), from
which the ones above follow. Every component has an inductive invariant, which
TLC checked on the instance of its run before it was proved (all but `Ended` in
HttpEngine's, which is about all texts that may follow).

*DynamoEngine.* `ActiveCounts` is inductive with the types only as long as every
close happens once, which depends on the stream: `StreamInv` says what the
flags of a stream owe each other (`cancels` is one exactly when it was cleaned up
and not finished; terminal implies cleaned up) and ties them to the phase. In
particular a poll suspended in `next_at` holds a stream that is not terminal,
although that was tested before the suspension. The steps follow `Next`, with
one lemma per stream operator. `OutcomeRecorded` needs one fact more: a terminal
item is yielded only by a stream that has just been given its outcome.

*HttpEngine.* `HttpSpec => Spec` is a refinement with the identity as mapping:
HttpEngine has DynamoEngine's variables and more, and each of its actions is one
of DynamoEngine's with a conjunct on the wire, or leaves those variables alone.
`ControlsArrive` follows from the invariant that
what was posted is the translation of what the request set, and from the lemma
that no translated control has a name the worker lacks.

`WireExact` needs to know what the framing computes, for texts of any length.
`Events` is the list of events in a text; that its recursion defines it follows
by induction on the length, since `Drain` shortens the text (`SolutionExists`,
`SolutionUnique`, `EventsSolves`). The heart is `FrameKept`: a frame that is
found stays found whatever arrives behind it. It is not quite true of the text
that is left, since a delimiter CR LF CR LF of which the last LF has not come
yet leaves that LF for later; `SkipEnding` says that a line ending at the start
of a text changes no events. Then the text that the worker writes line by line
has the events it completes (`WriteLineFaithful`, by induction
`WrittenFaithful`), and the invariant `WireInv` says of each live stream that
the events owed are those of the buffer followed by the unread text, where an
endless worker has always ended its last frame (`Ended`). A stream that failed
or was cancelled is owed nothing.

*ServingDeployment.* A task that delivers may or may not have given up its
worker already, and only its chunk tells: `StreamInv` says that a token is
delivered from a stream nothing has happened to and an end from a settled one,
so the end of a task cancels exactly when it must. `RegistryIsReading` is what
the split of `generate()` at its locks leaves true: from the first push on, the
registry is one of the readings somebody made, though not always the newest.

*Router.* The paths of the index form a tree: a finite set of texts, with the
root, closed under common prefixes (`Tree`). `WalkFacts` says what a walk along a
text finds, the deepest node on the way and at most one child whose edge it
leaves; every node further down lies below that child. From this an insertion
keeps the tree, adds at most two nodes, forgets nothing and gives nobody but the
worker noted anything new (`InsertPaths`, `InsertOK`); a sweep removes nothing
that has not expired (`PruneOK`, by induction over its turns), because a parent
is at least as fresh as its children (`Descends`). `MatchExact` shows that
`match_worker`, which looks at one path only, finds the longest match that any
node of the tree has for the worker. `RouterInv` adds to these that what a node
claims is a prefix of some note (`Believed`), and that a note younger than the
ttl has its own node, with its worker and a time not before it (`FreshHeld`). For
`RoutedWell` the comparison of two candidates must be an order: `better` is one,
ties included (`PrefillPicked`, from `RatioOrder` and `RatioStrict`), and so is
`max_by` (`DecodePicked`); a finite set has a first element in such an order
(`FirstExists`), so that the choice exists and is the best.

*DecodeScheduler.* The cap lies between floor and ceiling after every operator
of the controller (`CapBounds`, `DecreasedBounds` and one lemma per operator),
so one sequence always fits and an idle scheduler admits. The strengthening is
`CtlOK`: a controller without an open probe has counted nothing since a
decrease, and one that has given up has no open probe. `CapGrowsWhenFilled` is
a property of a step: `Grows` relates the controller before and after, and each
branch of `observe` either lowers the cap, gives up, or passes the gate of
`UnderTarget`; a controller that has given up keeps its cap through `observe`, which
leaves `back_off` as the one way down.

*DecodeWorker.* Partition is not inductive alone: allocation overwrites the
pages of the head of the queue, so a queued request must hold none. `QueuedOnce`
says it is queued once and neither running nor being retired, and `LiveStreams`
relates the scheduler's and the engine's sets at each program counter; from the
latter agreement and `FinishedIsLast` follow.

*KvCache.* The count of a page is the number of references, which an induction
can only follow if no sequence refers to a page twice (`Distinct`): then it is
the number of sequences that have the page, and a step changes it by one.
`OwnText` says that the pages of a sequence hold its text; it survives the
writes of others because only a page that nobody has is written, and it
makes a match a match in the sense of PrefixSharing. `Lengths` ties the pages to
the phase. A step of `KvCache` that changes pages or contents is then a step of
PrefixSharing with the identity as mapping, and the others stutter.

*Deployment.* Whether a stream is whole depends on what is still in the event
channel and in the hands of the two pumps. `NothingMissing` says that, as long
as the entry exists and the client listens, the tokens sent and the tokens
queued together are all that were emitted, and `EventsInOrder` that the queue
has them in order; `PrefillHand`, `DecodeHand` and `Placed` say where a request
can be when a pump holds something of it. `EndQueued` keeps the entry of a
finished request owned; the three kinds of entry that nobody will remove are part
of the statement. `Requests` must not contain the string that stands for
an empty hand, which `DeploymentAssumption` states.

*CapacityBridge.* The books need a bound on what the executor computes
(`Unfinished`), a bound on the counters (`EmptyCounted`, the counts themselves)
and, for arrivals, that without probes the two records of a request's age start
and move together (`SeenInStep`), and that with them the wrapper's is never ahead
(`NeverOlder`).

`DecisionMaximal` and `RanksAgree` are about a scan of unbounded length. The
first lemmas give induction in a form the provers can use: a set of naturals
that holds 0 and the successor of each of its members up to N holds all of
`0 .. N` (`SetInduction`, from `LeastElement`), and a function defined by
recursion over `0 .. N` exists and satisfies its equations (`RecursionExists`).
Next, a strict total order arranges a finite set in exactly one way, since an
element's place is the number of those before it (`ArrangementExists`,
`ArrangementUnique`). Both orders of the code are such orders as ids differ
(`TryOrderTotal`); for the slack order this needs that fractions compared by
cross-multiplication are ordered (`CrossMultiply`, `ToleranceOrder`). So there
is one sequence of candidates, whatever the arrangement of the rows
(`CandidatesFollow`), and the scans over two arrangements go in step
(`GenerationFollows`, `DecideFollows`), which gives `RanksAgree`. For
`DecisionMaximal`, every generation costs the same, so the first refusal is
followed by refusals only (`CutAt`), and those admitted come before those
paused; prompts cost differently, but what a prompt was refused for only gets
worse (`Filled`).

*Simulator.* Every request is in exactly one place (`Homes`: an arrival, a queue,
a batch, the queue for a buffer, a transfer, a pending queue or a decode batch),
and every event of a worker or of a transfer is in the heap once (`Once`). That
makes all counts into cardinalities of sets that a step changes by one member:
a busy buffer is a transfer in the heap (`Buffers`), a block taken belongs to a
member of the decode batch (`BlocksBalanced`). `PrefillAwake` and `DecodeAwake`
say that a worker with work has its event; for the first a queue must hold only
prompts with chunks left (`ChunksLeft`), since planning takes no others, and for
the second the watermark must leave room for one sequence on an empty worker.
The order in which the heap yields events does not matter for these results; the
proofs only use that `Pop` removes one event and ages the others.

*PrefillWorker.* The inductive invariant `PrefillInv` has five parts. `PrefillTypes`
and `InLine` say that a submitted prompt is in the channel or in the queue at most
once and that its deadline lies within the clock. `BatchFits` says that the batch
at the engine has chunks of queued prompts, each prompt at most once, none larger
than what is left of it, and that the work given to the engine is part of the
batch and starts where the scheduler's books end; without it `complete()` could book a prompt past its end. `PagesBalanced`
is inductive with these. `ServedWhenAmple` is what `BookedWhenAmple` needs and
does not say: with pages for every prompt no sequence holds more pages than its
prompt has, so the search for pages never fails, so the engine is given the whole
batch, so what is booked was computed. The loops of `plan()`, of the search for
pages and of `complete()` are recursive functions over a prefix of a sequence.
That such a function exists and obeys its equation is one lemma (`ScanExists`),
proved from the least counterexample, and each loop then has one lemma for a step
(`AddStep`, `FindStep`) and one for the whole (`PassOK`, `FoundOK`). The sums have
lemmas of their own (`Sum` of a function changed in one place, over a set and its
complement, and monotone).

`AddStep` also carries the deadline test: the batch's deadline is no later
than that of any member that was not given up on, and a batch of several is never
late for it (`BatchOK`). That is `BatchDeadlinesTheorem`.

*Moore-Hodgson.* That the algorithm is optimal is an exchange argument over the
jobs by deadline. `Best` says of a prefix of them that the accepted set is
feasible and that, for every feasible set from the prefix, it has a part as large
that takes no longer (`AsGood`). If the next job fits it is taken (`BestTakes`). If it
does not, the longest of the accepted jobs and itself is given up (`BestEvicts`): a
part that contains it is exchanged for one that contains another job instead, which
takes no longer (`Exchange`); there is another, since all of them together are late
and so no part of a feasible choice. `WalkStep`
carries `Best` through an iteration of the loop and `WalkOutcome` to its end. The
argument needs the victim to be the longest and the clock to be exact, which is
where a change of `Accept` breaks it.

The proofs assume the named assumptions of the modules (`DynamoAssumption` and
so on: finite sets, positive sizes, ordered thresholds, a reserve within the pool), which TLC evaluates in
each run, and nothing else.

Model-checked only:

* liveness under fairness (`StopReleases`, `ClientsSettled`, `SubmittedSettles`,
  `StillServed`, `ReadersServed`, `LiveCompletes`, `ClientsReturn`): out of the
  prover's reach;
* OperatorSession's four invariants and `FollowingHelps`: decision tables over
  the values of a configuration,
  where the instance already has every case that the code tells apart.

## 5. Not modelled

* The calibrated numbers: floats are exact fractions or small scales, and
  rounding is not examined. Cost curves appear as "longer with a larger batch".
* Text: JSON, TOML, CSV and shell formats, printed tables and advice in words,
  the tokenizer, telemetry's arithmetic, argument parsing.
* `pyhost`: a spike that measures the cost of crossing into Python; no crate
  depends on it. `engine/mock.rs` and the cross-check of AIConfigurator's
  predictions (a printed ratio) for the same reason: nothing acts on them.
* `transfer/local.rs`: a copy in one process. Resharding is modelled, but nothing
  outside tests constructs a `Reshard`.
* Patching the executor (`patch.py`): a fixed sequence of assignments at start.
* Engine processes, GPUs, Dynamo, TensorRT-LLM's executor and the tokio runtime
  are external: they appear as nondeterministic answers and as fairness.
  `remove_seq` is assumed to succeed.

## 6. Plan

1. DecodeScheduler's `remove` and the tolerance of a sequence; an engine whose
   `remove_seq` fails, in DecodeWorker and Deployment together.
