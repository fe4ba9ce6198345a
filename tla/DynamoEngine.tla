----------------------------- MODULE DynamoEngine -----------------------------
(***************************************************************************)
(* The Dynamo LLMEngine adapter of crates/dynamo/src/engine.rs over the    *)
(* request streams of crates/wire.                                         *)
(*                                                                         *)
(* Several requests run through one engine at once.  Each is a future that *)
(* suspends twice: in DynamoAdapter::start, after `started' was read and   *)
(* before `active' is incremented, and in next_at, after ctx.is_stopped()  *)
(* was read and before the worker's event arrives.  Dynamo may stop the    *)
(* context of a request, or drop its future or its stream, at any point.   *)
(***************************************************************************)
EXTENDS RequestStream, Sequences, FiniteSets

CONSTANTS
  Req,         \* the requests Dynamo submits
  Controls,    \* Controls[r]: the optional fields request r sets
  CancelMayFail, \* whether Transport::cancel may answer with an error
  MaxTokens    \* bound: tokens recorded per request

ASSUME DynamoAssumption ==
  IsFiniteSet(Req) /\ MaxTokens \in Nat /\ CancelMayFail \in BOOLEAN

VARIABLES
  started,  \* DynamoLlmEngine.started
  active,   \* DynamoLlmEngine.active
  phase,    \* where the future or stream of each request is
  stopped,  \* ctx.is_stopped() of each request
  stream,   \* the RequestStream of each request
  outs      \* the items each request's stream has yielded to Dynamo

vars == <<started, active, phase, stopped, stream, outs>>

(***************************************************************************)
(* "idle": not submitted.  "sending": generate() awaits adapter.start().   *)
(* "open": the stream was returned and is not being polled.  "awaiting":   *)
(* a poll is suspended in next_at.  "closed": the stream was dropped.      *)
(* "refused": generate() returned an error or was dropped, no stream.      *)
(***************************************************************************)
Phase == {"idle", "sending", "open", "awaiting", "closed", "refused"}

Live(r) == phase[r] \in {"open", "awaiting"}

TypeOK ==
  /\ started \in BOOLEAN
  /\ active \in Nat
  /\ phase \in [Req -> Phase]
  /\ stopped \in [Req -> BOOLEAN]
  /\ stream \in [Req -> StreamState]
  /\ outs \in [Req -> Seq(Output \ {"none"})]

Init ==
  /\ started = FALSE
  /\ active = 0
  /\ phase = [r \in Req |-> "idle"]
  /\ stopped = [r \in Req |-> FALSE]
  /\ stream = [r \in Req |-> NewStream]
  /\ outs = [r \in Req |-> <<>>]

-------------------------------------------------------------------------------
(* start(): a second start of a started engine is an error without effect. *)
Start ==
  /\ ~ started
  /\ started' = TRUE
  /\ UNCHANGED <<active, phase, stopped, stream, outs>>

(* cleanup(): streams that are still live are left alone.                  *)
EngineCleanup ==
  /\ started' = FALSE
  /\ UNCHANGED <<active, phase, stopped, stream, outs>>

(* What convert_request refuses: fields the worker has no counterpart of,  *)
(* and a seed below zero (its own name here, it is a value and no field).  *)
Unsupported ==
  {"prompt_embeds", "multi_modal_data", "multi_modal_uuids", "mm_routing_info",
   "prefill_result", "encoder_result", "bootstrap_info", "extra_args",
   "mm_processor_kwargs", "stop_token_ids_visible", "n", "best_of",
   "use_beam_search", "length_penalty", "guided_decoding", "logprobs",
   "prompt_logprobs", "formatted_prompt", "return_tokens_as_token_ids",
   "negative_seed"}

Converts(r) == Controls[r] \cap Unsupported = {}

(* generate() up to the await: refused before start, or when the request   *)
(* does not convert; otherwise the request is being sent.                  *)
Generate(r) ==
  /\ phase[r] = "idle"
  /\ phase' = [phase EXCEPT ![r] = IF started /\ Converts(r)
                                     THEN "sending" ELSE "refused"]
  /\ UNCHANGED <<started, active, stopped, stream, outs>>

(* adapter.start() succeeded: count the request and return its stream.     *)
SendSucceeds(r) ==
  /\ phase[r] = "sending"
  /\ phase' = [phase EXCEPT ![r] = "open"]
  /\ active' = active + 1
  /\ UNCHANGED <<started, stopped, stream, outs>>

(* Mutant of SendFails: the guard is made before the request is sent.      *)
SendFailsReleased(r) ==
  /\ phase[r] = "sending"
  /\ phase' = [phase EXCEPT ![r] = "refused"]
  /\ active' = active - 1
  /\ UNCHANGED <<started, stopped, stream, outs>>

(* adapter.start() failed, or Dynamo dropped the future before it ended.   *)
SendFails(r) ==
  /\ phase[r] = "sending"
  /\ phase' = [phase EXCEPT ![r] = "refused"]
  /\ UNCHANGED <<started, active, stopped, stream, outs>>

(* Dynamo stops the context of r; abort() itself does nothing.             *)
StopContext(r) ==
  /\ phase[r] # "idle"
  /\ ~ stopped[r]
  /\ stopped' = [stopped EXCEPT ![r] = TRUE]
  /\ UNCHANGED <<started, active, phase, stream, outs>>

(* Mutant of Close: the guard is forgotten.                                *)
CloseUnguarded(r, s) ==
  /\ phase' = [phase EXCEPT ![r] = "closed"]
  /\ stream' = [stream EXCEPT ![r] = DropStream(s)]
  /\ UNCHANGED active

(* ActiveGuard::drop and RequestStream::drop, which go together.           *)
Close(r, s) ==
  /\ phase' = [phase EXCEPT ![r] = "closed"]
  /\ stream' = [stream EXCEPT ![r] = DropStream(s)]
  /\ active' = active - 1

(* What unfold does with the result of a poll.  outs records the first     *)
(* MaxTokens tokens of a stream; the worker may send any number.           *)
Record(r, out) ==
  IF out = "token" /\ Len(outs[r]) >= MaxTokens
    THEN outs ELSE [outs EXCEPT ![r] = Append(@, out)]

Yield(r, s, out) ==
  IF out = "none"
    THEN Close(r, s) /\ UNCHANGED outs
    ELSE /\ phase' = [phase EXCEPT ![r] = "open"]
         /\ stream' = [stream EXCEPT ![r] = s]
         /\ outs' = Record(r, out)
         /\ UNCHANGED active

(* A poll that finds the context stopped cancels without suspending.       *)
PollStopped(r) ==
  /\ phase[r] = "open"
  /\ stopped[r]
  /\ \E ok \in {TRUE, ~ CancelMayFail} :
       Yield(r, CancelAt(stream[r]), CancelAtOutput(stream[r], ok))
  /\ UNCHANGED <<started, stopped>>

(* A poll of a terminal stream returns None at once.                       *)
PollEnded(r) ==
  /\ phase[r] = "open"
  /\ ~ stopped[r]
  /\ stream[r].terminal
  /\ Close(r, stream[r])
  /\ UNCHANGED <<started, stopped, outs>>

(* A poll that suspends in transport.next_event().                         *)
PollBegin(r) ==
  /\ phase[r] = "open"
  /\ ~ stopped[r]
  /\ ~ stream[r].terminal
  /\ phase' = [phase EXCEPT ![r] = "awaiting"]
  /\ UNCHANGED <<started, active, stopped, stream, outs>>

(* The awaited event arrives and the poll completes.                       *)
Receive(r, ev) ==
  /\ phase[r] = "awaiting"
  /\ Yield(r, NextAt(stream[r], ev), NextAtOutput(stream[r], ev))
  /\ UNCHANGED <<started, stopped>>

(* Dynamo drops the stream, in the middle of a poll or between two.        *)
Abandon(r) ==
  /\ Live(r)
  /\ Close(r, stream[r])
  /\ UNCHANGED <<started, stopped, outs>>

(* Mutant of Poll: ctx.is_stopped() is not consulted.                      *)
PollDeaf(r) ==
  /\ phase[r] = "open"
  /\ IF stream[r].terminal
       THEN Close(r, stream[r])
       ELSE /\ phase' = [phase EXCEPT ![r] = "awaiting"]
            /\ UNCHANGED <<active, stream>>
  /\ UNCHANGED <<started, stopped, outs>>

Poll(r) == PollStopped(r) \/ PollEnded(r) \/ PollBegin(r)

Next ==
  \/ Start \/ EngineCleanup
  \/ \E r \in Req :
       \/ Generate(r) \/ SendSucceeds(r) \/ SendFails(r)
       \/ StopContext(r) \/ Poll(r) \/ Abandon(r)
       \/ \E ev \in WorkerEvent : Receive(r, ev)

Spec == Init /\ [][Next]_vars

(***************************************************************************)
(* Dynamo keeps polling a stream it has not dropped, and the worker (or    *)
(* the loss of its connection) eventually completes every read.            *)
(***************************************************************************)
Fairness ==
  \A r \in Req : /\ WF_vars(Poll(r))
                 /\ WF_vars(\E ev \in WorkerEvent : Receive(r, ev))

FairSpec == Spec /\ Fairness

-------------------------------------------------------------------------------
(***************************************************************************)
(* The gauge behind is_quiescent() and the health control is exact: it is  *)
(* the number of streams handed to Dynamo and not yet dropped, whichever   *)
(* way each of them ends.  One missed or doubled decrement would drive it  *)
(* to zero under a live stream (or below zero), or never back to zero.     *)
(***************************************************************************)
ActiveCounts == active = Cardinality({r \in Req : Live(r)})

(***************************************************************************)
(* "cancel exactly once" (wire/src/lib.rs): the transport of a stream is   *)
(* cancelled at most once, never after the worker's own terminal event,    *)
(* and once the stream is gone exactly one of the two has happened.        *)
(***************************************************************************)
CancelExactlyOnce ==
  \A r \in Req :
    /\ stream[r].cancels = IF stream[r].cleaned_up /\ ~ stream[r].finished
                             THEN 1 ELSE 0
    /\ phase[r] = "closed" => stream[r].cleaned_up

(***************************************************************************)
(* A terminal item or an error is the last item a stream yields: next_at   *)
(* and cancel_at latch terminal before they return it.                     *)
(***************************************************************************)
OneTerminal ==
  \A r \in Req :
    \A i \in 1 .. Len(outs[r]) :
      outs[r][i] # "token" => i = Len(outs[r]) /\ stream[r].terminal

(***************************************************************************)
(* A stream that yielded its worker's Terminal item has an outcome for the *)
(* telemetry, and only such a stream or one that met a stop has: a failed  *)
(* request never reports one.                                              *)
(***************************************************************************)
OutcomeRecorded ==
  \A r \in Req :
    /\ stream[r].finished => stream[r].outcome
    /\ (\E i \in 1 .. Len(outs[r]) : outs[r][i] = "terminal")
         => stream[r].outcome
    /\ stream[r].outcome => stream[r].terminal /\ (stream[r].finished \/ stopped[r])

(***************************************************************************)
(* Once a stream is terminal no step of any request turns it back, cancels *)
(* it again or yields another item from it.                                *)
(***************************************************************************)
TerminalIsFinal ==
  [][\A r \in Req : stream[r].terminal =>
       /\ stream'[r].terminal
       /\ stream'[r].cancels = stream[r].cancels
       /\ outs'[r] = outs[r]]_vars

(***************************************************************************)
(* abort() is a no-op: it relies on the stream to notice the stop.  Every  *)
(* live stream of a stopped context is eventually released, although a     *)
(* poll suspended in next_at cannot see the stop.                          *)
(***************************************************************************)
StopReleases ==
  \A r \in Req : (stopped[r] /\ Live(r)) ~> ~ Live(r)

(***************************************************************************)
(* What a request holds, its place in the active gauge and its transport,  *)
(* is given back exactly once, whether it ends, fails, is stopped or is    *)
(* dropped between two polls.                                              *)
(***************************************************************************)
StreamsReleased == ActiveCounts /\ CancelExactlyOnce

(***************************************************************************)
(* A stream ends once, and the telemetry hears of it as the client does.   *)
(***************************************************************************)
EndsOnce == OneTerminal /\ OutcomeRecorded
===============================================================================
