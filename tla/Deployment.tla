------------------------------ MODULE Deployment ------------------------------
(***************************************************************************)
(* The in-process deployment, crates/worker/src/deployment.rs: generate()  *)
(* registers a request and hands it to a prefill worker; one task, the     *)
(* prefill pump, streams first tokens and hands the requests on to decode; *)
(* another, the decode pump, streams the rest.  Both pumps serve every     *)
(* request through its own bounded channel, whose other end is a handler   *)
(* of the HTTP frontend, crates/frontend/src/server.rs: it forwards the    *)
(* chunks as server-sent events, or collects them into one answer.         *)
(*                                                                         *)
(* The workers are taken by what they promise (PrefillWorker and           *)
(* DecodeWorker model them): a job comes out as a completion or as events  *)
(* in order, is lost, or goes down with its worker.                        *)
(***************************************************************************)
EXTENDS Integers, Sequences, SequencesExt, FiniteSets

CONSTANTS
  Requests,            \* concurrent requests
  Streaming,           \* the requests with "stream": true
  Stalling,            \* those whose client may stop reading for good
  MaxTokens,           \* params.max_tokens of each
  ChannelDepth,        \* CHANNEL_DEPTH of the job channel and of a client's
  MaxLost              \* bound: jobs a worker loses or takes with it

ASSUME DeploymentAssumption ==
  /\ IsFiniteSet(Requests) /\ "none" \notin Requests
  /\ Streaming \subseteq Requests /\ Stalling \subseteq Streaming
  /\ MaxTokens \in [Requests -> Nat]
  /\ ChannelDepth \in Nat \ {0} /\ MaxLost \in Nat

VARIABLES
  stage,        \* where each request is in the workers
  emitted,      \* tokens each request has so far
  inflight,     \* the requests with an entry in inflight
  pdone,        \* PrefillComplete channel
  events,       \* DecodeEvent channel
  handP, handD, \* what the pumps hold while they await a send
  chan, rx,     \* each handler's channel, and whether the receiver lives
  got,          \* the chunks each handler has read
  reply,        \* what the client has been answered
  open,         \* whether the prefill and the decode worker are running
  lost          \* requests a worker has lost

vars == <<stage, emitted, inflight, pdone, events, handP, handD, chan, rx, got,
          reply, open, lost>>

Token(n) == [kind |-> "Token", n |-> n]
Done == [kind |-> "Done", n |-> 0]
Error == [kind |-> "Error", n |-> 0]
Terminal == {Done, Error}

NoHand == [r |-> "none", todo |-> "none"]
Stages == {"new", "refused", "submit", "failed", "abandoned", "queued", "prefill",
           "first", "decode", "finished"}

TypeOK ==
  /\ stage \in [Requests -> Stages]
  /\ inflight \subseteq Requests
  /\ pdone \in Seq(Requests)
  /\ \A k \in 1 .. Len(events) : events[k].r \in Requests
  /\ rx \in [Requests -> {"none", "open", "dropped"}]
  /\ \A r \in Requests : /\ Len(chan[r]) <= ChannelDepth
                         /\ emitted[r] \in 0 .. MaxTokens[r] + 1
  /\ reply \in [Requests -> {"none", "ok", "error", "bad", "unavailable"}]
  /\ open \in [{"prefill", "decode"} -> BOOLEAN]
  /\ lost \subseteq Requests

(* spawn(): every task is running and nothing is in flight.                *)
Init ==
  /\ stage = [r \in Requests |-> "new"]
  /\ emitted = [r \in Requests |-> 0]
  /\ inflight = {}
  /\ pdone = <<>> /\ events = <<>>
  /\ handP = NoHand /\ handD = NoHand
  /\ chan = [r \in Requests |-> <<>>]
  /\ rx = [r \in Requests |-> "none"]
  /\ got = [r \in Requests |-> <<>>]
  /\ reply = [r \in Requests |-> "none"]
  /\ open = [w \in {"prefill", "decode"} |-> TRUE]
  /\ lost = {}

-------------------------------------------------------------------------------
(* chat_completions without a message: 400, and nothing else happens.      *)
BadRequest(r) ==
  /\ stage[r] = "new"
  /\ stage' = [stage EXCEPT ![r] = "refused"]
  /\ reply' = [reply EXCEPT ![r] = "bad"]
  /\ UNCHANGED <<emitted, inflight, pdone, events, handP, handD, chan, rx, got, open,
                 lost>>

(* generate() without a route: 503, before anything is registered.         *)
RouteFails(r) ==
  /\ stage[r] = "new"
  /\ stage' = [stage EXCEPT ![r] = "refused"]
  /\ reply' = [reply EXCEPT ![r] = "unavailable"]
  /\ UNCHANGED <<emitted, inflight, pdone, events, handP, handD, chan, rx, got, open,
                 lost>>

(* generate(): the entry is made before the job is sent.                   *)
Generate(r) ==
  /\ stage[r] = "new"
  /\ inflight' = inflight \cup {r}
  /\ stage' = [stage EXCEPT ![r] = "submit"]
  /\ UNCHANGED <<emitted, pdone, events, handP, handD, chan, rx, got, reply, open, lost>>

(* The send of the job waits for room; then generate() returns the         *)
(* receiver.                                                               *)
Queue == {r \in Requests : stage[r] = "queued"}
Submit(r) ==
  /\ stage[r] = "submit" /\ open["prefill"] /\ Cardinality(Queue) < ChannelDepth
  /\ stage' = [stage EXCEPT ![r] = "queued"]
  /\ rx' = [rx EXCEPT ![r] = "open"]
  /\ UNCHANGED <<emitted, inflight, pdone, events, handP, handD, chan, got, reply, open,
                 lost>>

(* The prefill worker is gone: the client is answered 503, the entry       *)
(* stays.                                                                  *)
SubmitFails(r) ==
  /\ stage[r] = "submit" /\ ~ open["prefill"]
  /\ stage' = [stage EXCEPT ![r] = "failed"]
  /\ rx' = [rx EXCEPT ![r] = "dropped"]
  /\ reply' = [reply EXCEPT ![r] = "unavailable"]
  /\ UNCHANGED <<emitted, inflight, pdone, events, handP, handD, chan, got, open, lost>>

(* The client disconnects while the send waits: the handler's future is    *)
(* dropped, the job was never sent, and the entry stays.                   *)
Abandon(r) ==
  /\ stage[r] = "submit"
  /\ stage' = [stage EXCEPT ![r] = "abandoned"]
  /\ rx' = [rx EXCEPT ![r] = "dropped"]
  /\ UNCHANGED <<emitted, inflight, pdone, events, handP, handD, chan, got, reply, open,
                 lost>>

(* The prefill worker takes a job from its channel.                        *)
PrefillTakes(r) ==
  /\ stage[r] = "queued"
  /\ stage' = [stage EXCEPT ![r] = "prefill"]
  /\ UNCHANGED <<emitted, inflight, pdone, events, handP, handD, chan, rx, got, reply,
                 open, lost>>

(* The prefill worker reports the first token of a prompt.                 *)
PrefillCompletes(r) ==
  /\ stage[r] = "prefill"
  /\ stage' = [stage EXCEPT ![r] = "first"]
  /\ emitted' = [emitted EXCEPT ![r] = 1]
  /\ pdone' = Append(pdone, r)
  /\ UNCHANGED <<inflight, events, handP, handD, chan, rx, got, reply, open, lost>>

(* The decode worker reports a token of a sequence.                        *)
DecodeEmits(r) ==
  /\ stage[r] = "decode" /\ emitted[r] < MaxTokens[r]
  /\ emitted' = [emitted EXCEPT ![r] = @ + 1]
  /\ events' = Append(events, [r |-> r, chunk |-> Token(emitted[r] + 1)])
  /\ UNCHANGED <<stage, inflight, pdone, handP, handD, chan, rx, got, reply, open, lost>>

(* It reports the end: at the token limit, or wherever the engine stops.   *)
DecodeFinishes(r) ==
  /\ stage[r] = "decode"
  /\ stage' = [stage EXCEPT ![r] = "finished"]
  /\ events' = Append(events, [r |-> r, chunk |-> Done])
  /\ UNCHANGED <<emitted, inflight, pdone, handP, handD, chan, rx, got, reply, open,
                 lost>>

(* A worker loses a job: a prompt booked without its tokens, a sequence    *)
(* the engine would not attach.                                            *)
Loses(r) ==
  /\ stage[r] \in {"prefill", "decode"}
  /\ Cardinality(lost) < MaxLost
  /\ lost' = lost \cup {r}
  /\ stage' = [stage EXCEPT ![r] = "finished"]
  /\ UNCHANGED <<emitted, inflight, pdone, events, handP, handD, chan, rx, got, reply,
                 open>>

(* A worker's task ends, with all its jobs and those in its channel.       *)
Dies(w) ==
  LET jobs == {r \in Requests : stage[r] = w} \cup IF w = "prefill" THEN Queue ELSE {} IN
  /\ open[w] /\ Cardinality(lost \cup jobs) <= MaxLost
  /\ open' = [open EXCEPT ![w] = FALSE]
  /\ lost' = lost \cup jobs
  /\ stage' = [r \in Requests |-> IF r \in jobs THEN "finished" ELSE stage[r]]
  /\ UNCHANGED <<emitted, inflight, pdone, events, handP, handD, chan, rx, got, reply>>

-------------------------------------------------------------------------------
(* A send on a client's channel fails at once when the receiver is gone,   *)
(* and waits while the channel is full.                                    *)
Gone(r) == rx[r] = "dropped"
Room(r) == rx[r] = "open" /\ Len(chan[r]) < ChannelDepth
Send(r, chunk) == chan' = [chan EXCEPT ![r] = Append(@, chunk)]

(* Mutant of PumpPrefillTake: the handoff precedes the first token.        *)
PumpPrefillTakeAdmitting ==
  /\ handP = NoHand /\ pdone # <<>>
  /\ pdone' = Tail(pdone)
  /\ handP' = [r |-> Head(pdone), todo |-> "first"]
  /\ stage' = [stage EXCEPT ![Head(pdone)] = "decode"]
  /\ UNCHANGED <<emitted, inflight, events, handD, chan, rx, got, reply, open, lost>>

(* pump_prefill: take a completion; without an entry it is dropped.        *)
PumpPrefillTake ==
  /\ handP = NoHand /\ pdone # <<>>
  /\ pdone' = Tail(pdone)
  /\ handP' = IF Head(pdone) \in inflight
                THEN [r |-> Head(pdone), todo |-> "first"] ELSE NoHand
  /\ UNCHANGED <<stage, emitted, inflight, events, handD, chan, rx, got, reply,
                 open, lost>>

(* Mutant of PumpPrefillGone: the entry is left behind.                    *)
PumpPrefillGoneKeeping ==
  /\ handP.todo = "first" /\ Gone(handP.r)
  /\ handP' = NoHand
  /\ stage' = [stage EXCEPT ![handP.r] = "finished"]
  /\ UNCHANGED <<emitted, inflight, pdone, events, handD, chan, rx, got, reply,
                 open, lost>>

(* Mutant of PumpPrefillGone: the pump's loop ends.                        *)
PumpPrefillGoneEnds ==
  /\ handP.todo = "first" /\ Gone(handP.r)
  /\ handP' = [NoHand EXCEPT !.todo = "ended"]
  /\ inflight' = inflight \ {handP.r}
  /\ stage' = [stage EXCEPT ![handP.r] = "finished"]
  /\ UNCHANGED <<emitted, pdone, events, handD, chan, rx, got, reply, open, lost>>

(* The client is gone before its first token: no decode.                   *)
PumpPrefillGone ==
  /\ handP.todo = "first" /\ Gone(handP.r)
  /\ handP' = NoHand
  /\ inflight' = inflight \ {handP.r}
  /\ stage' = [stage EXCEPT ![handP.r] = "finished"]
  /\ UNCHANGED <<emitted, pdone, events, handD, chan, rx, got, reply, open, lost>>

(* The first token is streamed, and only then is the request handed on.    *)
PumpPrefillFirst ==
  LET r == handP.r IN
  /\ handP.todo = "first" /\ Room(r)
  /\ Send(r, Token(1))
  /\ IF MaxTokens[r] <= 1
       THEN /\ stage' = [stage EXCEPT ![r] = "finished"]
            /\ handP' = [handP EXCEPT !.todo = "done"]
       ELSE /\ handP' = [handP EXCEPT !.todo = "admit"]
            /\ UNCHANGED stage
  /\ UNCHANGED <<emitted, inflight, pdone, events, handD, rx, got, reply, open, lost>>

(* The handoff to decode, or an error if the decode worker is gone.        *)
PumpPrefillAdmit ==
  LET r == handP.r IN
  /\ handP.todo = "admit"
  /\ IF open["decode"]
       THEN /\ stage' = [stage EXCEPT ![r] = "decode"]
            /\ handP' = NoHand
       ELSE /\ stage' = [stage EXCEPT ![r] = "finished"]
            /\ handP' = [handP EXCEPT !.todo = "error"]
  /\ UNCHANGED <<emitted, inflight, pdone, events, handD, chan, rx, got, reply,
                 open, lost>>

(* The terminal chunk of the prefill pump, then the entry is removed.      *)
PumpPrefillEnd ==
  LET r == handP.r IN
  /\ handP.todo \in {"done", "error"} /\ (Gone(r) \/ Room(r))
  /\ IF Gone(r) THEN UNCHANGED chan
     ELSE Send(r, IF handP.todo = "done" THEN Done ELSE Error)
  /\ inflight' = inflight \ {r}
  /\ handP' = NoHand
  /\ UNCHANGED <<stage, emitted, pdone, events, handD, rx, got, reply, open, lost>>

(* Mutant of PumpDecodeTake: a finished sequence's entry is removed by its *)
(* last token.                                                             *)
PumpDecodeTakeEarly ==
  /\ handD = NoHand /\ events # <<>>
  /\ LET r == Head(events).r
         chunk == Head(events).chunk
     IN /\ handD' = IF r \in inflight THEN [r |-> r, todo |-> chunk] ELSE NoHand
        /\ inflight' = IF chunk.n = 0 \/ chunk.n = MaxTokens[r]
                         THEN inflight \ {r} ELSE inflight
  /\ events' = Tail(events)
  /\ UNCHANGED <<stage, emitted, pdone, handP, chan, rx, got, reply, open, lost>>

(* pump_decode: take an event.  The end removes the entry before it is     *)
(* streamed; without an entry the event is dropped.                        *)
PumpDecodeTake ==
  /\ handD = NoHand /\ events # <<>>
  /\ LET r == Head(events).r
         chunk == Head(events).chunk
     IN /\ handD' = IF r \in inflight THEN [r |-> r, todo |-> chunk] ELSE NoHand
        /\ inflight' = IF chunk = Done THEN inflight \ {r} ELSE inflight
  /\ events' = Tail(events)
  /\ UNCHANGED <<stage, emitted, pdone, handP, chan, rx, got, reply, open, lost>>

(* Mutant of PumpDecodeSend: the channel is unbounded.                     *)
PumpDecodeSendUnbounded ==
  /\ handD # NoHand
  /\ IF Gone(handD.r)
       THEN inflight' = inflight \ {handD.r} /\ UNCHANGED chan
       ELSE Send(handD.r, handD.todo) /\ UNCHANGED inflight
  /\ handD' = NoHand
  /\ UNCHANGED <<stage, emitted, pdone, events, handP, rx, got, reply, open, lost>>

(* The chunk is sent, or, the client being gone, the entry is removed.     *)
PumpDecodeSend ==
  /\ handD # NoHand /\ (Gone(handD.r) \/ Room(handD.r))
  /\ IF Gone(handD.r)
       THEN inflight' = inflight \ {handD.r} /\ UNCHANGED chan
       ELSE Send(handD.r, handD.todo) /\ UNCHANGED inflight
  /\ handD' = NoHand
  /\ UNCHANGED <<stage, emitted, pdone, events, handP, rx, got, reply, open, lost>>

-------------------------------------------------------------------------------
(* The handler takes a chunk.  sse_response forwards it whatever it is;    *)
(* collect_response returns at a terminal chunk.                           *)
Read(r) ==
  LET chunk == Head(chan[r])
      returns == r \notin Streaming /\ chunk \in Terminal
  IN
  /\ rx[r] = "open" /\ chan[r] # <<>>
  /\ got' = [got EXCEPT ![r] = Append(@, chunk)]
  /\ chan' = [chan EXCEPT ![r] = Tail(@)]
  /\ rx' = IF returns THEN [rx EXCEPT ![r] = "dropped"] ELSE rx
  /\ reply' = IF ~ returns THEN reply
              ELSE [reply EXCEPT ![r] = IF chunk = Done THEN "ok" ELSE "error"]
  /\ UNCHANGED <<stage, emitted, inflight, pdone, events, handP, handD, open, lost>>

(* Every sender is gone: the event stream ends, and collect_response, its  *)
(* loop over, answers 200 with what it has.                                *)
Close(r) ==
  /\ rx[r] = "open" /\ chan[r] = <<>>
  /\ r \notin inflight /\ handP.r # r /\ handD.r # r
  /\ rx' = [rx EXCEPT ![r] = "dropped"]
  /\ reply' = [reply EXCEPT ![r] = "ok"]
  /\ UNCHANGED <<stage, emitted, inflight, pdone, events, handP, handD, chan, got,
                 open, lost>>

(* The client disconnects, and the handler's future is dropped.            *)
HangUp(r) ==
  /\ rx[r] = "open"
  /\ rx' = [rx EXCEPT ![r] = "dropped"]
  /\ chan' = [chan EXCEPT ![r] = <<>>]
  /\ UNCHANGED <<stage, emitted, inflight, pdone, events, handP, handD, got, reply,
                 open, lost>>

Handler(r) == Read(r) \/ Close(r)
PumpPrefill ==
  PumpPrefillTake \/ PumpPrefillGone \/ PumpPrefillFirst
  \/ PumpPrefillAdmit \/ PumpPrefillEnd
PumpDecode == PumpDecodeTake \/ PumpDecodeSend
Caller(r) == Submit(r) \/ SubmitFails(r)
Worker(r) ==
  PrefillTakes(r) \/ PrefillCompletes(r) \/ DecodeEmits(r) \/ DecodeFinishes(r)

Next ==
  \/ \E r \in Requests : BadRequest(r) \/ RouteFails(r) \/ Generate(r) \/ Caller(r)
                         \/ Abandon(r) \/ Worker(r) \/ Loses(r) \/ Handler(r)
                         \/ HangUp(r)
  \/ \E w \in {"prefill", "decode"} : Dies(w)
  \/ PumpPrefill \/ PumpDecode

(* The tasks run and the workers work.  collect_response reads for as long *)
(* as it runs; sse_response reads as fast as its client, and nothing times *)
(* out a client that has stopped.                                          *)
Spec ==
  /\ Init /\ [][Next]_vars
  /\ WF_vars(PumpPrefill) /\ WF_vars(PumpDecode)
  /\ \A r \in Requests : WF_vars(Caller(r)) /\ WF_vars(Worker(r))
  /\ \A r \in Requests \ Stalling : WF_vars(Handler(r))

-------------------------------------------------------------------------------
Stream(r) == got[r] \o chan[r]

(* Somebody will still act on the request's entry.                         *)
Owned(r) ==
  \/ stage[r] \in {"submit", "queued", "prefill", "decode"}
  \/ r \in ToSet(pdone) \/ handP.r = r \/ handD.r = r
  \/ \E k \in 1 .. Len(events) : events[k].r = r

(***************************************************************************)
(* An entry in inflight has an owner that will remove it.  The entries     *)
(* that stay for ever are those of jobs a worker lost, of requests whose   *)
(* job generate() could not send, and of clients that disconnected while   *)
(* the send was waiting (deployment.rs:377-395): nothing undoes the        *)
(* insert.  There are no others.                                           *)
(***************************************************************************)
EntryHasOwner ==
  \A r \in inflight : Owned(r) \/ r \in lost \/ stage[r] \in {"failed", "abandoned"}

(***************************************************************************)
(* A 200 is never a truncated answer.  collect_response cannot tell a      *)
(* channel that closed early from one that was finished, and an event      *)
(* stream just ends (server.rs:205-236), so it is the pumps that must send *)
(* a terminal chunk before the last sender goes (deployment.rs:248-321).   *)
(***************************************************************************)
AnswerWhole ==
  \A r \in Requests :
    reply[r] = "ok" => /\ got[r] # <<>> /\ Last(got[r]) \in Terminal
                       /\ r \notin Streaming => Last(got[r]) = Done

(***************************************************************************)
(* Two pumps write to one stream, and still the client sees the tokens in  *)
(* order, none missing, and nothing after the terminal chunk, which is     *)
(* Done only when every token the workers made was sent.                   *)
(***************************************************************************)
StreamInOrder ==
  \A r \in Requests :
    \A k \in 1 .. Len(Stream(r)) :
      \/ Stream(r)[k] = Token(k)
      \/ /\ k = Len(Stream(r)) /\ Stream(r)[k] \in Terminal
         /\ Stream(r)[k] = Done => k - 1 = emitted[r]

(* A pump awaits a send to a client that does not read.                    *)
Blocks(q) ==
  (handP.r = q \/ handD.r = q) /\ rx[q] = "open" /\ Len(chan[q]) = ChannelDepth

(***************************************************************************)
(* Every request that is submitted and that no worker loses is answered,   *)
(* or its client hangs up; only one thing can prevent it: a streaming      *)
(* client that has stopped reading and holds one of the two pumps, which   *)
(* await each send, for ever (deployment.rs:257-262, 304).  A stalled      *)
(* client whose channel has room, a client that hung up, an entry left     *)
(* behind and a full job channel hold up nobody.                           *)
(***************************************************************************)
ReadersServed ==
  \A r \in Requests \ Stalling :
    (stage[r] = "submit" \/ rx[r] = "open")
      ~> (rx[r] = "dropped" \/ r \in lost \/ \E q \in Stalling : []Blocks(q))

(***************************************************************************)
(* The channels keep their depth, and the map of clients holds no entry    *)
(* that everybody has forgotten but for the three kinds of EntryHasOwner.  *)
(***************************************************************************)
EntriesOwned == TypeOK /\ EntryHasOwner

(***************************************************************************)
(* What a client reads is whole and in order, although two pumps write it. *)
(***************************************************************************)
StreamsWhole == AnswerWhole /\ StreamInOrder
===============================================================================
