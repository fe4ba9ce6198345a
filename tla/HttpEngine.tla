------------------------------ MODULE HttpEngine ------------------------------
(***************************************************************************)
(* DynamoEngine over the transport it is deployed with: HttpTransport of   *)
(* crates/wire/src/transport.rs, which posts the request and cuts the      *)
(* bytes of the answer into server-sent events, whatever way the network   *)
(* cuts them into chunks.                                                  *)
(*                                                                         *)
(* A body is a sequence of pieces: a line ending, or the text of a line.   *)
(* "token", "finish" and "error" are data lines with such a payload, "bad" *)
(* a line that is not UTF-8, and "other" a comment or another field.  The  *)
(* worker writes at most one data line per frame.  An answer is a record   *)
(* of the lines the worker writes and of the line ending it writes them    *)
(* with; its text, and the events it completes, follow from these.         *)
(***************************************************************************)
EXTENDS DynamoEngine

CONSTANTS
  Answers,   \* Answers[r]: what the worker may write back to r
  Endless    \* the requests whose worker then goes on with token after token

VARIABLES
  posted,    \* the controls in the TransportRequest of each request
  unread,    \* the text that has not come out of the stream yet
  buffered,  \* HttpTransport.buffered
  owed       \* the events written and not yet returned

wire == <<unread, buffered, owed>>
httpVars == <<vars, posted, wire>>

Ending == {"cr", "lf"}
Piece == Ending \cup {"token", "finish", "error", "bad", "other"}

(* A line is blank or the text of one; one answer has one kind of ending.  *)
Line == (Piece \ Ending) \cup {"blank"}
Style == {<<"cr">>, <<"lf">>, <<"cr", "lf">>}

(* Dynamo's worker ends every frame before it goes on with the next token. *)
ASSUME AnswersAssumption ==
  \A r \in Req : \A a \in Answers[r] :
    /\ a.end \in Style
    /\ a.lines \in Seq(Line)
    /\ r \in Endless /\ a.lines # <<>> => a.lines[Len(a.lines)] = "blank"

-------------------------------------------------------------------------------
(* Mutant of EndingLen: a carriage return is a line ending of its own.     *)
EndingLenBare(b, at) ==
  IF at \in 1 .. Len(b) /\ b[at] \in Ending THEN 1 ELSE 0

(* line_ending_len: CR LF is one line ending once both are there.          *)
EndingLen(b, at) ==
  IF at \notin 1 .. Len(b) \/ b[at] \notin Ending THEN 0
  ELSE IF at < Len(b) /\ b[at] = "cr" /\ b[at + 1] = "lf" THEN 2 ELSE 1

(* sse_frame_end: a frame ends where one line ending follows another, at   *)
(* the first such place; both endings are drained with it.                 *)
EndsAt(b, i) ==
  EndingLen(b, i) > 0 /\ EndingLen(b, i + EndingLen(b, i)) > 0
HasFrame(b) == \E i \in 1 .. Len(b) : EndsAt(b, i)
FrameEnd(b) ==
  CHOOSE i \in 1 .. Len(b) : EndsAt(b, i) /\ \A j \in 1 .. i - 1 : ~ EndsAt(b, j)
Drain(b) ==
  LET second(end) == end + EndingLen(b, end)
      cut == [end \in 1 .. Len(b) |->
                [frame |-> SubSeq(b, 1, end - 1),
                 rest |-> SubSeq(b, second(end) + EndingLen(b, second(end)), Len(b))]]
  IN cut[FrameEnd(b)]

(* parse_sse_frame and decode_event: a frame without a data line is no     *)
(* event; a frame that does not parse and an error payload fail the stream.*)
(* The code joins several data lines to one payload; a worker that sends   *)
(* one per frame has nothing to join.                                      *)
EventOf(f) ==
  LET has(p) == \E i \in 1 .. Len(f) : f[i] = p
  IN IF has("bad") \/ has("error") THEN "failure"
     ELSE IF has("token") THEN "token"
     ELSE IF has("finish") THEN "finish" ELSE "none"

(* What next_event makes of a frame: an event, or nothing.                 *)
Yielded(f) == IF EventOf(f) = "none" THEN <<>> ELSE <<EventOf(f)>>

(* The worker writes one more line.  A blank one completes what the lines  *)
(* since the blank one before it, open, say.                               *)
WriteLine(w, x, end) ==
  [text |-> w.text \o (IF x = "blank" THEN end ELSE <<x>> \o end),
   open |-> IF x = "blank" THEN <<>> ELSE Append(w.open, x),
   events |-> IF x = "blank" THEN w.events \o Yielded(w.open) ELSE w.events]

(* An answer, written line by line: its text and the events it completes.  *)
(* The Python worker writes a data line and a blank one per event, with LF *)
(* endings; what else the Rust side must read is in Answers too.           *)
Written(a) ==
  LET after[n \in 0 .. Len(a.lines)] ==
        IF n = 0 THEN [text |-> <<>>, open |-> <<>>, events |-> <<>>]
        ELSE WriteLine(after[n - 1], a.lines[n], a.end)
  IN after[Len(a.lines)]

(* The events in the complete frames of b, as next_event finds them.       *)
Events[b \in Seq(Piece)] ==
  IF ~ HasFrame(b) THEN <<>>
  ELSE LET d == Drain(b) IN Yielded(d.frame) \o Events[d.rest]

-------------------------------------------------------------------------------
(* The fields convert_request reads.                                       *)
Supported ==
  {"max_tokens", "temperature", "top_p", "top_k", "ignore_eos", "seed", "stop",
   "stop_token_ids", "stop_token_ids_hidden", "min_tokens", "max_thinking_tokens",
   "repetition_penalty", "presence_penalty", "frequency_penalty", "min_p",
   "include_stop_str_in_output", "skip_special_tokens"}

(* Dynamo's requests have no optional fields but these.                    *)
ASSUME ControlsAssumption ==
  \A r \in Req : Controls[r] \subseteq Supported \cup Unsupported

(* ... and the name under which the worker knows each of them.             *)
WireName(c) ==
  CASE c = "stop_token_ids_hidden" -> "stop_token_ids"
    [] c = "max_thinking_tokens" -> "thinking_token_budget"
    [] OTHER -> c

(* Every request has these, from its own fields or from the defaults.      *)
Always == {"max_tokens", "temperature", "top_p", "top_k", "ignore_eos"}

(* Mutant of Forwarded: the budget keeps the name Dynamo gives it.         *)
ForwardedUnnamed(r) == Always \cup Controls[r]

Forwarded(r) == Always \cup {WireName(c) : c \in Controls[r]}

(* _SAMPLING_FIELDS and _EXTRA_FIELDS of the Python worker, which answers  *)
(* 422 to anything else.                                                   *)
WorkerFields ==
  Always \cup
  {"seed", "stop", "stop_token_ids", "min_tokens", "repetition_penalty",
   "presence_penalty", "frequency_penalty", "min_p", "thinking_token_budget",
   "include_stop_str_in_output", "skip_special_tokens",
   "spaces_between_special_tokens"}

(* The names a field has, on one side or the other.                        *)
Field == Supported \cup WorkerFields

-------------------------------------------------------------------------------
HttpTypeOK ==
  /\ TypeOK
  /\ posted \in [Req -> SUBSET Field]
  /\ unread \in [Req -> Seq(Piece)]
  /\ buffered \in [Req -> Seq(Piece)]
  /\ owed \in [Req -> Seq(WorkerEvent)]

HttpInit ==
  /\ Init
  /\ posted = [r \in Req |-> {}]
  /\ unread = [r \in Req |-> <<>>]
  /\ buffered = [r \in Req |-> <<>>]
  /\ owed = [r \in Req |-> <<>>]

(* Nothing of the transports changes.                                      *)
WireIdle == UNCHANGED <<posted, wire>>

Post(r) ==
  /\ Generate(r)
  /\ posted' = [posted EXCEPT ![r] = IF phase'[r] = "sending" THEN Forwarded(r) ELSE {}]
  /\ UNCHANGED wire

(* HttpTransport::send: the status is a success and the body streams.      *)
Answered(r) ==
  /\ SendSucceeds(r)
  /\ posted[r] \subseteq WorkerFields
  /\ \E a \in Answers[r] : LET w == Written(a) IN
       /\ owed' = [owed EXCEPT ![r] = w.events]
       /\ unread' = [unread EXCEPT ![r] = w.text]
  /\ UNCHANGED <<posted, buffered>>

(* HttpTransport::cancel drops the stream and what was buffered; it has    *)
(* run in this step if the stream counted a cancel.  left is what the step *)
(* leaves in the buffer otherwise.                                         *)
CancelHttp(r, left) ==
  LET cancelled == stream'[r].cancels # stream[r].cancels
  IN /\ unread' = [unread EXCEPT ![r] = IF cancelled THEN <<>> ELSE @]
     /\ buffered' = [buffered EXCEPT ![r] = IF cancelled THEN <<>> ELSE left]

(* next_event returns ev to next_at, and the poll ends.                    *)
Returns(r, ev, left) ==
  /\ Receive(r, ev)
  /\ CancelHttp(r, left)
  /\ owed' = [owed EXCEPT ![r] = IF @ # <<>> /\ Head(@) = ev THEN Tail(@) ELSE @]
  /\ UNCHANGED posted

(* A complete frame is buffered: it is an event, or it is skipped.         *)
TakeFrame(r) ==
  /\ phase[r] = "awaiting"
  /\ HasFrame(buffered[r])
  /\ \E d \in {Drain(buffered[r])} :
       \/ EventOf(d.frame) # "none" /\ Returns(r, EventOf(d.frame), d.rest)
       \/ /\ EventOf(d.frame) = "none"
          /\ buffered' = [buffered EXCEPT ![r] = d.rest]
          /\ UNCHANGED <<vars, posted, unread, owed>>

(* No frame is complete: the next chunk, of any size, is appended.         *)
TakeChunk(r) ==
  /\ phase[r] = "awaiting"
  /\ ~ HasFrame(buffered[r])
  /\ \E n \in 1 .. Len(unread[r]) :
       /\ buffered' = [buffered EXCEPT ![r] = @ \o SubSeq(unread[r], 1, n)]
       /\ unread' = [unread EXCEPT ![r] = SubSeq(@, n + 1, Len(@))]
  /\ UNCHANGED <<vars, posted, owed>>

(* The worker of an endless answer has written another token.              *)
WriteOn(r) ==
  /\ r \in Endless
  /\ Live(r)
  /\ stream[r].cancels = 0
  /\ unread[r] = <<>>
  /\ unread' = [unread EXCEPT ![r] = <<"token", "lf", "lf">>]
  /\ owed' = [owed EXCEPT ![r] = Append(@, "token")]
  /\ UNCHANGED <<vars, posted, buffered>>

(* The body ends (with or without a partial frame) or the connection does: *)
(* either way next_at fails the stream.                                    *)
BodyEnds(r) ==
  /\ phase[r] = "awaiting"
  /\ ~ HasFrame(buffered[r])
  /\ unread[r] = <<>> /\ r \notin Endless
  /\ Returns(r, "failure", buffered[r])

BodyBreaks(r) ==
  /\ phase[r] = "awaiting"
  /\ ~ HasFrame(buffered[r])
  /\ unread[r] # <<>> \/ r \in Endless
  /\ Returns(r, "failure", buffered[r])

HttpPoll(r) ==
  Poll(r) /\ CancelHttp(r, buffered[r]) /\ UNCHANGED <<posted, owed>>

Forget(r) ==
  Abandon(r) /\ CancelHttp(r, buffered[r]) /\ UNCHANGED <<posted, owed>>

NextEvent(r) == TakeFrame(r) \/ TakeChunk(r) \/ WriteOn(r) \/ BodyEnds(r)

HttpNext ==
  \/ (Start \/ EngineCleanup) /\ WireIdle
  \/ \E r \in Req :
       \/ Post(r) \/ Answered(r)
       \/ (SendFails(r) \/ StopContext(r)) /\ WireIdle
       \/ HttpPoll(r) \/ Forget(r)
       \/ NextEvent(r) \/ BodyBreaks(r)

HttpSpec == HttpInit /\ [][HttpNext]_httpVars

(***************************************************************************)
(* Dynamo keeps polling a stream it has not dropped, and a worker that     *)
(* answered goes on writing until its answer ends.                         *)
(***************************************************************************)
HttpFairness ==
  \A r \in Req : WF_httpVars(HttpPoll(r)) /\ WF_httpVars(NextEvent(r))

FairHttpSpec == HttpSpec /\ HttpFairness

-------------------------------------------------------------------------------
(***************************************************************************)
(* However the network cuts the body into chunks, next_event returns the   *)
(* events the worker wrote, in their order, none twice and none lost: what *)
(* the buffer and the unread text still yield is what is still owed.       *)
(* A line ending cut in two (transport.rs:219-224) must not make an event  *)
(* or hide one.  Streams that were cancelled, or that have failed, have no *)
(* more to come.                                                           *)
(***************************************************************************)
EventsAsWritten ==
  \A r \in Req :
    stream[r].cancels = 0 => Events[buffered[r] \o unread[r]] = owed[r]

(***************************************************************************)
(* "there is no control being silently dropped" (engine.rs:95): a request  *)
(* the adapter accepts reaches the worker with every control it set, under *)
(* a name the worker does not refuse.                                      *)
(***************************************************************************)
ControlsArrive ==
  \A r \in Req : posted[r] # {} =>
    /\ posted[r] \subseteq WorkerFields
    /\ \A c \in Controls[r] : WireName(c) \in posted[r]

(***************************************************************************)
(* HttpTransport between the worker and the stream: the state is of its    *)
(* type, and the events are those the worker wrote.                        *)
(***************************************************************************)
WireExact == HttpTypeOK /\ EventsAsWritten
===============================================================================
