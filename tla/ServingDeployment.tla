--------------------------- MODULE ServingDeployment ---------------------------
(***************************************************************************)
(* The serving path of crates/worker/src/serving.rs: a router in front of  *)
(* several engine processes (slots), one RequestStream and one spawned     *)
(* task per request, and a bounded channel from that task to the client    *)
(* (crates/frontend/src/server.rs reads it).                               *)
(*                                                                         *)
(* The in-flight count of a slot is the only load signal the router has.   *)
(* generate() clones the counts under one lock, pushes the clone into the  *)
(* registry under another and routes under that lock taken again, so the   *)
(* generate() of another request may run between any two of these; the     *)
(* count itself is raised only after the request has been sent to the      *)
(* process, which suspends.                                                *)
(***************************************************************************)
EXTENDS RequestStream, Integers, Sequences, FiniteSets

CONSTANTS
  Req,           \* requests
  NumSlots,      \* engine processes; a slot is its index, as in the source
  DecodeCap,     \* decode_cap_hint
  ChannelDepth,  \* CHANNEL_DEPTH
  Attentive      \* the requests whose client keeps reading

ASSUME ServingAssumption ==
  /\ IsFiniteSet(Req)
  /\ NumSlots \in Nat \ {0}
  /\ DecodeCap \in Nat
  /\ ChannelDepth \in Nat \ {0}
  /\ Attentive \subseteq Req

Slot == 0 .. NumSlots - 1

VARIABLES
  inflight,   \* observed[slot].inflight
  reading,    \* the counts each request cloned
  registry,   \* the counts the router's registry holds
  task,       \* where the future or task of each request is
  slotOf,     \* the slot each request was routed to
  stream,     \* the RequestStream of each request
  chunk,      \* the chunk a task is suspended on sending
  chan,       \* the channel of each request
  client      \* the receiving side: "reading" or "gone"

vars ==
  <<inflight, reading, registry, task, slotOf, stream, chunk, chan, client>>

(***************************************************************************)
(* "idle": not submitted.  "refreshing": the counts are cloned.            *)
(* "refreshed": they are pushed into the registry.  "sending": routed, and *)
(* generate() awaits adapter.start().                                      *)
(* "polling": the task awaits next_at().  "delivering": the task awaits    *)
(* tx.send(chunk).  "done": the task has ended.  "refused": generate()     *)
(* returned an error, or was dropped with the client's connection.         *)
(***************************************************************************)
TaskState ==
  {"idle", "refreshing", "refreshed", "sending", "polling",
   "delivering", "done", "refused"}
Reading == [Slot -> Nat]
Chunk == {"token", "Done", "Error"}

Running(r) == task[r] \in {"polling", "delivering"}

TypeOK ==
  /\ inflight \in [Slot -> Nat]
  /\ reading \in [Req -> Reading]
  /\ registry \in Reading
  /\ task \in [Req -> TaskState]
  /\ slotOf \in [Req -> Slot]
  /\ stream \in [Req -> StreamState]
  /\ chunk \in [Req -> Chunk]
  /\ chan \in [Req -> Seq(Chunk)]
  /\ client \in [Req -> {"reading", "gone"}]

Init ==
  /\ inflight = [s \in Slot |-> 0]
  /\ registry = inflight
  /\ reading = [r \in Req |-> registry]
  /\ task = [r \in Req |-> "idle"]
  /\ slotOf = [r \in Req |-> 0]
  /\ stream = [r \in Req |-> NewStream]
  /\ chunk = [r \in Req |-> "token"]
  /\ chan = [r \in Req |-> <<>>]
  /\ client = [r \in Req |-> "reading"]

-------------------------------------------------------------------------------
(* WorkerState::decode_headroom, which never goes below zero.              *)
Headroom(s) ==
  LET n == registry[s] IN IF n >= DecodeCap THEN 0 ELSE DecodeCap - n

(* The decode pick of Router::route: the most headroom, then the lowest    *)
(* id.  KV utilisation is never reported here, and the workers are live    *)
(* or stale together, since each refresh stamps all of them alike.         *)
RouteTo(s) ==
  \A t \in Slot :
    \/ Headroom(s) > Headroom(t)
    \/ Headroom(s) = Headroom(t) /\ s <= t

(* refresh_load(): clone the counts.                                       *)
CloneLoad(r) ==
  /\ task[r] = "idle"
  /\ task' = [task EXCEPT ![r] = "refreshing"]
  /\ reading' = [reading EXCEPT ![r] = inflight]
  /\ UNCHANGED <<inflight, registry, slotOf, stream, chunk, chan, client>>

(* Mutant of PushLoad: the registry is written entry by entry, and only    *)
(* where the clone shows a load.                                           *)
PushLoadPartly(r) ==
  /\ task[r] = "refreshing"
  /\ task' = [task EXCEPT ![r] = "refreshed"]
  /\ registry' = [s \in Slot |-> IF reading[r][s] = 0 THEN registry[s]
                                                     ELSE reading[r][s]]
  /\ UNCHANGED <<inflight, reading, slotOf, stream, chunk, chan, client>>

(* refresh_load(): write the clone into the registry, both ids of every    *)
(* process under one lock.                                                 *)
PushLoad(r) ==
  /\ task[r] = "refreshing"
  /\ task' = [task EXCEPT ![r] = "refreshed"]
  /\ registry' = reading[r]
  /\ UNCHANGED <<inflight, reading, slotOf, stream, chunk, chan, client>>

(* generate(): route the request and start sending it.                     *)
Route(r) ==
  /\ task[r] = "refreshed"
  /\ \E s \in Slot :
       /\ RouteTo(s)
       /\ slotOf' = [slotOf EXCEPT ![r] = s]
  /\ task' = [task EXCEPT ![r] = "sending"]
  /\ UNCHANGED <<inflight, reading, registry, stream, chunk, chan, client>>

(* generate(): route() finds no live worker and the request is rejected.   *)
(* Right after its own refresh the load cannot be stale; it is when        *)
(* another request, suspended since it read the clock, pushed its older    *)
(* time over it.                                                           *)
RouteFails(r) ==
  /\ task[r] = "refreshed"
  /\ \E q \in Req \ {r} : task[q] \notin {"idle", "refreshing"}
  /\ task' = [task EXCEPT ![r] = "refused"]
  /\ UNCHANGED <<inflight, reading, registry, slotOf, stream, chunk, chan,
                 client>>

(* adapter.start() succeeded: count the request, spawn its task.           *)
SendSucceeds(r) ==
  /\ task[r] = "sending"
  /\ task' = [task EXCEPT ![r] = "polling"]
  /\ inflight' = [inflight EXCEPT ![slotOf[r]] = @ + 1]
  /\ UNCHANGED <<reading, registry, slotOf, stream, chunk, chan, client>>

(* adapter.start() failed, or the connection was dropped meanwhile.        *)
SendFails(r) ==
  /\ task[r] = "sending"
  /\ task' = [task EXCEPT ![r] = "refused"]
  /\ UNCHANGED <<inflight, reading, registry, slotOf, stream, chunk, chan,
                 client>>

(* Mutants of EndTask: the count is left alone; it is lowered twice; the   *)
(* stream is leaked.                                                       *)
EndTaskUncounted(r, s) ==
  /\ task' = [task EXCEPT ![r] = "done"]
  /\ stream' = [stream EXCEPT ![r] = DropStream(s)]
  /\ UNCHANGED inflight
EndTaskTwice(r, s) ==
  /\ task' = [task EXCEPT ![r] = "done"]
  /\ stream' = [stream EXCEPT ![r] = DropStream(s)]
  /\ inflight' = [inflight EXCEPT ![slotOf[r]] = @ - 2]
EndTaskLeaking(r, s) ==
  /\ task' = [task EXCEPT ![r] = "done"]
  /\ stream' = [stream EXCEPT ![r] = s]
  /\ inflight' = [inflight EXCEPT ![slotOf[r]] = IF @ = 0 THEN 0 ELSE @ - 1]

(* After the loop: give the slot back (a saturating subtraction) and drop  *)
(* the stream the task owns.                                               *)
EndTask(r, s) ==
  /\ task' = [task EXCEPT ![r] = "done"]
  /\ stream' = [stream EXCEPT ![r] = DropStream(s)]
  /\ inflight' = [inflight EXCEPT ![slotOf[r]] = IF @ = 0 THEN 0 ELSE @ - 1]

(* next_at() returns and the task turns to sending what it got.  Ok(None)  *)
(* ends the task.                                                          *)
ChunkFor(out) ==
  CASE out = "token" -> "token" [] out = "terminal" -> "Done"
    [] out = "error" -> "Error"

Receive(r, ev) ==
  LET s == NextAt(stream[r], ev)
      out == NextAtOutput(stream[r], ev)
  IN /\ task[r] = "polling"
     /\ IF out = "none"
          THEN EndTask(r, s) /\ UNCHANGED chunk
          ELSE /\ task' = [task EXCEPT ![r] = "delivering"]
               /\ stream' = [stream EXCEPT ![r] = s]
               /\ chunk' = [chunk EXCEPT ![r] = ChunkFor(out)]
               /\ UNCHANGED inflight
     /\ UNCHANGED <<reading, registry, slotOf, chan, client>>

(* Mutant of Resume: the loop goes on after a Done or an Error chunk.      *)
ResumeAlways(r) ==
  /\ task' = [task EXCEPT ![r] = "polling"]
  /\ UNCHANGED <<stream, inflight>>

(* The loop goes on after a token and breaks after a Done or an Error.     *)
Resume(r) ==
  IF chunk[r] = "token"
    THEN /\ task' = [task EXCEPT ![r] = "polling"]
         /\ UNCHANGED <<stream, inflight>>
    ELSE EndTask(r, stream[r])

(* Mutant of SendChunk: one pump serves every client, so a full channel    *)
(* holds up all of them.                                                   *)
SendChunkShared(r) ==
  /\ task[r] = "delivering"
  /\ client[r] = "reading"
  /\ \A q \in Req : Len(chan[q]) < ChannelDepth
  /\ chan' = [chan EXCEPT ![r] = Append(@, chunk[r])]
  /\ Resume(r)
  /\ UNCHANGED <<reading, registry, slotOf, chunk, client>>

(* tx.send() returns Ok: the channel had room.                             *)
SendChunk(r) ==
  /\ task[r] = "delivering"
  /\ client[r] = "reading"
  /\ Len(chan[r]) < ChannelDepth
  /\ chan' = [chan EXCEPT ![r] = Append(@, chunk[r])]
  /\ Resume(r)
  /\ UNCHANGED <<reading, registry, slotOf, chunk, client>>

(* Mutant of SendToNobody: the error of the send is ignored.               *)
SendIgnored(r) ==
  /\ task[r] = "delivering"
  /\ client[r] = "gone"
  /\ Resume(r)
  /\ UNCHANGED <<reading, registry, slotOf, chunk, chan, client>>

(* tx.send() returns Err: the client hung up, before or during the send.   *)
SendToNobody(r) ==
  /\ task[r] = "delivering"
  /\ client[r] = "gone"
  /\ EndTask(r, stream[r])
  /\ UNCHANGED <<reading, registry, slotOf, chunk, chan, client>>

Deliver(r) == SendChunk(r) \/ SendToNobody(r)

(* The client takes a chunk.                                               *)
Read(r) ==
  /\ client[r] = "reading"
  /\ chan[r] # <<>>
  /\ chan' = [chan EXCEPT ![r] = Tail(@)]
  /\ UNCHANGED <<inflight, reading, registry, task, slotOf, stream, chunk,
                 client>>

(* The client's connection closes and the receiver is dropped.             *)
HangUp(r) ==
  /\ client[r] = "reading"
  /\ task[r] \in {"polling", "delivering", "done"}
  /\ client' = [client EXCEPT ![r] = "gone"]
  /\ chan' = [chan EXCEPT ![r] = <<>>]
  /\ UNCHANGED <<inflight, reading, registry, task, slotOf, stream, chunk>>

Worker(r) == \E ev \in WorkerEvent : Receive(r, ev)

Next ==
  \E r \in Req :
    \/ CloneLoad(r) \/ PushLoad(r) \/ Route(r) \/ RouteFails(r)
    \/ SendSucceeds(r) \/ SendFails(r) \/ Worker(r) \/ Deliver(r) \/ Read(r) \/ HangUp(r)

Spec == Init /\ [][Next]_vars

(***************************************************************************)
(* tokio runs every task that can go on, a process answers or its          *)
(* connection breaks, and attentive clients read.  A worker that streams   *)
(* tokens for ever is not ruled out by weak fairness on Worker alone, so   *)
(* the end of a generation is fair on its own (strongly: a poll is only    *)
(* intermittently waiting).                                                *)
(***************************************************************************)
Fairness ==
  /\ \A r \in Req : WF_vars(Worker(r)) /\ WF_vars(Deliver(r))
  /\ \A r \in Attentive :
       /\ WF_vars(Read(r))
       /\ SF_vars(Receive(r, "finish") \/ Receive(r, "failure"))

FairSpec == Spec /\ Fairness

-------------------------------------------------------------------------------
(***************************************************************************)
(* Each slot's load is exactly the number of tasks running on it.  The     *)
(* subtraction saturates, so a doubled decrement would go unnoticed and a  *)
(* missed one would leave the slot looking busy for ever.                  *)
(***************************************************************************)
InflightCounts ==
  \A s \in Slot :
    inflight[s] = Cardinality({r \in Req : Running(r) /\ slotOf[r] = s})

(***************************************************************************)
(* "Dropping `stream` cancels exactly once" (serving.rs:262): a request    *)
(* that ends without the worker's own terminal event, because the client   *)
(* hung up or the stream failed, cancels its worker once; one that ends    *)
(* with it never does.                                                     *)
(***************************************************************************)
CancelsWorkerOnce ==
  \A r \in Req :
    /\ stream[r].cancels <= 1
    /\ task[r] = "done" =>
         stream[r].cancels = IF stream[r].finished THEN 0 ELSE 1

(***************************************************************************)
(* A Done or Error chunk is the last one in a client's channel and the     *)
(* task that sent it has ended.                                            *)
(***************************************************************************)
TerminalChunkLast ==
  \A r \in Req : \A i \in 1 .. Len(chan[r]) :
    chan[r][i] # "token" => i = Len(chan[r]) /\ task[r] = "done"

(***************************************************************************)
(* The registry is never a mixture: however refreshes interleave, a        *)
(* request is routed by a reading that was the true load of every slot at  *)
(* one moment, to a slot with the fewest requests in that reading (unless  *)
(* every slot was at its cap).                                             *)
(***************************************************************************)
RoutesByOneReading ==
  [][\A r \in Req : task[r] = "refreshed" /\ task'[r] = "sending" =>
       \E q \in Req :
         LET load == reading[q] IN
         /\ task[q] # "idle"
         /\ registry = load
         /\ (\E s \in Slot : load[s] < DecodeCap) =>
              \A s \in Slot : load[slotOf'[r]] <= load[s]]_vars

(***************************************************************************)
(* A client that hangs up frees its slot as soon as its worker sends       *)
(* anything more, whatever the other clients do.                           *)
(***************************************************************************)
HangUpReleases ==
  \A r \in Req : (client[r] = "gone" /\ Running(r)) ~> task[r] = "done"

(***************************************************************************)
(* A client that keeps reading gets the end of its stream even while the   *)
(* clients of other requests neither read nor hang up.                     *)
(***************************************************************************)
AttentiveClientsFinish ==
  \A r \in Attentive : Running(r) ~> task[r] = "done"

(***************************************************************************)
(* A task gives back its slot and its worker exactly once, and nothing     *)
(* follows the last chunk it sent.                                         *)
(***************************************************************************)
TasksAccounted ==
  /\ TypeOK
  /\ InflightCounts
  /\ CancelsWorkerOnce
  /\ TerminalChunkLast

(***************************************************************************)
(* Clients that hang up free what they held, and clients that read are     *)
(* served to the end, whatever the others do.                              *)
(***************************************************************************)
ClientsSettled == HangUpReleases /\ AttentiveClientsFinish
===============================================================================
