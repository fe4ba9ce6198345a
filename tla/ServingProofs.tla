---------------------------- MODULE ServingProofs ----------------------------
(***************************************************************************)
(* Proofs about the two modules of the serving side.  ServingDeployment,   *)
(* for any finite set of requests, any number of engine processes and any  *)
(* channel depth; and Router with its RadixIndex, for any prompts, workers *)
(* and loads, any ttl and any cap of the index.                            *)
(***************************************************************************)
EXTENDS ServingDeployment, Router, FiniteSetTheorems, SequenceTheorems, TLAPS

(* A stream nothing has happened to, and one that has given up its worker: *)
(* by the worker's own end, or by one cancellation.                        *)
Fresh(s) ==
  /\ s \in StreamState
  /\ ~ s.terminal /\ ~ s.cleaned_up /\ ~ s.finished /\ s.cancels = 0
Settled(s) ==
  /\ s \in StreamState
  /\ s.cleaned_up /\ s.cancels = IF s.finished THEN 0 ELSE 1

(***************************************************************************)
(* A task that polls has a stream nothing has happened to; a task that     *)
(* delivers has one that fits its chunk, so that only an ended stream ends *)
(* its task without a cancellation; a task that has ended has settled its  *)
(* stream.                                                                 *)
(***************************************************************************)
StreamInv ==
  \A r \in Req :
    /\ task[r] \notin {"delivering", "done"} => Fresh(stream[r])
    /\ task[r] = "delivering" =>
         IF chunk[r] = "token" THEN Fresh(stream[r]) ELSE Settled(stream[r])
    /\ task[r] = "done" => Settled(stream[r])

(***************************************************************************)
(* The registry holds one of the readings that were made, from the moment  *)
(* the first of them is pushed.                                            *)
(***************************************************************************)
RegistryIsReading ==
  (\E r \in Req : task[r] \notin {"idle", "refreshing"}) =>
    \E q \in Req : task[q] # "idle" /\ registry = reading[q]

IInv ==
  /\ TypeOK
  /\ InflightCounts
  /\ StreamInv
  /\ TerminalChunkLast
  /\ RegistryIsReading

-------------------------------------------------------------------------------
LEMMA NewIsFresh == Fresh(NewStream)
BY DEF Fresh, NewStream, StreamState

(* cleanup() cancels a fresh stream once, and a settled one not again.     *)
LEMMA CleanupSettles ==
  ASSUME NEW s, Fresh(s) \/ Settled(s)
  PROVE  Settled(Cleanup(s))
<1> DEFINE n == IF s.cleaned_up THEN s.cancels ELSE s.cancels + 1
<1> DEFINE t == [s EXCEPT !.cancels = n, !.cleaned_up = TRUE]
<1>1. s \in StreamState  BY DEF Fresh, Settled
<1>2. n \in Nat /\ (Fresh(s) => n = 1) /\ (Settled(s) => n = s.cancels)
  BY <1>1 DEF StreamState, Fresh, Settled
<1>3. Cleanup(s) = t  BY DEF Cleanup
<1> HIDE DEF n
<1>4. t \in StreamState  BY <1>1, <1>2 DEF StreamState
<1>5. t.cleaned_up /\ t.finished = s.finished /\ t.cancels = n
  BY <1>1 DEF StreamState
<1>6. QED  BY <1>2, <1>3, <1>4, <1>5 DEF Fresh, Settled

(* fail() settles a fresh stream by a cancellation, the worker's own end   *)
(* without one.                                                            *)
LEMMA FailSettles ==
  ASSUME NEW s, Fresh(s)
  PROVE  Settled(Fail(s))
<1> DEFINE c == Cleanup(s)
<1>1. Settled(c)  BY CleanupSettles
<1> HIDE DEF c
<1>2. [c EXCEPT !.terminal = TRUE] \in StreamState
  BY <1>1 DEF StreamState, Settled
<1>3. Settled([c EXCEPT !.terminal = TRUE])
  BY <1>1, <1>2 DEF StreamState, Settled
<1>4. QED  BY <1>3 DEF Fail, c

LEMMA FinishSettles ==
  ASSUME NEW s, Fresh(s)
  PROVE  Settled(Finish(s))
<1>1. Finish(s) \in StreamState  BY DEF Fresh, Finish, StreamState
<1>2. Finish(s).cleaned_up /\ Finish(s).finished /\ Finish(s).cancels = s.cancels
  BY DEF Fresh, Finish, StreamState
<1>3. QED  BY <1>1, <1>2 DEF Fresh, Settled

(* What next_at() makes of a fresh stream: it never yields nothing, and    *)
(* only a token leaves the stream as it was.                               *)
LEMMA NextAtFresh ==
  ASSUME NEW s, Fresh(s), NEW ev \in WorkerEvent
  PROVE  \/ NextAt(s, ev) = s /\ NextAtOutput(s, ev) = "token"
         \/ Settled(NextAt(s, ev)) /\ NextAtOutput(s, ev) \in {"terminal", "error"}
<1>1. ~ s.terminal  BY DEF Fresh
<1>2. CASE ev = "token"  BY <1>1, <1>2 DEF NextAt, NextAtOutput
<1>3. CASE ev = "finish"
  BY <1>1, <1>3, FinishSettles DEF NextAt, NextAtOutput
<1>4. CASE ev = "failure"
  BY <1>1, <1>4, FailSettles DEF NextAt, NextAtOutput
<1>5. QED  BY <1>2, <1>3, <1>4 DEF WorkerEvent

-------------------------------------------------------------------------------
(* The tasks that are counted for a slot.                                  *)
On(s) == {r \in Req : Running(r) /\ slotOf[r] = s}

(* A request that starts running is counted in its slot and nowhere else.  *)
LEMMA CountsOneMore ==
  ASSUME IInv, NEW r \in Req, ~ Running(r), UNCHANGED slotOf,
         task' = [task EXCEPT ![r] = "polling"],
         inflight' = [inflight EXCEPT ![slotOf[r]] = @ + 1]
  PROVE  InflightCounts'
<1> SUFFICES ASSUME NEW s \in Slot PROVE inflight'[s] = Cardinality(On(s)')
  BY DEF InflightCounts, On
<1> USE DEF On
<1>1. inflight[s] = Cardinality(On(s)) /\ inflight[s] \in Nat
  BY DEF IInv, TypeOK, InflightCounts
<1>2. IsFiniteSet(On(s))  BY ServingAssumption, FS_Subset
<1>3. CASE slotOf[r] = s
  <2>1. On(s)' = On(s) \cup {r} /\ r \notin On(s)
    BY <1>3 DEF Running, IInv, TypeOK
  <2>2. inflight'[s] = inflight[s] + 1  BY <1>3 DEF IInv, TypeOK
  <2>3. Cardinality(On(s) \cup {r}) = Cardinality(On(s)) + 1
    BY <1>2, <2>1, FS_AddElement
  <2>4. QED  BY <1>1, <2>1, <2>2, <2>3
<1>4. CASE slotOf[r] # s
  <2>1. On(s)' = On(s)  BY <1>4 DEF Running, IInv, TypeOK
  <2>2. inflight'[s] = inflight[s]  BY <1>4 DEF IInv, TypeOK
  <2>3. QED  BY <1>1, <2>1, <2>2
<1>5. QED  BY <1>3, <1>4

(* A running task that ends gives back exactly its own slot: the saturated *)
(* subtraction never saturates.                                            *)
LEMMA EndTaskCounts ==
  ASSUME IInv, NEW r \in Req, NEW st, Running(r), UNCHANGED slotOf, EndTask(r, st)
  PROVE  InflightCounts'
<1> SUFFICES ASSUME NEW s \in Slot PROVE inflight'[s] = Cardinality(On(s)')
  BY DEF InflightCounts, On
<1> USE DEF On
<1>1. inflight[s] = Cardinality(On(s)) /\ inflight[s] \in Nat
  BY DEF IInv, TypeOK, InflightCounts
<1>2. IsFiniteSet(On(s))  BY ServingAssumption, FS_Subset
<1>3. CASE slotOf[r] = s
  <2>1. On(s)' = On(s) \ {r} /\ r \in On(s)
    BY <1>3 DEF Running, EndTask, IInv, TypeOK
  <2>2. Cardinality(On(s) \ {r}) = Cardinality(On(s)) - 1
    BY <1>2, <2>1, FS_RemoveElement
  <2>3. On(s) # {}  BY <2>1
  <2>4. Cardinality(On(s)) # 0  BY <1>2, <2>3, FS_EmptySet
  <2>5. inflight'[s] = inflight[s] - 1
    BY <1>1, <1>3, <2>4 DEF EndTask, IInv, TypeOK
  <2>6. QED  BY <1>1, <2>1, <2>2, <2>5
<1>4. CASE slotOf[r] # s
  <2>1. On(s)' = On(s)  BY <1>4 DEF Running, EndTask, IInv, TypeOK
  <2>2. inflight'[s] = inflight[s]  BY <1>4 DEF EndTask, IInv, TypeOK
  <2>3. QED  BY <1>1, <2>1, <2>2
<1>5. QED  BY <1>3, <1>4

(* A step that neither starts nor ends a task, nor moves a running one.    *)
LEMMA SameCounts ==
  ASSUME IInv, UNCHANGED inflight,
         \A r \in Req : /\ Running(r)' <=> Running(r)
                        /\ Running(r) => slotOf'[r] = slotOf[r]
  PROVE  InflightCounts'
<1> SUFFICES ASSUME NEW s \in Slot PROVE inflight'[s] = Cardinality(On(s)')
  BY DEF InflightCounts, On
<1>1. On(s)' = On(s)  BY DEF On
<1>2. inflight[s] = Cardinality(On(s))  BY DEF IInv, InflightCounts, On
<1>3. QED  BY <1>1, <1>2
(* What the end of a task does to everything but the counts.               *)
LEMMA EndTaskInv ==
  ASSUME IInv, NEW r \in Req, NEW st, Fresh(st) \/ Settled(st), Running(r),
         EndTask(r, st), UNCHANGED <<reading, registry, slotOf, chunk>>
  PROVE  /\ inflight' \in [Slot -> Nat] /\ task' \in [Req -> TaskState]
         /\ stream' \in [Req -> StreamState]
         /\ InflightCounts' /\ StreamInv' /\ RegistryIsReading'
<1>1. Settled(DropStream(st))  BY CleanupSettles DEF DropStream
<1>2. task' \in [Req -> TaskState]
  BY DEF EndTask, IInv, TypeOK, TaskState
<1>3. inflight' \in [Slot -> Nat]
  <2> DEFINE n == IF inflight[slotOf[r]] = 0 THEN 0 ELSE inflight[slotOf[r]] - 1
  <2>1. slotOf[r] \in Slot  BY DEF IInv, TypeOK
  <2>2. inflight[slotOf[r]] \in Nat  BY <2>1 DEF IInv, TypeOK
  <2>3. n \in Nat  BY <2>2
  <2>4. inflight' = [inflight EXCEPT ![slotOf[r]] = n]  BY DEF EndTask
  <2> HIDE DEF n
  <2>5. QED  BY <2>3, <2>4 DEF IInv, TypeOK
<1>4. stream' = [stream EXCEPT ![r] = DropStream(st)]  BY DEF EndTask
<1>5. stream' \in [Req -> StreamState]
  BY <1>1, <1>4 DEF Settled, IInv, TypeOK
<1>6. InflightCounts'  BY EndTaskCounts
<1>7. ASSUME NEW q \in Req
      PROVE  /\ q # r => task'[q] = task[q] /\ stream'[q] = stream[q]
             /\ q = r => task'[q] = "done" /\ Settled(stream'[q])
  BY <1>1, <1>4 DEF EndTask, IInv, TypeOK
<1>8. StreamInv'
  <2> SUFFICES ASSUME NEW q \in Req
               PROVE /\ task'[q] \notin {"delivering", "done"} => Fresh(stream'[q])
                     /\ task'[q] = "delivering" =>
                          IF chunk'[q] = "token" THEN Fresh(stream'[q])
                                                 ELSE Settled(stream'[q])
                     /\ task'[q] = "done" => Settled(stream'[q])
    BY DEF StreamInv
  <2>1. CASE q = r  BY <1>7, <2>1
  <2>2. CASE q # r  BY <1>7, <2>2 DEF IInv, StreamInv
  <2>3. QED  BY <2>1, <2>2
<1>9. RegistryIsReading'
  BY <1>7 DEF Running, IInv, RegistryIsReading
<1>10. QED  BY <1>2, <1>3, <1>5, <1>6, <1>8, <1>9
-------------------------------------------------------------------------------
(* generate() up to the answer of the process: nothing is counted yet.     *)
LEMMA Submitting ==
  ASSUME IInv, NEW r \in Req,
         \/ CloneLoad(r) \/ PushLoad(r)
         \/ Route(r) \/ RouteFails(r) \/ SendFails(r)
  PROVE  IInv'
<1> USE DEF CloneLoad, PushLoad, Route, RouteFails, SendFails
<1>1. TypeOK'
  <2>1. task' \in [Req -> TaskState]  BY DEF IInv, TypeOK, TaskState
  <2>2. reading' \in [Req -> Reading]  BY DEF IInv, TypeOK, Reading
  <2>3. registry' \in Reading  BY DEF IInv, TypeOK
  <2>4. slotOf' \in [Req -> Slot]  BY DEF IInv, TypeOK
  <2>5. QED  BY <2>1, <2>2, <2>3, <2>4 DEF IInv, TypeOK
<1>2. \A q \in Req :
        /\ q # r => task'[q] = task[q] /\ slotOf'[q] = slotOf[q]
        /\ ~ Running(r) /\ ~ Running(r)'
        /\ task[r] \notin {"delivering", "done"}
        /\ task'[r] \notin {"delivering", "done"}
  BY DEF Running, IInv, TypeOK
<1>3. InflightCounts'  BY <1>2, SameCounts DEF Running
<1>4. StreamInv'  BY <1>2 DEF IInv, StreamInv
<1>5. TerminalChunkLast'  BY <1>2 DEF IInv, TerminalChunkLast
<1>6. RegistryIsReading'
  <2>1. CASE CloneLoad(r)
    <3>1. ASSUME NEW q \in Req, task[q] # "idle" PROVE reading'[q] = reading[q]
      BY <2>1, <3>1 DEF IInv, TypeOK
    <3>2. QED
      BY <1>2, <2>1, <3>1 DEF IInv, TypeOK, RegistryIsReading
  <2>2. CASE PushLoad(r)
    BY <2>2 DEF IInv, TypeOK, RegistryIsReading
  <2>3. CASE Route(r) \/ RouteFails(r) \/ SendFails(r)
    BY <1>2, <2>3 DEF IInv, TypeOK, RegistryIsReading
  <2>4. QED  BY <2>1, <2>2, <2>3
<1>7. QED  BY <1>1, <1>3, <1>4, <1>5, <1>6 DEF IInv

(* The request is counted where it was sent.                               *)
LEMMA Counted == ASSUME IInv, NEW r \in Req, SendSucceeds(r) PROVE IInv'
<1> USE DEF SendSucceeds
<1>1. TypeOK'
  <2>1. slotOf[r] \in Slot /\ inflight[slotOf[r]] + 1 \in Nat  BY DEF IInv, TypeOK
  <2>2. inflight' \in [Slot -> Nat]  BY <2>1 DEF IInv, TypeOK
  <2>3. QED  BY <2>2 DEF IInv, TypeOK, TaskState
<1>2. \A q \in Req : q # r => task'[q] = task[q]  BY DEF IInv, TypeOK
<1>3. task[r] = "sending" /\ task'[r] = "polling"  BY DEF IInv, TypeOK
<1>4. InflightCounts'  BY <1>3, CountsOneMore DEF Running
<1>5. StreamInv'  BY <1>2, <1>3 DEF IInv, StreamInv
<1>6. TerminalChunkLast'  BY <1>2, <1>3 DEF IInv, TerminalChunkLast
<1>7. RegistryIsReading'  BY <1>2, <1>3 DEF IInv, RegistryIsReading
<1>8. QED  BY <1>1, <1>4, <1>5, <1>6, <1>7 DEF IInv

(* The worker's event becomes the chunk to deliver.                        *)
LEMMA Received ==
  ASSUME IInv, NEW r \in Req, NEW ev \in WorkerEvent, Receive(r, ev)
  PROVE  IInv'
<1> DEFINE s == NextAt(stream[r], ev)
           out == NextAtOutput(stream[r], ev)
<1>1. task[r] = "polling" /\ Fresh(stream[r])  BY DEF Receive, IInv, StreamInv
<1>2. \/ s = stream[r] /\ out = "token"
      \/ Settled(s) /\ out \in {"terminal", "error"}
  BY <1>1, NextAtFresh
<1>3. /\ task' = [task EXCEPT ![r] = "delivering"]
      /\ stream' = [stream EXCEPT ![r] = s]
      /\ chunk' = [chunk EXCEPT ![r] = ChunkFor(out)]
      /\ UNCHANGED <<inflight, reading, registry, slotOf, chan, client>>
  BY <1>2 DEF Receive
<1>4. \/ s = stream[r] /\ ChunkFor(out) = "token"
      \/ Settled(s) /\ ChunkFor(out) \in {"Done", "Error"}
  BY <1>2 DEF ChunkFor
<1> HIDE DEF s, out
<1>5. s \in StreamState /\ ChunkFor(out) \in Chunk
  BY <1>1, <1>4 DEF Fresh, Settled, Chunk
<1>6. TypeOK'  BY <1>3, <1>5 DEF IInv, TypeOK, TaskState
<1>7. /\ task'[r] = "delivering" /\ stream'[r] = s /\ chunk'[r] = ChunkFor(out)
      /\ \A q \in Req \ {r} : /\ task'[q] = task[q] /\ stream'[q] = stream[q]
                              /\ chunk'[q] = chunk[q]
  BY <1>3 DEF IInv, TypeOK
<1>8. InflightCounts'  BY <1>1, <1>3, <1>7, SameCounts DEF Running
<1>9. StreamInv'  BY <1>1, <1>4, <1>7 DEF IInv, StreamInv
<1>10. TerminalChunkLast'  BY <1>1, <1>3, <1>7 DEF IInv, TerminalChunkLast
<1>11. RegistryIsReading'  BY <1>1, <1>3, <1>7 DEF IInv, RegistryIsReading
<1>12. QED  BY <1>6, <1>8, <1>9, <1>10, <1>11 DEF IInv

(* A chunk reaches the channel; after the last one the task ends.          *)
LEMMA Delivered == ASSUME IInv, NEW r \in Req, SendChunk(r) PROVE IInv'
<1>1. /\ task[r] = "delivering" /\ Running(r)
      /\ chan' = [chan EXCEPT ![r] = Append(@, chunk[r])]
      /\ UNCHANGED <<reading, registry, slotOf, chunk, client>>
  BY DEF SendChunk, Running
<1>2. chan' \in [Req -> Seq(Chunk)]
  <2>1. Append(chan[r], chunk[r]) \in Seq(Chunk)  BY DEF IInv, TypeOK
  <2>2. QED  BY <1>1, <2>1 DEF IInv, TypeOK
<1>3. /\ \A q \in Req \ {r} : chan'[q] = chan[q]
      /\ Len(chan'[r]) = Len(chan[r]) + 1
      /\ \A i \in 1 .. Len(chan[r]) : chan'[r][i] = chan[r][i] /\ chan[r][i] = "token"
      /\ chan'[r][Len(chan[r]) + 1] = chunk[r]
  BY <1>1 DEF IInv, TypeOK, TerminalChunkLast
<1>4. Len(chan[r]) \in Nat  BY DEF IInv, TypeOK
<1>5. CASE chunk[r] = "token"
  <2>1. task' = [task EXCEPT ![r] = "polling"] /\ UNCHANGED <<stream, inflight>>
    BY <1>5 DEF SendChunk, Resume
  <2>2. task'[r] = "polling" /\ \A q \in Req \ {r} : task'[q] = task[q]
    BY <2>1 DEF IInv, TypeOK
  <2>3. TypeOK'  BY <1>1, <1>2, <2>1 DEF IInv, TypeOK, TaskState
  <2>4. InflightCounts'  BY <1>1, <2>1, <2>2, SameCounts DEF Running
  <2>5. StreamInv'  BY <1>1, <1>5, <2>1, <2>2 DEF IInv, StreamInv
  <2>6. TerminalChunkLast'
    BY <1>3, <1>4, <1>5, <2>2 DEF IInv, TerminalChunkLast
  <2>7. RegistryIsReading'  BY <1>1, <2>2 DEF IInv, RegistryIsReading
  <2>8. QED  BY <2>3, <2>4, <2>5, <2>6, <2>7 DEF IInv
<1>6. CASE chunk[r] # "token"
  <2>1. EndTask(r, stream[r]) /\ Settled(stream[r])
    BY <1>1, <1>6 DEF SendChunk, Resume, IInv, StreamInv
  <2>2. /\ inflight' \in [Slot -> Nat] /\ task' \in [Req -> TaskState]
        /\ stream' \in [Req -> StreamState]
        /\ InflightCounts' /\ StreamInv' /\ RegistryIsReading'
    BY <1>1, <2>1, EndTaskInv
  <2>3. task'[r] = "done" /\ \A q \in Req \ {r} : task'[q] = task[q]
    BY <2>1 DEF EndTask, IInv, TypeOK
  <2>4. TerminalChunkLast'
    BY <1>3, <1>4, <1>6, <2>3 DEF IInv, TerminalChunkLast
  <2>5. TypeOK'  BY <1>1, <1>2, <2>2 DEF IInv, TypeOK
  <2>6. QED  BY <2>2, <2>4, <2>5 DEF IInv
<1>7. QED  BY <1>5, <1>6

(* The client is gone: the task ends with what it was about to deliver.    *)
LEMMA Undelivered == ASSUME IInv, NEW r \in Req, SendToNobody(r) PROVE IInv'
<1>1. /\ Running(r) /\ EndTask(r, stream[r])
      /\ UNCHANGED <<reading, registry, slotOf, chunk, chan, client>>
      /\ Fresh(stream[r]) \/ Settled(stream[r])
  BY DEF SendToNobody, Running, IInv, StreamInv
<1>2. /\ inflight' \in [Slot -> Nat] /\ task' \in [Req -> TaskState]
      /\ stream' \in [Req -> StreamState]
      /\ InflightCounts' /\ StreamInv' /\ RegistryIsReading'
  BY <1>1, EndTaskInv
<1>3. task'[r] = "done" /\ \A q \in Req \ {r} : task'[q] = task[q]
  BY <1>1 DEF EndTask, IInv, TypeOK
<1>4. TerminalChunkLast'  BY <1>1, <1>3 DEF IInv, TerminalChunkLast
<1>5. TypeOK'  BY <1>1, <1>2 DEF IInv, TypeOK
<1>6. QED  BY <1>2, <1>4, <1>5 DEF IInv

(* The client's own steps touch the channel only.                          *)
LEMMA ClientSteps == ASSUME IInv, NEW r \in Req, Read(r) \/ HangUp(r) PROVE IInv'
<1>1. UNCHANGED <<inflight, reading, registry, task, slotOf, stream, chunk>>
  BY DEF Read, HangUp
<1>2. /\ chan' \in [Req -> Seq(Chunk)] /\ client' \in [Req -> {"reading", "gone"}]
      /\ \A q \in Req \ {r} : chan'[q] = chan[q]
  <2>1. \A q \in Req \ {r} : chan'[q] = chan[q]
    BY DEF Read, HangUp, IInv, TypeOK
  <2>2. client' \in [Req -> {"reading", "gone"}]
    BY DEF Read, HangUp, IInv, TypeOK
  <2>3. <<>> \in Seq(Chunk) /\ (chan[r] # <<>> => Tail(chan[r]) \in Seq(Chunk))
    BY DEF IInv, TypeOK
  <2>4. chan' \in [Req -> Seq(Chunk)]
    BY <2>3 DEF Read, HangUp, IInv, TypeOK
  <2>5. QED  BY <2>1, <2>2, <2>4
<1>3. \/ chan'[r] = <<>>
      \/ chan[r] # <<>> /\ chan'[r] = Tail(chan[r])
  BY DEF Read, HangUp, IInv, TypeOK
<1>4. chan[r] \in Seq(Chunk)  BY DEF IInv, TypeOK
<1>5. TerminalChunkLast'
  <2> SUFFICES ASSUME NEW q \in Req, NEW i \in 1 .. Len(chan'[q]), chan'[q][i] # "token"
               PROVE  i = Len(chan'[q]) /\ task'[q] = "done"
    BY DEF TerminalChunkLast
  <2>1. CASE q # r  BY <1>1, <1>2, <2>1 DEF IInv, TerminalChunkLast
  <2>2. CASE q = r
    <3>1. chan[r] # <<>> /\ chan'[r] = Tail(chan[r])  BY <1>3, <2>2
    <3>2. /\ Len(chan'[r]) = Len(chan[r]) - 1
          /\ i + 1 \in 1 .. Len(chan[r]) /\ chan'[r][i] = chan[r][i + 1]
      BY <1>4, <2>2, <3>1
    <3>3. QED  BY <1>1, <1>4, <2>2, <3>2 DEF IInv, TerminalChunkLast
  <2>3. QED  BY <2>1, <2>2
<1>6. TypeOK'  BY <1>1, <1>2 DEF IInv, TypeOK
<1>7. QED
  BY <1>1, <1>5, <1>6
  DEF IInv, InflightCounts, Running, StreamInv, RegistryIsReading

-------------------------------------------------------------------------------
(***************************************************************************)
(* The invariant: counts, streams, channels and registry agree with the    *)
(* tasks (serving.rs:165-303).                                             *)
(***************************************************************************)
THEOREM InductiveInvariant == Spec => []IInv
<1>1. Init => IInv
  <2> SUFFICES ASSUME Init PROVE IInv  OBVIOUS
  <2> USE DEF Init
  <2>1. TypeOK
    BY NewIsFresh, ServingAssumption
    DEF TypeOK, Reading, Slot, TaskState, Chunk, Fresh
  <2>2. \A s \in Slot : {r \in Req : Running(r) /\ slotOf[r] = s} = {}
    BY DEF Running
  <2>3. InflightCounts  BY <2>2, FS_EmptySet DEF InflightCounts
  <2>4. StreamInv  BY NewIsFresh DEF StreamInv
  <2>5. QED
    BY <2>1, <2>3, <2>4 DEF IInv, TerminalChunkLast, RegistryIsReading
<1>2. IInv /\ [Next]_vars => IInv'
  <2> SUFFICES ASSUME IInv, [Next]_vars PROVE IInv'  OBVIOUS
  <2>1. CASE UNCHANGED vars
    BY <2>1
    DEF vars, IInv, TypeOK, InflightCounts, Running, StreamInv,
        TerminalChunkLast, RegistryIsReading
  <2>2. ASSUME NEW r \in Req,
               \/ CloneLoad(r) \/ PushLoad(r)
               \/ Route(r) \/ RouteFails(r) \/ SendFails(r)
        PROVE  IInv'
    BY <2>2, Submitting
  <2>3. ASSUME NEW r \in Req, SendSucceeds(r) PROVE IInv'  BY <2>3, Counted
  <2>4. ASSUME NEW r \in Req, Worker(r) PROVE IInv'
    BY <2>4, Received DEF Worker
  <2>5. ASSUME NEW r \in Req, Deliver(r) PROVE IInv'
    BY <2>5, Delivered, Undelivered DEF Deliver
  <2>6. ASSUME NEW r \in Req, Read(r) \/ HangUp(r) PROVE IInv'
    BY <2>6, ClientSteps
  <2>7. QED  BY <2>1, <2>2, <2>3, <2>4, <2>5, <2>6 DEF Next
<1>3. QED  BY <1>1, <1>2, PTL DEF Spec

(***************************************************************************)
(* A task gives back its slot and its worker exactly once, and nothing     *)
(* follows the last chunk it sent, whatever clients and processes do.      *)
(***************************************************************************)
THEOREM TasksAccountedTheorem == Spec => []TasksAccounted
<1>1. IInv => TasksAccounted
  <2>1. IInv => CancelsWorkerOnce
    BY DEF IInv, TypeOK, TaskState, StreamInv, Fresh, Settled, CancelsWorkerOnce
  <2>2. QED  BY <2>1 DEF IInv, TasksAccounted
<1>2. QED  BY <1>1, InductiveInvariant, PTL

(***************************************************************************)
(* However refreshes interleave, a request is routed by one reading of all *)
(* slots, to a slot with the fewest requests in it (serving.rs:165-225).   *)
(***************************************************************************)
THEOREM RoutesByOneReadingTheorem == Spec => RoutesByOneReading
<1> DEFINE Fair ==
      \A r \in Req : task[r] = "refreshed" /\ task'[r] = "sending" =>
        \E q \in Req :
          /\ task[q] # "idle"
          /\ registry = reading[q]
          /\ (\E s \in Slot : reading[q][s] < DecodeCap) =>
               \A s \in Slot : reading[q][slotOf'[r]] <= reading[q][s]
<1>1. IInv /\ [Next]_vars => [Fair]_vars
  <2> SUFFICES ASSUME IInv, Next, NEW r \in Req,
                      task[r] = "refreshed", task'[r] = "sending"
               PROVE  \E q \in Req :
                        /\ task[q] # "idle"
                        /\ registry = reading[q]
                        /\ (\E s \in Slot : reading[q][s] < DecodeCap) =>
                             \A s \in Slot : reading[q][slotOf'[r]] <= reading[q][s]
    BY DEF Fair
  <2>1. PICK q \in Req : task[q] # "idle" /\ registry = reading[q]
    BY DEF IInv, RegistryIsReading
  <2>2. Route(r)
    BY DEF Next, IInv, TypeOK, CloneLoad, PushLoad, Route, RouteFails,
           SendSucceeds, SendFails, Worker, Receive, EndTask, Deliver, SendChunk,
           SendToNobody, Resume, Read, HangUp
  <2>3. slotOf'[r] \in Slot /\ RouteTo(slotOf'[r])
    BY <2>2 DEF Route, IInv, TypeOK
  <2>4. \A s \in Slot : registry[s] \in Nat  BY DEF IInv, TypeOK, Reading
  <2>5. ASSUME NEW s \in Slot, registry[s] < DecodeCap, NEW t \in Slot
        PROVE  registry[slotOf'[r]] <= registry[t]
    BY <2>3, <2>4, <2>5, ServingAssumption DEF RouteTo, Headroom
  <2>6. QED  BY <2>1, <2>5
<1>2. QED
  BY <1>1, InductiveInvariant, PTL DEF Spec, RoutesByOneReading

-------------------------------------------------------------------------------
(***************************************************************************)
(* The router.  First numbers and texts, then what the operators of        *)
(* RadixIndex do to a tree, what match_worker() and route() find, and last *)
(* the inductive invariant, one lemma per action, and the theorems.        *)
(***************************************************************************)
(* Every set of naturals that is not empty has a least element; hence      *)
(* induction up to a bound.                                                *)
LEMMA LeastElement ==
  ASSUME NEW T \in SUBSET Nat, T # {}
  PROVE  \E n \in T : \A m \in T : n <= m
<1> DEFINE R == OpToRel(<, Nat)
<1>1. IsWellFoundedOn(R, Nat)  BY NatLessThanWellFounded
<1>2. \A x, y \in Nat : x < y => <<x, y>> \in R  BY DEF OpToRel
<1> HIDE DEF R
<1>3. PICK x \in T : \A y \in T : ~ (<<y, x>> \in R)  BY <1>1, WFMin
<1>4. ASSUME NEW y \in T PROVE x <= y
  <2>1. x \in Nat /\ y \in Nat  OBVIOUS
  <2>2. ~ (y < x)  BY <1>2, <1>3, <2>1
  <2> QED  BY <2>1, <2>2
<1> QED  BY <1>4

LEMMA GreatestElement ==
  ASSUME NEW N \in Nat, NEW T \in SUBSET (0 .. N), T # {}
  PROVE  \E n \in T : \A m \in T : m <= n
<1> DEFINE U == {N - m : m \in T}
<1>1. U \in SUBSET Nat /\ U # {}
  <2>1. ASSUME NEW m \in T PROVE N - m \in Nat
    <3>1. m \in 0 .. N  OBVIOUS
    <3> QED  BY <3>1
  <2> QED  BY <2>1
<1>2. PICK u \in U : \A v \in U : u <= v  BY <1>1, LeastElement
<1>3. PICK n \in T : u = N - n  OBVIOUS
<1>4. ASSUME NEW m \in T PROVE m <= n
  <2>1. m \in 0 .. N /\ n \in 0 .. N /\ N - n <= N - m  BY <1>2, <1>3
  <2> QED  BY <2>1
<1> QED  BY <1>4

LEMMA BoundedInduction ==
  ASSUME NEW N \in Nat, NEW T, 0 \in T, \A k \in 1 .. N : k - 1 \in T => k \in T
  PROVE  0 .. N \subseteq T
<1> SUFFICES ASSUME (0 .. N) \ T # {} PROVE FALSE  OBVIOUS
<1>1. PICK n \in (0 .. N) \ T : \A m \in (0 .. N) \ T : n <= m
  BY LeastElement, (0 .. N) \ T \in SUBSET Nat
<1>2. n \in 1 .. N /\ n - 1 \in 0 .. N  OBVIOUS
<1>3. n - 1 \in T  BY <1>1, <1>2
<1> QED  BY <1>3, <1>2

-------------------------------------------------------------------------------
(* Prompts and the paths of the index are texts.  A prefix of a text, and  *)
(* the longest common prefix of two: all the proofs need of sequences.     *)
Text == Seq(Nat)

LEMMA PrefixAgrees ==
  ASSUME NEW s \in Text, NEW t \in Text
  PROVE  IsPrefix(s, t) <=> Len(s) <= Len(t) /\ \A i \in 1 .. Len(s) : s[i] = t[i]
<1>1. Len(s) \in Nat /\ Len(t) \in Nat  BY LenProperties DEF Text
<1>2. SubSeq(s, 1, Len(s)) = s  BY SubSeqFull DEF Text
<1>3. CASE Len(s) <= Len(t)
  <2> DEFINE u == SubSeq(t, 1, Len(s))
  <2>1. u \in Text /\ Len(u) = Len(s) /\ \A i \in 1 .. Len(s) : u[i] = t[i]
    BY <1>1, <1>3, SubSeqProperties DEF Text
  <2> HIDE DEF u
  <2>2. s = u <=> \A i \in 1 .. Len(s) : s[i] = u[i]
    BY <2>1, SeqEqual DEF Text
  <2> QED  BY <1>2, <1>3, <2>1, <2>2 DEF IsPrefix, u
<1>4. CASE ~ (Len(s) <= Len(t))  BY <1>4 DEF IsPrefix
<1> QED  BY <1>3, <1>4

LEMMA PrefixOrder ==
  /\ \A s \in Text : IsPrefix(s, s) /\ IsPrefix(<<>>, s) /\ Len(s) \in Nat
  /\ \A s, t \in Text : IsPrefix(s, t) =>
       Len(s) <= Len(t) /\ (Len(t) <= Len(s) => s = t)
  /\ \A s, t, u \in Text : IsPrefix(s, t) /\ IsPrefix(t, u) => IsPrefix(s, u)
  /\ \A s, t, u \in Text :
       IsPrefix(s, u) /\ IsPrefix(t, u) /\ Len(s) <= Len(t) => IsPrefix(s, t)
<1>1. ASSUME NEW s \in Text PROVE Len(s) \in Nat  BY LenProperties DEF Text
<1>2. ASSUME NEW s \in Text PROVE IsPrefix(s, s) /\ IsPrefix(<<>>, s)
  <2>1. <<>> \in Text /\ Len(<<>>) = 0  BY EmptySeq DEF Text
  <2> QED  BY <1>1, <2>1, PrefixAgrees
<1>3. ASSUME NEW s \in Text, NEW t \in Text, IsPrefix(s, t)
      PROVE  Len(s) <= Len(t) /\ (Len(t) <= Len(s) => s = t)
  <2>1. Len(s) <= Len(t) /\ \A i \in 1 .. Len(s) : s[i] = t[i]  BY <1>3, PrefixAgrees
  <2>2. Len(t) <= Len(s) => Len(s) = Len(t)  BY <1>1, <2>1
  <2>3. Len(s) = Len(t) => s = t  BY <2>1, SeqEqual DEF Text
  <2> QED  BY <2>1, <2>2, <2>3
<1>4. ASSUME NEW s \in Text, NEW t \in Text, NEW u \in Text, IsPrefix(s, t), IsPrefix(t, u)
      PROVE  IsPrefix(s, u)
  <2>1. Len(s) <= Len(t) /\ \A i \in 1 .. Len(s) : s[i] = t[i]  BY <1>4, PrefixAgrees
  <2>2. Len(t) <= Len(u) /\ \A i \in 1 .. Len(t) : t[i] = u[i]  BY <1>4, PrefixAgrees
  <2>3. Len(s) <= Len(u) /\ \A i \in 1 .. Len(s) : s[i] = u[i]
    BY <1>1, <2>1, <2>2
  <2> QED  BY <2>3, PrefixAgrees
<1>5. ASSUME NEW s \in Text, NEW t \in Text, NEW u \in Text, IsPrefix(s, u), IsPrefix(t, u),
             Len(s) <= Len(t)
      PROVE  IsPrefix(s, t)
  <2>1. \A i \in 1 .. Len(s) : s[i] = u[i]  BY <1>5, PrefixAgrees
  <2>2. \A i \in 1 .. Len(t) : t[i] = u[i]  BY <1>5, PrefixAgrees
  <2>3. \A i \in 1 .. Len(s) : s[i] = t[i]  BY <1>1, <1>5, <2>1, <2>2
  <2> QED  BY <1>5, <2>3, PrefixAgrees
<1> QED  BY <1>1, <1>2, <1>3, <1>4, <1>5

LEMMA CommonFacts ==
  ASSUME NEW s \in Text, NEW t \in Text
  PROVE  /\ Common(s, t) \in Text
         /\ IsPrefix(Common(s, t), s) /\ IsPrefix(Common(s, t), t)
         /\ \A u \in Text : IsPrefix(u, s) /\ IsPrefix(u, t) => IsPrefix(u, Common(s, t))
<1>1. Len(s) \in Nat /\ Len(t) \in Nat  BY LenProperties DEF Text
<1> DEFINE Agree(n) == n <= Len(t) /\ \A i \in 1 .. n : s[i] = t[i]
           Stop(n) == /\ n <= Len(t)
                      /\ \A i \in 1 .. n : s[i] = t[i]
                      /\ n < Len(s) /\ n < Len(t) => s[n + 1] # t[n + 1]
           T == {n \in 0 .. Len(s) : Agree(n)}
<1>2. \E n \in 0 .. Len(s) : Stop(n)
  <2>1. T \in SUBSET (0 .. Len(s)) /\ T # {}
    <3>1. 0 \in T  BY <1>1
    <3> QED  BY <3>1
  <2>2. PICK n \in T : \A m \in T : m <= n  BY <1>1, <2>1, GreatestElement
  <2>3. ASSUME n < Len(s), n < Len(t), s[n + 1] = t[n + 1] PROVE FALSE
    <3>1. n + 1 \in 0 .. Len(s) /\ n + 1 <= Len(t)  BY <1>1, <2>3
    <3>2. \A i \in 1 .. n + 1 : s[i] = t[i]  BY <1>1, <2>3
    <3>3. n + 1 \in T  BY <3>1, <3>2
    <3> QED  BY <1>1, <2>2, <3>3
  <2> QED  BY <2>2, <2>3
<1>3. PICK n \in 0 .. Len(s) : Stop(n) /\ Common(s, t) = SubSeq(s, 1, n)
  BY <1>2 DEF Common
<1> DEFINE c == Common(s, t)
<1>4. c \in Text /\ Len(c) = n /\ \A i \in 1 .. n : c[i] = s[i]
  BY <1>1, <1>3, SubSeqProperties DEF Text
<1> HIDE DEF c
<1>5. IsPrefix(c, s) /\ IsPrefix(c, t)
  BY <1>1, <1>3, <1>4, PrefixAgrees
<1>6. ASSUME NEW u \in Text, IsPrefix(u, s), IsPrefix(u, t) PROVE IsPrefix(u, c)
  <2>1. Len(u) <= Len(s) /\ \A i \in 1 .. Len(u) : u[i] = s[i]  BY <1>6, PrefixAgrees
  <2>2. Len(u) <= Len(t) /\ \A i \in 1 .. Len(u) : u[i] = t[i]  BY <1>6, PrefixAgrees
  <2>3. Len(u) \in Nat  BY LenProperties DEF Text
  <2>4. Len(u) <= n
    <3> SUFFICES ASSUME n < Len(u) PROVE FALSE  BY <2>3
    <3>1. n + 1 \in 1 .. Len(u) /\ n < Len(s) /\ n < Len(t)  BY <1>1, <2>1, <2>2, <2>3
    <3> QED  BY <1>3, <2>1, <2>2, <3>1
  <2> QED  BY <1>4, <2>1, <2>3, <2>4, PrefixAgrees
<1> QED  BY <1>4, <1>5, <1>6 DEF c

LEMMA CommonIs ==
  ASSUME NEW s \in Text, NEW t \in Text, NEW c \in Text,
         IsPrefix(c, s), IsPrefix(c, t), Len(Common(s, t)) <= Len(c)
  PROVE  Common(s, t) = c
<1>1. IsPrefix(c, Common(s, t)) /\ Common(s, t) \in Text  BY CommonFacts
<1> QED  BY <1>1, PrefixOrder

LEMMA CommonSym ==
  ASSUME NEW s \in Text, NEW t \in Text
  PROVE  Common(s, t) = Common(t, s)
<1>1. PICK c \in Text, d \in Text : c = Common(s, t) /\ d = Common(t, s)  BY CommonFacts
<1>2. IsPrefix(c, d) /\ IsPrefix(d, c)  BY <1>1, CommonFacts
<1> QED  BY <1>1, <1>2, PrefixOrder

LEMMA CommonWhole ==
  ASSUME NEW s \in Text, NEW t \in Text, IsPrefix(s, t)
  PROVE  Common(s, t) = s
<1>1. IsPrefix(Common(s, t), s) /\ Common(s, t) \in Text  BY CommonFacts
<1>2. Len(Common(s, t)) <= Len(s)  BY <1>1, PrefixOrder
<1> QED  BY <1>2, CommonIs, PrefixOrder

-------------------------------------------------------------------------------
(* The paths of a radix tree.                                              *)
Tree(D) ==
  /\ D \subseteq Text /\ Root \in D /\ IsFiniteSet(D)
  /\ \A p, q \in D : Common(p, q) \in D

(* What a walk along t finds: the last node on the way, d, and the child   *)
(* whose edge t leaves, in B.                                              *)
Under(D, t, d) == {q \in D : Len(Common(q, t)) > Len(d)}

Walk(D, t, d, B) ==
  /\ d \in D /\ IsPrefix(d, t)
  /\ \A q \in D : IsPrefix(q, t) => Len(q) <= Len(d)
  /\ B \subseteq Under(D, t, d)
  /\ \A q \in B : \A b \in Under(D, t, d) :
       IsPrefix(q, b) /\ Common(b, t) = Common(q, t)
  /\ Under(D, t, d) # {} => B # {}
  /\ \A q \in B : \A a \in D : IsPrefix(a, q) => a = q \/ IsPrefix(a, t)

LEMMA DeepestFacts ==
  ASSUME NEW ix, Tree(DOMAIN ix), NEW t \in Text
  PROVE  LET d == Deepest(ix, t) IN
         /\ d \in DOMAIN ix /\ IsPrefix(d, t)
         /\ \A q \in DOMAIN ix : IsPrefix(q, t) => Len(q) <= Len(d)
<1> DEFINE A == Along(ix, t)
           T == {Len(q) : q \in A}
<1>1. \A q \in A : q \in Text /\ IsPrefix(q, t) /\ Len(q) \in Nat /\ Len(q) <= Len(t)
  BY PrefixOrder DEF Along, Tree
<1>2. Len(t) \in Nat  BY PrefixOrder
<1>3. T \in SUBSET (0 .. Len(t)) /\ T # {}
  <2>1. Root \in A  BY PrefixOrder DEF Along, Tree, Root
  <2>2. \A q \in A : Len(q) \in 0 .. Len(t)  BY <1>1, <1>2
  <2> QED  BY <2>1, <2>2
<1>4. PICK n \in T : \A m \in T : m <= n  BY <1>2, <1>3, GreatestElement
<1>5. \E p \in A : \A q \in A : Len(q) <= Len(p)  BY <1>4
<1>6. Deepest(ix, t) \in A /\ \A q \in A : Len(q) <= Len(Deepest(ix, t))
  BY <1>5 DEF Deepest
<1> QED  BY <1>6 DEF Along

LEMMA WalkFacts ==
  ASSUME NEW ix, Tree(DOMAIN ix), NEW t \in Text
  PROVE  Walk(DOMAIN ix, t, Deepest(ix, t), Blocking(ix, t))
<1>1. PICK D, B : D = DOMAIN ix /\ B = Blocking(ix, t)  OBVIOUS
<1>2. PICK d \in D : /\ d = Deepest(ix, t) /\ IsPrefix(d, t)
                     /\ \A q \in D : IsPrefix(q, t) => Len(q) <= Len(d)
  BY <1>1, DeepestFacts
<1>3. D \subseteq Text /\ \A p, q \in D : Common(p, q) \in D  BY <1>1 DEF Tree
<1> DEFINE U == Under(D, t, d)
<1>4. B = {q \in U : \A r \in U : ~ IsStrictPrefix(r, q)}
  BY <1>1, <1>2 DEF Blocking, Under
<1>5. U \subseteq D /\ \A q \in U : q \in Text /\ Len(Common(q, t)) > Len(d)
  BY <1>3 DEF Under
<1> HIDE DEF U
\* Two paths that leave the way behind d part behind d too.
<1>6. ASSUME NEW a \in U, NEW b \in U PROVE Common(a, b) \in U
  <2>1. PICK x \in Text, y \in Text, c \in D :
          x = Common(a, t) /\ y = Common(b, t) /\ c = Common(a, b) /\ c \in Text
    BY <1>3, <1>5, CommonFacts
  <2>2. /\ IsPrefix(x, a) /\ IsPrefix(x, t) /\ IsPrefix(y, b) /\ IsPrefix(y, t)
        /\ Len(x) > Len(d) /\ Len(y) > Len(d)
    BY <1>5, <2>1, CommonFacts
  <2>3. a \in Text /\ b \in Text  BY <1>5
  <2>4. PICK z \in Text : IsPrefix(z, a) /\ IsPrefix(z, b) /\ IsPrefix(z, t) /\ Len(z) > Len(d)
    <3>1. CASE Len(x) <= Len(y)
      <4>1. IsPrefix(x, y)  BY <2>2, <3>1, PrefixOrder
      <4>2. IsPrefix(x, b)  BY <2>2, <2>3, <4>1, PrefixOrder
      <4> QED  BY <2>2, <4>2
    <3>2. CASE ~ (Len(x) <= Len(y))
      <4>1. Len(y) <= Len(x)  BY <3>2, PrefixOrder
      <4>2. IsPrefix(y, x)  BY <2>2, <4>1, PrefixOrder
      <4>3. IsPrefix(y, a)  BY <2>2, <2>3, <4>2, PrefixOrder
      <4> QED  BY <2>2, <4>3
    <3> QED  BY <3>1, <3>2
  <2>5. IsPrefix(z, c)  BY <2>1, <2>3, <2>4, CommonFacts
  <2>6. IsPrefix(z, Common(c, t)) /\ Common(c, t) \in Text  BY <2>1, <2>4, <2>5, CommonFacts
  <2>7. Len(z) <= Len(Common(c, t))  BY <2>6, PrefixOrder
  <2>8. Len(Common(c, t)) > Len(d)
    BY <1>2, <1>3, <2>4, <2>6, <2>7, PrefixOrder
  <2> QED  BY <2>1, <2>8 DEF U, Under
<1>7. ASSUME NEW q \in B, NEW b \in U PROVE IsPrefix(q, b)
  <2>1. q \in U /\ q \in Text /\ b \in Text  BY <1>4, <1>5
  <2>2. PICK c \in U : c = Common(q, b) /\ c \in Text  BY <1>5, <1>6, <2>1
  <2>3. IsPrefix(c, q) /\ IsPrefix(c, b)  BY <2>1, <2>2, CommonFacts
  <2>4. ~ IsStrictPrefix(c, q)  BY <1>4, <2>2
  <2>5. c = q  BY <2>3, <2>4 DEF IsStrictPrefix
  <2> QED  BY <2>3, <2>5
<1>8. ASSUME NEW q \in B PROVE ~ IsPrefix(q, t)
  <2>1. q \in U /\ q \in Text /\ q \in D  BY <1>4, <1>5
  <2> SUFFICES ASSUME IsPrefix(q, t) PROVE FALSE  OBVIOUS
  <2>2. Common(q, t) = q  BY <2>1, CommonWhole
  <2>3. Len(q) > Len(d) /\ Len(q) <= Len(d)  BY <1>2, <1>5, <2>1, <2>2
  <2> QED  BY <1>2, <1>3, <2>1, <2>3, PrefixOrder
<1>9. ASSUME NEW q \in B, NEW b \in U PROVE Common(b, t) = Common(q, t)
  <2>1. q \in Text /\ b \in Text /\ IsPrefix(q, b)  BY <1>4, <1>5, <1>7
  <2>2. PICK c \in Text, m \in Text : c = Common(b, t) /\ m = Common(q, t)
    BY <2>1, CommonFacts
  <2>3. /\ IsPrefix(c, b) /\ IsPrefix(c, t) /\ IsPrefix(m, q) /\ IsPrefix(m, t)
    BY <2>1, <2>2, CommonFacts
  <2>4. IsPrefix(m, c)
    <3>1. IsPrefix(m, b)  BY <2>1, <2>3, PrefixOrder
    <3> QED  BY <2>1, <2>2, <2>3, <3>1, CommonFacts
  <2>5. IsPrefix(c, q)
    <3>1. CASE Len(c) <= Len(q)  BY <2>1, <2>3, <3>1, PrefixOrder
    <3>2. CASE ~ (Len(c) <= Len(q))
      <4>1. Len(q) <= Len(c)  BY <2>1, <3>2, PrefixOrder
      <4>2. IsPrefix(q, c)  BY <2>1, <2>3, <4>1, PrefixOrder
      <4>3. IsPrefix(q, t)  BY <2>1, <2>3, <4>2, PrefixOrder
      <4> QED  BY <1>8, <4>3
    <3> QED  BY <3>1, <3>2
  <2>6. IsPrefix(c, m)  BY <2>1, <2>2, <2>3, <2>5, CommonFacts
  <2>7. c = m  BY <2>4, <2>6, PrefixOrder
  <2> QED  BY <2>2, <2>7
<1>10. ASSUME U # {} PROVE B # {}
  <2> DEFINE T == {Len(q) : q \in U}
  <2>1. T \in SUBSET Nat /\ T # {}
    <3>1. \A q \in U : Len(q) \in Nat  BY <1>5, PrefixOrder
    <3> QED  BY <1>10, <3>1
  <2>2. PICK n \in T : \A m \in T : n <= m  BY <2>1, LeastElement
  <2>3. PICK q \in U : n = Len(q)  OBVIOUS
  <2>4. ASSUME NEW r \in U, IsStrictPrefix(r, q) PROVE FALSE
    <3>1. Len(q) <= Len(r) /\ IsPrefix(r, q) /\ r # q  BY <2>2, <2>3, <2>4 DEF IsStrictPrefix
    <3> QED  BY <1>5, <3>1, PrefixOrder
  <2> QED  BY <1>4, <2>3, <2>4
<1>11. ASSUME NEW q \in B, NEW a \in D, IsPrefix(a, q) PROVE a = q \/ IsPrefix(a, t)
  <2>1. q \in U /\ q \in Text /\ a \in Text  BY <1>3, <1>4, <1>5
  <2> SUFFICES ASSUME ~ IsPrefix(a, t) PROVE a = q  OBVIOUS
  <2>2. PICK m \in Text : m = Common(q, t) /\ IsPrefix(m, q) /\ IsPrefix(m, t) /\ Len(m) > Len(d)
    BY <1>5, <2>1, CommonFacts
  <2>3. ~ (Len(a) <= Len(m))
    <3> SUFFICES ASSUME Len(a) <= Len(m) PROVE FALSE  OBVIOUS
    <3>1. IsPrefix(a, m)  BY <1>11, <2>1, <2>2, PrefixOrder
    <3>2. IsPrefix(a, t)  BY <2>1, <2>2, <3>1, PrefixOrder
    <3> QED  BY <3>2
  <2>4. IsPrefix(m, a)  BY <1>11, <2>1, <2>2, <2>3, PrefixOrder
  <2>5. IsPrefix(m, Common(a, t)) /\ Common(a, t) \in Text  BY <2>1, <2>2, <2>4, CommonFacts
  <2>6. Len(m) <= Len(Common(a, t))  BY <2>5, PrefixOrder
  <2>7. Len(Common(a, t)) > Len(d)
    BY <1>2, <1>3, <2>2, <2>5, <2>6, PrefixOrder
  <2>8. a \in U  BY <2>7 DEF U, Under
  <2> QED  BY <1>4, <1>11, <2>8 DEF IsStrictPrefix
<1> QED
  BY <1>1, <1>2, <1>4, <1>7, <1>9, <1>10, <1>11 DEF Walk, U
-------------------------------------------------------------------------------
(* A radix tree in which a node's workers hold its parent, and a parent is *)
(* at least as fresh as its children; nothing is younger than now.         *)
Descends(ix, p, q) ==
  ix[q].workers \subseteq ix[p].workers /\ ix[q].last <= ix[p].last

IndexOK(ix, time) ==
  /\ Tree(DOMAIN ix)
  /\ \A p \in DOMAIN ix : ix[p] \in [workers : SUBSET PrefillIds, last : 0 .. time]
  /\ \A p, q \in DOMAIN ix : IsPrefix(p, q) => Descends(ix, p, q)

(* The paths after an insertion of t: M holds the place of the split.      *)
LEMMA InsertPaths ==
  ASSUME NEW D, Tree(D), NEW t \in Text, NEW d, NEW B, Walk(D, t, d, B),
         NEW M, M = {Common(q, t) : q \in B}
  PROVE  /\ Tree(D \cup M \cup {t})
         /\ Cardinality(D \cup M \cup {t}) <= Cardinality(D) + 2
         /\ \A m \in M : m \in Text /\ IsPrefix(m, t) /\ Len(m) > Len(d)
<1>1. D \subseteq Text /\ Root \in D /\ IsFiniteSet(D) /\ \A p, q \in D : Common(p, q) \in D
  BY DEF Tree
<1>2. \A m \in M : m \in Text /\ IsPrefix(m, t) /\ Len(m) > Len(d)
  BY <1>1, CommonFacts DEF Walk, Under
<1>3. M = {} \/ \E m : M = {m}
  <2>1. ASSUME NEW x \in M, NEW y \in M PROVE x = y
    <3>1. PICK p \in B, q \in B : x = Common(p, t) /\ y = Common(q, t)  OBVIOUS
    <3>2. p \in Under(D, t, d)  BY DEF Walk
    <3> QED  BY <3>1, <3>2 DEF Walk
  <2> QED  BY <2>1
<1>4. IsFiniteSet(D \cup M) /\ Cardinality(D \cup M) <= Cardinality(D) + 1
  <2>0. Cardinality(D) \in Nat  BY <1>1, FS_CardinalityType
  <2>1. PICK E : E = D \cup M  OBVIOUS
  <2>2. E = D \/ \E m : E = D \cup {m}  BY <1>3, <2>1
  <2>3. CASE E = D
    <3>1. Cardinality(E) <= Cardinality(D) + 1  BY <2>0, <2>3
    <3> QED  BY <1>1, <2>1, <2>3, <3>1
  <2>4. ASSUME NEW m, E = D \cup {m}
        PROVE  IsFiniteSet(E) /\ Cardinality(E) <= Cardinality(D) + 1
    <3>1. /\ IsFiniteSet(D \cup {m})
          /\ Cardinality(D \cup {m}) = IF m \in D THEN Cardinality(D) ELSE Cardinality(D) + 1
      BY <1>1, FS_AddElement
    <3>2. Cardinality(D \cup {m}) <= Cardinality(D) + 1  BY <2>0, <3>1
    <3> QED  BY <2>4, <3>1, <3>2
  <2> QED  BY <2>1, <2>2, <2>3, <2>4
<1>5. IsFiniteSet(D \cup M \cup {t}) /\ Cardinality(D \cup M \cup {t}) <= Cardinality(D) + 2
  <2> DEFINE E == D \cup M
  <2>1. IsFiniteSet(E) /\ Cardinality(E) <= Cardinality(D) + 1  BY <1>4
  <2> HIDE DEF E
  <2>2. Cardinality(E) \in Nat /\ Cardinality(D) \in Nat  BY <1>1, <2>1, FS_CardinalityType
  <2>3. /\ IsFiniteSet(E \cup {t})
        /\ Cardinality(E \cup {t}) = IF t \in E THEN Cardinality(E) ELSE Cardinality(E) + 1
    BY <2>1, FS_AddElement
  <2>4. Cardinality(E \cup {t}) <= Cardinality(D) + 2  BY <2>1, <2>2, <2>3
  <2> QED  BY <2>3, <2>4 DEF E
\* Where t and a path of the tree part.
<1>6. ASSUME NEW b \in D
      PROVE  \/ Common(t, b) \in D /\ Len(Common(t, b)) <= Len(d)
             \/ Common(t, b) \in M
  <2>1. b \in Text /\ d \in D /\ d \in Text /\ IsPrefix(d, t)  BY <1>1 DEF Walk
  <2>2. PICK c \in Text : c = Common(t, b) /\ c = Common(b, t) /\ IsPrefix(c, t) /\ IsPrefix(c, b)
    BY <2>1, CommonFacts, CommonSym
  <2>3. CASE Len(c) <= Len(d)
    <3>1. IsPrefix(c, d)  BY <2>1, <2>2, <2>3, PrefixOrder
    <3>2. PICK e \in D : e = Common(d, b) /\ e \in Text /\ IsPrefix(e, d) /\ IsPrefix(e, b)
      BY <1>1, <2>1, CommonFacts
    <3>3. IsPrefix(c, e)  BY <2>1, <2>2, <3>1, <3>2, CommonFacts
    <3>4. IsPrefix(e, t)  BY <2>1, <3>2, PrefixOrder
    <3>5. IsPrefix(e, c)  BY <2>1, <2>2, <3>2, <3>4, CommonFacts
    <3>6. e = c  BY <3>2, <3>3, <3>5, PrefixOrder
    <3> QED  BY <2>2, <2>3, <3>2, <3>6
  <2>4. CASE ~ (Len(c) <= Len(d))
    <3>1. Len(c) > Len(d)  BY <2>1, <2>4, PrefixOrder
    <3>2. b \in Under(D, t, d)  BY <2>2, <3>1 DEF Under
    <3>3. PICK q \in B : Common(b, t) = Common(q, t)  BY <3>2 DEF Walk
    <3> QED  BY <2>2, <3>3
  <2> QED  BY <2>3, <2>4
<1>7. ASSUME NEW m \in M, NEW b \in D PROVE Common(m, b) \in D \cup M
  <2>1. b \in Text /\ m \in Text /\ IsPrefix(m, t) /\ Len(m) > Len(d)  BY <1>1, <1>2
  <2>2. PICK c \in Text : c = Common(t, b) /\ IsPrefix(c, t) /\ IsPrefix(c, b)
    BY <2>1, CommonFacts
  <2>3. PICK e \in Text : e = Common(m, b) /\ IsPrefix(e, m) /\ IsPrefix(e, b)
    BY <2>1, CommonFacts
  <2>4. IsPrefix(e, c)
    <3>1. IsPrefix(e, t)  BY <2>1, <2>3, PrefixOrder
    <3> QED  BY <2>1, <2>2, <2>3, <3>1, CommonFacts
  <2>5. IsPrefix(c, m)
    <3>1. Len(c) <= Len(m)
      <4>1. CASE Len(c) <= Len(d)
        <5>1. d \in Text  BY <1>1 DEF Walk
        <5> QED  BY <2>1, <4>1, <5>1, PrefixOrder
      <4>2. CASE c \in M
        <5>1. c = m  BY <1>3, <4>2
        <5> QED  BY <5>1, PrefixOrder
      <4> QED  BY <1>6, <2>2, <4>1, <4>2
    <3> QED  BY <2>1, <2>2, <3>1, PrefixOrder
  <2>6. IsPrefix(c, e)  BY <2>1, <2>2, <2>3, <2>5, CommonFacts
  <2>7. c = e  BY <2>4, <2>6, PrefixOrder
  <2> QED  BY <1>6, <2>2, <2>3, <2>7
<1>8. ASSUME NEW p \in D \cup M \cup {t}, NEW q \in D \cup M \cup {t}
      PROVE  Common(p, q) \in D \cup M \cup {t}
  <2>1. p \in Text /\ q \in Text  BY <1>1, <1>2
  <2>2. Common(p, q) = Common(q, p)  BY <2>1, CommonSym
  <2>3. p = q => Common(p, q) = p  BY <2>1, CommonWhole, PrefixOrder
  <2>4. \A m \in M : Common(m, t) = m  BY <1>2, CommonWhole
  <2>5. p \in M /\ q \in M => p = q  BY <1>3
  <2> QED  BY <1>1, <1>6, <1>7, <2>1, <2>2, <2>3, <2>4, <2>5
<1> QED  BY <1>1, <1>2, <1>5, <1>8 DEF Tree

(* What insert() leaves alone and what it adds.                            *)
LEMMA InsertOK ==
  ASSUME NEW ix, NEW time \in Nat, IndexOK(ix, time), NEW w \in PrefillIds, NEW t \in Text,
         Accepts(ix, t), NEW jx, jx = Insert(ix, w, t, time)
  PROVE  /\ IndexOK(jx, time)
         /\ Cardinality(DOMAIN jx) <= Cardinality(DOMAIN ix) + 2
         /\ \A x \in DOMAIN ix : x \in DOMAIN jx /\ ix[x].workers \subseteq jx[x].workers
                                 /\ ix[x].last <= jx[x].last
         /\ t \in DOMAIN jx /\ w \in jx[t].workers /\ jx[t].last = time
         /\ \A x \in DOMAIN jx : \A v \in jx[x].workers :
              \/ v = w /\ IsPrefix(x, t)
              \/ \E y \in DOMAIN ix : IsPrefix(x, y) /\ v \in ix[y].workers
<1>1. PICK D, B, M, d :
        /\ D = DOMAIN ix /\ B = Blocking(ix, t) /\ d = Deepest(ix, t)
        /\ M = {Common(q, t) : q \in B}
  OBVIOUS
<1>2. Tree(D) /\ Walk(D, t, d, B)  BY <1>1, WalkFacts DEF IndexOK
<1>3. /\ Tree(D \cup M \cup {t}) /\ Cardinality(D \cup M \cup {t}) <= Cardinality(D) + 2
      /\ \A m \in M : m \in Text /\ IsPrefix(m, t) /\ Len(m) > Len(d)
  BY <1>1, <1>2, InsertPaths
<1> DEFINE E == D \cup M \cup {t}
           old(x) == IF x \in D THEN ix[x].workers
                     ELSE IF x \in M THEN UNION {ix[q].workers : q \in B} ELSE {}
<1>4. jx = [x \in E |->
             IF IsPrefix(x, t) THEN Node(old(x) \cup {w}, time)
             ELSE IF x \in B THEN [ix[x] EXCEPT !.last = time]
             ELSE ix[x]]
  BY <1>1 DEF Insert
<1>5. DOMAIN jx = E  BY <1>4
<1>6. /\ D \subseteq Text /\ B \subseteq D
      /\ \A p \in D : ix[p] \in [workers : SUBSET PrefillIds, last : 0 .. time]
      /\ \A p, q \in D : IsPrefix(p, q) => Descends(ix, p, q)
  BY <1>1, <1>2 DEF IndexOK, Tree, Walk, Under
<1>7. ASSUME NEW x \in E, IsPrefix(x, t)
      PROVE  /\ jx[x].workers = old(x) \cup {w} /\ jx[x].last = time
             /\ jx[x] = [workers |-> old(x) \cup {w}, last |-> time]
  BY <1>4, <1>7 DEF Node
<1>8. IsPrefix(t, t) /\ \A m \in M : m \notin D
  <2>1. \A m \in M : m \in D => Len(m) <= Len(d)  BY <1>2, <1>3 DEF Walk
  <2>2. d \in Text  BY <1>2, <1>6 DEF Walk
  <2> QED  BY <1>3, <2>1, <2>2, PrefixOrder
<1>9. ASSUME NEW x \in E, ~ IsPrefix(x, t)
      PROVE  /\ x \in D /\ jx[x].workers = ix[x].workers
             /\ jx[x].last = IF x \in B THEN time ELSE ix[x].last
             /\ jx[x] \in [workers : SUBSET PrefillIds, last : 0 .. time]
  <2>1. x \in D  BY <1>3, <1>8, <1>9
  <2>2. jx[x] = IF x \in B THEN [ix[x] EXCEPT !.last = time] ELSE ix[x]
    BY <1>4, <1>9
  <2>3. ix[x] \in [workers : SUBSET PrefillIds, last : 0 .. time] /\ time \in 0 .. time
    BY <1>6, <2>1
  <2> QED  BY <2>1, <2>2, <2>3
<1> HIDE DEF E
<1>10. /\ \A x \in D : old(x) = ix[x].workers
       /\ \A x \in M : \A v : v \in old(x) <=> \E q \in B : v \in ix[q].workers
       /\ \A x : x \notin D /\ x \notin M => old(x) = {}
  BY <1>8
<1> HIDE DEF old
<1>11. \A x \in E : old(x) \subseteq PrefillIds
  BY <1>6, <1>10
<1>12. \A q \in B : \A b \in Under(D, t, d) : IsPrefix(q, b) /\ Common(b, t) = Common(q, t)
  BY <1>2 DEF Walk
\* A path behind the split is behind the child that was split.
<1>13. ASSUME NEW m \in M, NEW b \in D, IsPrefix(m, b)
       PROVE  b \in Under(D, t, d)
  <2>1. m \in Text /\ b \in Text /\ d \in Text /\ IsPrefix(m, t) /\ Len(m) > Len(d)
    BY <1>2, <1>3, <1>6, <1>13 DEF Walk
  <2>2. IsPrefix(m, Common(b, t)) /\ Common(b, t) \in Text  BY <1>13, <2>1, CommonFacts
  <2>3. Len(Common(b, t)) > Len(d)  BY <2>1, <2>2, PrefixOrder
  <2> QED  BY <2>3 DEF Under
<1>14. ASSUME NEW a \in E, NEW b \in E, IsPrefix(a, b) PROVE Descends(jx, a, b)
  <2>1. a \in Text /\ b \in Text /\ E \subseteq Text  BY <1>3 DEF Tree, E
  <2>2. CASE IsPrefix(b, t)
    <3>1. IsPrefix(a, t)  BY <1>14, <2>1, <2>2, PrefixOrder
    <3>2. ASSUME NEW v \in old(b) PROVE v \in old(a)
      <4>1. CASE b \in D
        <5>1. a \notin M
          <6> SUFFICES ASSUME a \in M PROVE FALSE  OBVIOUS
          <6>1. Len(a) > Len(d) /\ Len(b) <= Len(d) /\ Len(a) <= Len(b) /\ d \in Text
            BY <1>2, <1>3, <1>6, <1>14, <2>1, <2>2, <4>1, PrefixOrder DEF Walk
          <6> QED  BY <2>1, <6>1, PrefixOrder
        <5>2. a = t => b = t
          BY <1>14, <2>1, <2>2, PrefixOrder
        <5>3. a \in D  BY <4>1, <5>1, <5>2 DEF E
        <5> QED  BY <1>6, <1>10, <1>14, <3>2, <4>1, <5>3 DEF Descends
      <4>2. CASE b \in M
        <5>1. PICK q \in B : v \in ix[q].workers  BY <1>10, <3>2, <4>2
        <5>2. b = Common(q, t) /\ q \in Text /\ q \in D
          <6>1. PICK r \in B : b = Common(r, t)  BY <1>1, <4>2
          <6>2. r \in Under(D, t, d)  BY <1>2 DEF Walk
          <6> QED  BY <1>6, <1>12, <6>1, <6>2
        <5>3. IsPrefix(b, q)  BY <5>2, CommonFacts
        <5>4. IsPrefix(a, q)  BY <1>14, <2>1, <5>2, <5>3, PrefixOrder
        <5>5. CASE a \in D  BY <1>6, <1>10, <5>1, <5>2, <5>4, <5>5 DEF Descends
        <5>6. CASE a \in M  BY <1>10, <5>1, <5>6
        <5>7. CASE a = t
          <6>1. a = b  BY <1>14, <2>1, <2>2, <5>7, PrefixOrder
          <6> QED  BY <3>2, <6>1
        <5> QED  BY <5>5, <5>6, <5>7 DEF E
      <4>3. CASE b \notin D /\ b \notin M  BY <1>10, <3>2, <4>3
      <4> QED  BY <4>1, <4>2, <4>3
    <3>3. jx[a].workers = old(a) \cup {w} /\ jx[a].last = time  BY <1>7, <3>1
    <3>4. jx[b].workers = old(b) \cup {w} /\ jx[b].last = time  BY <1>7, <2>2
    <3>5. jx[b].last <= jx[a].last  BY <3>3, <3>4
    <3> QED  BY <3>2, <3>3, <3>4, <3>5 DEF Descends
  <2>3. CASE ~ IsPrefix(b, t) /\ IsPrefix(a, t)
    <3>1. b \in D /\ jx[b].workers = ix[b].workers /\ jx[b].last \in 0 .. time
      BY <1>9, <2>3
    <3>2. ASSUME NEW v \in ix[b].workers PROVE v \in old(a)
      <4>1. CASE a \in D  BY <1>6, <1>10, <1>14, <3>1, <3>2, <4>1 DEF Descends
      <4>2. CASE a \in M
        <5>1. PICK q \in B : a = Common(q, t)  BY <1>1, <4>2
        <5>2. b \in Under(D, t, d)  BY <1>13, <1>14, <3>1, <4>2
        <5>3. IsPrefix(q, b) /\ q \in D  BY <1>6, <1>12, <5>2
        <5>4. v \in ix[q].workers  BY <1>6, <3>1, <3>2, <5>3 DEF Descends
        <5> QED  BY <1>10, <4>2, <5>4
      <4>3. CASE a = t /\ a \notin D /\ a \notin M
        <5>1. Common(b, t) = t
          <6>1. Common(t, b) = t  BY <1>14, <2>1, <4>3, CommonWhole
          <6> QED  BY <2>1, <6>1, CommonSym
        <5>2. Len(t) > Len(d)
          <6>1. d \in D /\ d \in Text /\ IsPrefix(d, t) /\ d # t  BY <1>2, <1>6, <4>3 DEF Walk
          <6>2. Len(d) <= Len(t) /\ ~ (Len(t) <= Len(d))  BY <6>1, PrefixOrder
          <6> QED  BY <6>1, <6>2, PrefixOrder
        <5>3. b \in Under(D, t, d)  BY <3>1, <5>1, <5>2 DEF Under
        <5>4. PICK q \in B : Common(b, t) = Common(q, t)  BY <1>2, <1>12, <5>3 DEF Walk
        <5> QED  BY <1>1, <4>3, <5>1, <5>4
      <4> QED  BY <4>1, <4>2, <4>3 DEF E
    <3>3. jx[a].workers = old(a) \cup {w} /\ jx[a].last = time  BY <1>7, <2>3
    <3> QED  BY <3>1, <3>2, <3>3 DEF Descends
  <2>4. CASE ~ IsPrefix(b, t) /\ ~ IsPrefix(a, t)
    <3>1. /\ a \in D /\ b \in D
          /\ jx[a].workers = ix[a].workers /\ jx[b].workers = ix[b].workers
          /\ jx[a].last = IF a \in B THEN time ELSE ix[a].last
          /\ jx[b].last = IF b \in B THEN time ELSE ix[b].last
      BY <1>9, <2>4
    <3>2. ix[b].workers \subseteq ix[a].workers /\ ix[b].last <= ix[a].last
      BY <1>6, <1>14, <3>1 DEF Descends
    <3>3. b \in B => a = b  BY <1>2, <1>14, <2>4, <3>1 DEF Walk
    <3>4. ix[b].last \in 0 .. time /\ ix[a].last \in 0 .. time  BY <1>6, <3>1
    <3>5. jx[b].last <= jx[a].last  BY <3>1, <3>2, <3>3, <3>4
    <3> QED  BY <3>1, <3>2, <3>5 DEF Descends
  <2> QED  BY <2>2, <2>3, <2>4
<1>15. ASSUME NEW x \in E PROVE jx[x] \in [workers : SUBSET PrefillIds, last : 0 .. time]
  <2>1. CASE IsPrefix(x, t)
    <3>1. old(x) \cup {w} \in SUBSET PrefillIds /\ time \in 0 .. time  BY <1>11
    <3>2. jx[x] = [workers |-> old(x) \cup {w}, last |-> time]  BY <1>7, <2>1
    <3> QED  BY <3>1, <3>2
  <2> QED  BY <1>9, <2>1
<1>16. IndexOK(jx, time)
  BY <1>3, <1>5, <1>14, <1>15 DEF IndexOK, E
<1>17. Cardinality(DOMAIN jx) <= Cardinality(DOMAIN ix) + 2
  BY <1>1, <1>3, <1>5 DEF E
<1>18. ASSUME NEW x \in DOMAIN ix
       PROVE  /\ x \in DOMAIN jx /\ ix[x].workers \subseteq jx[x].workers
              /\ ix[x].last <= jx[x].last
  <2>1. x \in E /\ x \in D /\ ix[x].last \in 0 .. time  BY <1>1, <1>6, <1>18 DEF E
  <2>2. CASE IsPrefix(x, t)
    <3>1. old(x) = ix[x].workers  BY <1>10, <2>1
    <3>2. jx[x].workers = old(x) \cup {w} /\ jx[x].last = time  BY <1>7, <2>1, <2>2
    <3> QED  BY <1>5, <2>1, <3>1, <3>2
  <2>3. CASE ~ IsPrefix(x, t)
    <3>1. /\ jx[x].workers = ix[x].workers
          /\ jx[x].last = IF x \in B THEN time ELSE ix[x].last
      BY <1>9, <2>1, <2>3
    <3>2. ix[x].last <= jx[x].last  BY <2>1, <3>1
    <3> QED  BY <1>5, <2>1, <3>1, <3>2
  <2> QED  BY <2>2, <2>3
<1>19. t \in DOMAIN jx /\ w \in jx[t].workers /\ jx[t].last = time
  <2>1. t \in E  BY DEF E
  <2> QED  BY <1>5, <1>7, <1>8, <2>1
<1>20. ASSUME NEW x \in DOMAIN jx, NEW v \in jx[x].workers
       PROVE  \/ v = w /\ IsPrefix(x, t)
              \/ \E y \in DOMAIN ix : IsPrefix(x, y) /\ v \in ix[y].workers
  <2>1. x \in E /\ x \in Text  BY <1>3, <1>5 DEF E, Tree
  <2>2. CASE IsPrefix(x, t)
    <3>1. v \in old(x) \/ v = w
      <4>1. jx[x].workers = old(x) \cup {w}  BY <1>7, <2>1, <2>2
      <4> QED  BY <1>20, <4>1
    <3>2. CASE v = w  BY <2>2, <3>2
    <3>3. CASE v \in old(x) /\ x \in D
      <4>1. v \in ix[x].workers /\ IsPrefix(x, x)  BY <1>10, <2>1, <3>3, PrefixOrder
      <4> QED  BY <1>1, <3>3, <4>1
    <3>4. CASE v \in old(x) /\ x \in M
      <4>1. PICK q \in B : v \in ix[q].workers  BY <1>10, <3>4
      <4>2. PICK r \in B : x = Common(r, t)  BY <1>1, <3>4
      <4>3. r \in Under(D, t, d)  BY <1>2 DEF Walk
      <4>4. q \in D /\ q \in Text /\ Common(r, t) = Common(q, t)  BY <1>6, <1>12, <4>3
      <4>5. IsPrefix(x, q)  BY <4>2, <4>4, CommonFacts
      <4> QED  BY <1>1, <4>1, <4>4, <4>5
    <3> QED  BY <1>10, <3>1, <3>2, <3>3, <3>4
  <2>3. CASE ~ IsPrefix(x, t)
    <3>1. x \in D /\ v \in ix[x].workers /\ IsPrefix(x, x)
      BY <1>9, <1>20, <2>1, <2>3, PrefixOrder
    <3> QED  BY <1>1, <3>1
  <2> QED  BY <2>2, <2>3
<1> QED  BY <1>16, <1>17, <1>18, <1>19, <1>20
-------------------------------------------------------------------------------
(* What a sweep leaves: nodes as they were, every one that has not expired *)
(* among them.                                                             *)
Kept(ix, jx, time, ttl) ==
  /\ DOMAIN jx \subseteq DOMAIN ix
  /\ \A x \in DOMAIN jx : jx[x] = ix[x]
  /\ \A x \in DOMAIN ix : ~ Expired(ix[x], time, ttl) => x \in DOMAIN jx

LEMMA PruneLeavesOK ==
  ASSUME NEW ix, NEW time \in Nat, NEW ttl \in Nat, IndexOK(ix, time),
         NEW jx, jx = PruneLeaves(ix, time, ttl)
  PROVE  IndexOK(jx, time) /\ Kept(ix, jx, time, ttl)
<1>1. PICK D : D = DOMAIN ix  OBVIOUS
<1> DEFINE E == {p \in D : ~ (Leaf(ix, p) /\ Expired(ix[p], time, ttl))}
<1>2. jx = [p \in E |-> ix[p]]  BY <1>1 DEF PruneLeaves, Restrict
<1>3. DOMAIN jx = E /\ \A x \in E : jx[x] = ix[x]  BY <1>2
<1>4. E \subseteq D /\ \A x \in D : ~ Expired(ix[x], time, ttl) => x \in E  OBVIOUS
<1>5. /\ D \subseteq Text /\ Root \in D /\ IsFiniteSet(D)
      /\ \A p, q \in D : Common(p, q) \in D
      /\ \A p \in D : ix[p] \in [workers : SUBSET PrefillIds, last : 0 .. time]
      /\ \A p, q \in D : IsPrefix(p, q) => Descends(ix, p, q)
  BY <1>1 DEF IndexOK, Tree
<1>6. Root \in E  BY <1>5 DEF Leaf
<1>7. ASSUME NEW p \in E, NEW q \in E PROVE Common(p, q) \in E
  <2>1. PICK c \in D : c = Common(p, q) /\ IsPrefix(c, p)  BY <1>4, <1>5, CommonFacts
  <2>2. CASE c = p  BY <2>1, <2>2
  <2>3. CASE c # p
    <3>1. IsStrictPrefix(c, p)  BY <2>1, <2>3 DEF IsStrictPrefix
    <3>2. ~ Leaf(ix, c)  BY <1>1, <1>4, <3>1 DEF Leaf
    <3> QED  BY <2>1, <3>2
  <2> QED  BY <2>2, <2>3
<1> HIDE DEF E
<1>8. IsFiniteSet(E)  BY <1>4, <1>5, FS_Subset
<1>9. Tree(E)  BY <1>4, <1>5, <1>6, <1>7, <1>8 DEF Tree
<1>10. \A p \in E : jx[p] \in [workers : SUBSET PrefillIds, last : 0 .. time]
  BY <1>3, <1>4, <1>5
<1>11. \A p, q \in E : IsPrefix(p, q) => Descends(jx, p, q)
  BY <1>3, <1>4, <1>5 DEF Descends
<1>12. IndexOK(jx, time)  BY <1>3, <1>9, <1>10, <1>11 DEF IndexOK
<1>13. Kept(ix, jx, time, ttl)  BY <1>1, <1>3, <1>4 DEF Kept
<1> QED  BY <1>12, <1>13

(* A finite set has a first element in any order that compares everything. *)
LEMMA FirstExists ==
  ASSUME NEW S, IsFiniteSet(S), S # {}, NEW R,
         \A x, y \in S : x # y => <<x, y>> \in R \/ <<y, x>> \in R,
         \A x, y, z \in S : <<x, y>> \in R /\ <<y, z>> \in R => <<x, z>> \in R
  PROVE  \E x \in S : \A y \in S \ {x} : <<x, y>> \in R
<1> DEFINE First(U) == \E x \in U : \A y \in U \ {x} : <<x, y>> \in R
           T == {n \in Nat : \A U \in SUBSET S : Cardinality(U) = n /\ U # {} => First(U)}
<1>1. \A U \in SUBSET S : IsFiniteSet(U) /\ Cardinality(U) \in Nat
  BY FS_Subset, FS_CardinalityType
<1>2. 0 \in T  BY <1>1, FS_EmptySet
<1>3. ASSUME NEW n \in Nat \ {0}, n - 1 \in T PROVE n \in T
  <2> SUFFICES ASSUME NEW U \in SUBSET S, Cardinality(U) = n, U # {} PROVE First(U)
    OBVIOUS
  <2>1. PICK x \in U : TRUE  OBVIOUS
  <2>2. PICK V \in SUBSET S : V = U \ {x}  OBVIOUS
  <2>3. Cardinality(V) = n - 1  BY <1>1, <2>2, FS_RemoveElement
  <2>4. CASE V = {}
    <3>1. \A y \in U \ {x} : <<x, y>> \in R  BY <2>2, <2>4
    <3> QED  BY <3>1
  <2>5. CASE V # {}
    <3>1. First(V)  BY <1>3, <2>3, <2>5
    <3>2. PICK v \in V : \A y \in V \ {v} : <<v, y>> \in R  BY <3>1
    <3>3. v \in S /\ x \in S /\ v \in U /\ x # v  BY <2>2
    <3>4. CASE <<v, x>> \in R
      <4>1. \A y \in U \ {v} : <<v, y>> \in R  BY <2>2, <3>2, <3>4
      <4> QED  BY <3>3, <4>1
    <3>5. CASE <<x, v>> \in R
      <4>1. \A y \in U \ {x} : <<x, y>> \in R  BY <2>2, <3>2, <3>3, <3>5
      <4> QED  BY <4>1
    <3> QED  BY <3>3, <3>4, <3>5
  <2> QED  BY <2>4, <2>5
<1> HIDE DEF T
<1>4. PICK N \in Nat : N = Cardinality(S)  BY <1>1
<1>5. 0 .. N \subseteq T  BY <1>2, <1>3, BoundedInduction
<1>6. N \in T  BY <1>5
<1> QED  BY <1>4, <1>6 DEF T

LEMMA DepthType ==
  ASSUME NEW ix, Tree(DOMAIN ix)
  PROVE  Depth(ix) \in Nat
<1>1. PICK D : D = DOMAIN ix /\ D \subseteq Text /\ IsFiniteSet(D) /\ D # {}  BY DEF Tree
<1> DEFINE R == {w \in D \X D : Len(w[1]) >= Len(w[2])}
           T == {Len(p) : p \in D}
<1>2. \A p \in D : Len(p) \in Nat  BY <1>1, PrefixOrder
<1>3. \A p, q \in D : <<p, q>> \in R <=> Len(p) >= Len(q)  OBVIOUS
<1> HIDE DEF R
<1>4. ASSUME NEW p \in D, NEW q \in D PROVE <<p, q>> \in R \/ <<q, p>> \in R
  <2>1. Len(p) \in Nat /\ Len(q) \in Nat  BY <1>2
  <2>2. Len(p) >= Len(q) \/ Len(q) >= Len(p)  BY <2>1
  <2> QED  BY <1>3, <2>2
<1>5. \A p, q, r \in D : <<p, q>> \in R /\ <<q, r>> \in R => <<p, r>> \in R  BY <1>2, <1>3
<1>6. PICK p \in D : \A q \in D \ {p} : <<p, q>> \in R  BY <1>1, <1>4, <1>5, FirstExists
<1>7. ASSUME NEW q \in D PROVE Len(p) >= Len(q)
  <2>1. Len(p) \in Nat /\ Len(q) \in Nat  BY <1>2
  <2>2. q # p => Len(p) >= Len(q)  BY <1>3, <1>6
  <2> QED  BY <2>1, <2>2
<1>8. T \subseteq Nat /\ \E n \in T : \A m \in T : n >= m  BY <1>2, <1>7
<1>9. Max(T) \in T  BY <1>8 DEF Max
<1>10. Depth(ix) = Max(T)  BY <1>1 DEF Depth
<1> QED  BY <1>8, <1>9, <1>10

(* A function defined by primitive recursion up to N exists.               *)
Recursive(f, D, b, N, G) ==
  /\ f \in [0 .. N -> D]
  /\ f[0] = b
  /\ \A k \in 1 .. N : f[k] = G[k][f[k - 1]]

LEMMA RecursionExists ==
  ASSUME NEW D, NEW b \in D, NEW N \in Nat, NEW G \in [1 .. N -> [D -> D]]
  PROVE  \E f : Recursive(f, D, b, N, G)
<1> DEFINE T == {m \in 0 .. N : \E f : Recursive(f, D, b, m, G)}
<1>1. 0 \in T
  <2> DEFINE g == [k \in 0 .. 0 |-> b]
  <2>1. g \in [0 .. 0 -> D] /\ g[0] = b /\ \A k \in 1 .. 0 : g[k] = G[k][g[k - 1]]
    OBVIOUS
  <2>2. Recursive(g, D, b, 0, G)  BY <2>1 DEF Recursive
  <2> QED  BY <2>2
<1>2. ASSUME NEW m \in 1 .. N, m - 1 \in T PROVE m \in T
  <2>1. PICK f : Recursive(f, D, b, m - 1, G)  BY <1>2
  <2>2. /\ f \in [0 .. m - 1 -> D]
        /\ f[0] = b /\ \A k \in 1 .. m - 1 : f[k] = G[k][f[k - 1]]
    BY <2>1 DEF Recursive
  <2> DEFINE g == [k \in 0 .. m |-> IF k = m THEN G[m][f[m - 1]] ELSE f[k]]
  <2>3. g \in [0 .. m -> D]  BY <2>2
  <2>4. g[0] = b  BY <2>2
  <2>5. ASSUME NEW k \in 1 .. m PROVE g[k] = G[k][g[k - 1]]
    <3>1. g[k - 1] = f[k - 1]  OBVIOUS
    <3>2. CASE k = m  BY <3>1, <3>2
    <3>3. CASE k # m  BY <2>2, <3>1, <3>3
    <3> QED  BY <3>2, <3>3
  <2> HIDE DEF g
  <2>6. Recursive(g, D, b, m, G)  BY <2>3, <2>4, <2>5 DEF Recursive
  <2> QED  BY <2>6
<1> HIDE DEF T
<1>3. 0 .. N \subseteq T  BY <1>1, <1>2, BoundedInduction
<1>4. N \in T  BY <1>3
<1> QED  BY <1>4 DEF T

IsMap(f) == f = [x \in DOMAIN f |-> f[x]]

(* Prune follows its recursion.                                            *)
Sweeps(f, N, ix, time, ttl) ==
  /\ f[0] = ix
  /\ \A k \in 1 .. N : f[k] = PruneLeaves(f[k - 1], time, ttl)

LEMMA PruneScan ==
  ASSUME NEW ix, IsMap(ix), Tree(DOMAIN ix), NEW time \in Nat, NEW ttl \in Nat
  PROVE  \E f : /\ Sweeps(f, Depth(ix), ix, time, ttl)
                /\ Prune(ix, time, ttl) = f[Depth(ix)]
                /\ IsMap(f[Depth(ix)])
<1> DEFINE Part == {[p \in S |-> ix[p]] : S \in SUBSET (DOMAIN ix)}
           G(N) == [k \in 1 .. N |-> [jx \in Part |-> PruneLeaves(jx, time, ttl)]]
           after[n \in 0 .. Depth(ix)] ==
             IF n = 0 THEN ix ELSE PruneLeaves(after[n - 1], time, ttl)
<1>1. PICK N \in Nat : N = Depth(ix)  BY DepthType
<1>2. ix \in Part  BY DEF IsMap
<1>3. ASSUME NEW jx \in Part PROVE PruneLeaves(jx, time, ttl) \in Part
  <2>1. PICK S \in SUBSET (DOMAIN ix) : jx = [p \in S |-> ix[p]]  OBVIOUS
  <2>2. PICK S2 \in SUBSET S : PruneLeaves(jx, time, ttl) = [p \in S2 |-> jx[p]]
    BY <2>1 DEF PruneLeaves, Restrict
  <2>3. PruneLeaves(jx, time, ttl) = [p \in S2 |-> ix[p]]  BY <2>1, <2>2
  <2> QED  BY <2>3
<1>4. G(N) \in [1 .. N -> [Part -> Part]]  BY <1>1, <1>3
<1>5. PICK f : Recursive(f, Part, ix, N, G(N))
  <2> HIDE DEF G, after, Part
  <2> QED  BY <1>1, <1>2, <1>4, RecursionExists
<1>6. /\ f \in [0 .. N -> Part] /\ f[0] = ix
      /\ \A k \in 1 .. N : f[k] = PruneLeaves(f[k - 1], time, ttl)
  <2>1. f \in [0 .. N -> Part] /\ f[0] = ix  BY <1>5 DEF Recursive
  <2>2. ASSUME NEW k \in 1 .. N PROVE f[k] = PruneLeaves(f[k - 1], time, ttl)
    <3>1. f[k] = G(N)[k][f[k - 1]]  BY <1>5 DEF Recursive
    <3>2. f[k - 1] \in Part  BY <2>1
    <3> HIDE DEF Part
    <3> QED  BY <3>1, <3>2
  <2> QED  BY <2>1, <2>2
<1> HIDE DEF G
<1>7. f = [n \in 0 .. N |-> IF n = 0 THEN ix ELSE PruneLeaves(f[n - 1], time, ttl)]
  <2> HIDE DEF Part
  <2> QED  BY <1>6
<1>8. after = [n \in 0 .. N |-> IF n = 0 THEN ix ELSE PruneLeaves(after[n - 1], time, ttl)]
  BY <1>1, <1>7
<1>9. Prune(ix, time, ttl) = after[N]  BY <1>1 DEF Prune
<1> HIDE DEF after
<1>10. after[0] = ix /\ \A k \in 1 .. N : after[k] = PruneLeaves(after[k - 1], time, ttl)
  BY <1>8
<1>11. IsMap(after[N])
  <2>1. CASE N = 0  BY <1>10, <2>1
  <2>2. CASE N # 0
    <3>1. after[N] = PruneLeaves(after[N - 1], time, ttl)  BY <1>10, <2>2
    <3> QED  BY <3>1 DEF PruneLeaves, Restrict, IsMap
  <2> QED  BY <2>1, <2>2
<1>12. Sweeps(after, N, ix, time, ttl)  BY <1>10 DEF Sweeps
<1> QED  BY <1>1, <1>9, <1>11, <1>12

LEMMA PruneOK ==
  ASSUME NEW ix, IsMap(ix), NEW time \in Nat, NEW ttl \in Nat, IndexOK(ix, time),
         NEW jx, jx = Prune(ix, time, ttl)
  PROVE  IsMap(jx) /\ IndexOK(jx, time) /\ Kept(ix, jx, time, ttl)
<1>1. Tree(DOMAIN ix)  BY DEF IndexOK
<1>2. PICK N \in Nat : N = Depth(ix)  BY <1>1, DepthType
<1>3. PICK f : Sweeps(f, N, ix, time, ttl) /\ jx = f[N] /\ IsMap(f[N])
  BY <1>1, <1>2, PruneScan
<1> DEFINE T == {n \in 0 .. N : IndexOK(f[n], time) /\ Kept(ix, f[n], time, ttl)}
<1>4. 0 \in T
  <2>1. f[0] = ix  BY <1>3 DEF Sweeps
  <2>2. Kept(ix, ix, time, ttl)  BY DEF Kept
  <2> QED  BY <2>1, <2>2
<1>5. ASSUME NEW k \in 1 .. N, k - 1 \in T PROVE k \in T
  <2>1. PICK g, h : g = f[k - 1] /\ h = f[k] /\ h = PruneLeaves(g, time, ttl)
    BY <1>3 DEF Sweeps
  <2>2. IndexOK(g, time) /\ Kept(ix, g, time, ttl)  BY <1>5, <2>1
  <2>3. IndexOK(h, time) /\ Kept(g, h, time, ttl)  BY <2>1, <2>2, PruneLeavesOK
  <2>4. Kept(ix, h, time, ttl)  BY <2>2, <2>3 DEF Kept
  <2>5. k \in 0 .. N  OBVIOUS
  <2> QED  BY <2>1, <2>3, <2>4, <2>5
<1> HIDE DEF T
<1>6. 0 .. N \subseteq T  BY <1>4, <1>5, BoundedInduction
<1>7. N \in T  BY <1>6
<1> QED  BY <1>3, <1>7 DEF T

LEMMA ForgetOK ==
  ASSUME NEW ix, NEW time \in Nat, IndexOK(ix, time), NEW w, NEW jx, jx = ForgetWorker(ix, w)
  PROVE  /\ IsMap(jx) /\ IndexOK(jx, time) /\ DOMAIN jx = DOMAIN ix
         /\ \A x \in DOMAIN ix :
              jx[x].workers = ix[x].workers \ {w} /\ jx[x].last = ix[x].last
<1>1. PICK D : D = DOMAIN ix  OBVIOUS
<1>2. /\ Tree(D)
      /\ \A p \in D : ix[p] \in [workers : SUBSET PrefillIds, last : 0 .. time]
      /\ \A p, q \in D : IsPrefix(p, q) => Descends(ix, p, q)
  BY <1>1 DEF IndexOK
<1>3. jx = [p \in D |-> [ix[p] EXCEPT !.workers = @ \ {w}]]  BY <1>1 DEF ForgetWorker
<1>4. IsMap(jx) /\ DOMAIN jx = D  BY <1>3 DEF IsMap
<1>5. ASSUME NEW x \in D
      PROVE  /\ jx[x].workers = ix[x].workers \ {w} /\ jx[x].last = ix[x].last
             /\ jx[x] \in [workers : SUBSET PrefillIds, last : 0 .. time]
  <2>1. ix[x] \in [workers : SUBSET PrefillIds, last : 0 .. time]  BY <1>2
  <2>2. jx[x] = [ix[x] EXCEPT !.workers = @ \ {w}]  BY <1>3
  <2> QED  BY <2>1, <2>2
<1>6. \A p, q \in D : IsPrefix(p, q) => Descends(jx, p, q)
  BY <1>2, <1>5 DEF Descends
<1> QED  BY <1>1, <1>2, <1>4, <1>5, <1>6 DEF IndexOK

LEMMA EmptyOK ==
  ASSUME NEW time \in Nat
  PROVE  IsMap(Empty) /\ IndexOK(Empty, time) /\ DOMAIN Empty = {Root}
         /\ Empty[Root].workers = {} /\ Cardinality(DOMAIN Empty) = 1
<1>1. DOMAIN Empty = {Root} /\ Empty[Root] = [workers |-> {}, last |-> 0] /\ IsMap(Empty)
  BY DEF Empty, Node, IsMap
<1>2. Root \in Text  BY EmptySeq DEF Root, Text
<1>3. Common(Root, Root) = Root  BY <1>2, CommonWhole, PrefixOrder
<1>4. IsFiniteSet({Root}) /\ Cardinality({Root}) = 1  BY FS_Singleton
<1>5. Tree({Root})  BY <1>2, <1>3, <1>4 DEF Tree
<1>6. Empty[Root] \in [workers : SUBSET PrefillIds, last : 0 .. time]  BY <1>1
<1>7. Descends(Empty, Root, Root)  BY <1>1 DEF Descends
<1> QED  BY <1>1, <1>4, <1>5, <1>6, <1>7 DEF IndexOK
-------------------------------------------------------------------------------
(* match_worker() walks along one path only, and yet finds the longest     *)
(* match that any node of the tree has for the worker.                     *)
LEMMA MatchExact ==
  ASSUME NEW ix, NEW time \in Nat, IndexOK(ix, time), NEW w, NEW s \in Text
  PROVE  /\ MatchWorker(ix, w, s) \in 0 .. Len(s)
         /\ \/ MatchWorker(ix, w, s) = 0
            \/ \E p \in DOMAIN ix :
                 w \in ix[p].workers /\ MatchWorker(ix, w, s) = Len(Common(p, s))
         /\ \A p \in DOMAIN ix :
              w \in ix[p].workers => Len(Common(p, s)) <= MatchWorker(ix, w, s)
<1>1. PICK D, B, d :
        D = DOMAIN ix /\ B = Blocking(ix, s) /\ d = Deepest(ix, s)
  OBVIOUS
<1>2. Tree(D) /\ Walk(D, s, d, B)  BY <1>1, WalkFacts DEF IndexOK
<1>3. /\ D \subseteq Text /\ \A p, q \in D : Common(p, q) \in D
      /\ \A p, q \in D : IsPrefix(p, q) => Descends(ix, p, q)
  BY <1>1, <1>2 DEF IndexOK, Tree
<1>4. /\ d \in D /\ IsPrefix(d, s) /\ B \subseteq D /\ B \subseteq Under(D, s, d)
      /\ \A q \in B : \A b \in Under(D, s, d) :
           IsPrefix(q, b) /\ Common(b, s) = Common(q, s)
      /\ Under(D, s, d) # {} => B # {}
  BY <1>2 DEF Walk, Under
<1>5. Len(s) \in Nat  BY PrefixOrder
<1> DEFINE H == {0} \cup {h.n : h \in {h \in Holds(ix, s) : h.w = w}}
           m == MatchWorker(ix, w, s)
<1>6. \A n : n \in H <=>
        \/ n = 0
        \/ \E p \in Along(ix, s) \cup B : w \in ix[p].workers /\ n = Len(Common(p, s))
  <2>1. \A h : h \in Holds(ix, s) <=>
          \E p \in Along(ix, s) \cup B :
            \E v \in ix[p].workers : h = [w |-> v, n |-> Len(Common(p, s))]
    BY <1>1 DEF Holds
  <2>2. ASSUME NEW p \in Along(ix, s) \cup B, w \in ix[p].workers
        PROVE  Len(Common(p, s)) \in H
    <3>1. PICK h : h = [w |-> w, n |-> Len(Common(p, s))]  OBVIOUS
    <3>2. h \in Holds(ix, s) /\ h.w = w /\ h.n = Len(Common(p, s))  BY <2>1, <2>2, <3>1
    <3> QED  BY <3>2
  <2>3. ASSUME NEW n \in H, n # 0
        PROVE  \E p \in Along(ix, s) \cup B : w \in ix[p].workers /\ n = Len(Common(p, s))
    <3>1. PICK h \in Holds(ix, s) : h.w = w /\ n = h.n  BY <2>3
    <3>2. PICK p \in Along(ix, s) \cup B :
            \E v \in ix[p].workers : h = [w |-> v, n |-> Len(Common(p, s))]
      BY <2>1
    <3>3. PICK v \in ix[p].workers : h = [w |-> v, n |-> Len(Common(p, s))]  BY <3>2
    <3>4. v = w /\ n = Len(Common(p, s))  BY <3>1, <3>3
    <3> QED  BY <3>4
  <2> QED  BY <2>2, <2>3
<1>7. m = CHOOSE x \in H : \A y \in H : x >= y  BY DEF MatchWorker, Max
<1> HIDE DEF H, m
<1>8. \A p \in Along(ix, s) \cup B : p \in D /\ p \in Text  BY <1>1, <1>3, <1>4 DEF Along
<1>9. ASSUME NEW p \in D
      PROVE  Common(p, s) \in Text /\ Len(Common(p, s)) \in 0 .. Len(s)
  <2>1. Common(p, s) \in Text /\ IsPrefix(Common(p, s), s)  BY <1>3, CommonFacts
  <2>2. Len(Common(p, s)) \in Nat /\ Len(Common(p, s)) <= Len(s)  BY <2>1, PrefixOrder
  <2> QED  BY <1>5, <2>1, <2>2
<1>10. H \in SUBSET (0 .. Len(s)) /\ H # {}
  <2>1. 0 \in H /\ 0 \in 0 .. Len(s)  BY <1>5, <1>6
  <2>2. \A n \in H : n \in 0 .. Len(s)  BY <1>6, <1>8, <1>9, <2>1
  <2> QED  BY <2>1, <2>2
<1>11. \E x \in H : \A y \in H : x >= y
  <2>1. PICK x \in H : \A y \in H : y <= x  BY <1>5, <1>10, GreatestElement
  <2>2. \A y \in H : y \in Int /\ x \in Int  BY <1>10
  <2> QED  BY <2>1, <2>2
<1>12. m \in H /\ \A y \in H : m >= y  BY <1>7, <1>11
<1>13. m \in 0 .. Len(s)  BY <1>10, <1>12
<1>14. m = 0 \/ \E p \in D : w \in ix[p].workers /\ m = Len(Common(p, s))
  BY <1>6, <1>8, <1>12
<1>15. ASSUME NEW p \in D, w \in ix[p].workers PROVE Len(Common(p, s)) <= m
  <2>1. p \in Text /\ d \in Text  BY <1>3, <1>4
  <2>2. PICK c \in Text : c = Common(p, s) /\ IsPrefix(c, p) /\ IsPrefix(c, s)
    BY <2>1, CommonFacts
  <2>3. PICK a \in Along(ix, s) \cup B : w \in ix[a].workers /\ Len(Common(a, s)) = Len(c)
    <3>1. CASE Len(c) <= Len(d)
      <4>1. IsPrefix(c, d)  BY <1>4, <2>1, <2>2, <3>1, PrefixOrder
      <4>2. PICK e \in D : e = Common(p, d) /\ e \in Text /\ IsPrefix(e, p) /\ IsPrefix(e, d)
        BY <1>3, <1>4, <2>1, CommonFacts
      <4>3. IsPrefix(c, e)  BY <2>1, <2>2, <4>1, <4>2, CommonFacts
      <4>4. IsPrefix(e, s)  BY <1>4, <2>1, <4>2, PrefixOrder
      <4>5. IsPrefix(e, c)  BY <2>1, <2>2, <4>2, <4>4, CommonFacts
      <4>6. e = c  BY <2>2, <4>2, <4>3, <4>5, PrefixOrder
      <4>7. e \in Along(ix, s)  BY <1>1, <4>2, <4>4 DEF Along
      <4>8. w \in ix[e].workers  BY <1>3, <1>15, <4>2 DEF Descends
      <4>9. Common(e, s) = e  BY <4>2, <4>4, CommonWhole
      <4> QED  BY <4>6, <4>7, <4>8, <4>9
    <3>2. CASE ~ (Len(c) <= Len(d))
      <4>1. Len(c) > Len(d)  BY <2>1, <2>2, <3>2, PrefixOrder
      <4>2. p \in Under(D, s, d)  BY <2>2, <4>1 DEF Under
      <4>3. PICK q \in B : IsPrefix(q, p) /\ Common(p, s) = Common(q, s)  BY <1>4, <4>2
      <4>4. w \in ix[q].workers  BY <1>3, <1>4, <1>15, <4>3 DEF Descends
      <4> QED  BY <2>2, <4>3, <4>4
    <3> QED  BY <3>1, <3>2
  <2>4. Len(c) \in H  BY <1>6, <2>3
  <2>5. m >= Len(c)  BY <1>12, <2>4
  <2>6. Len(c) \in Int /\ m \in Int  BY <1>10, <1>13, <2>4
  <2> QED  BY <2>2, <2>5, <2>6
<1> QED  BY <1>1, <1>13, <1>14, <1>15 DEF m
-------------------------------------------------------------------------------
(* Comparing two ratios across.                                            *)
LEMMA RatioOrder ==
  ASSUME NEW a \in Int, NEW b \in Int, NEW c \in Int,
         NEW x \in Int, NEW y \in Int, NEW z \in Int, x > 0, y > 0, z > 0,
         a * y <= b * x, b * z <= c * y
  PROVE  a * z <= c * x
<1>1. (a * y) * z <= (b * x) * z  OBVIOUS
<1>2. (b * z) * x <= (c * y) * x  OBVIOUS
<1>3. (b * x) * z = (b * z) * x  OBVIOUS
<1>4. (a * z) * y <= (c * x) * y  BY <1>1, <1>2, <1>3
<1>5. ASSUME a * z > c * x PROVE FALSE
  <2> DEFINE u == a * z
             v == c * x
  <2>1. u \in Int /\ v \in Int /\ u > v /\ u * y <= v * y  BY <1>4, <1>5
  <2> HIDE DEF u, v
  <2> QED  BY <2>1
<1> QED  BY <1>5

LEMMA RatioStrict ==
  ASSUME NEW a \in Int, NEW b \in Int, NEW c \in Int,
         NEW x \in Int, NEW y \in Int, NEW z \in Int, x > 0, y > 0, z > 0,
         a * y <= b * x, b * z <= c * y, a * y < b * x \/ b * z < c * y
  PROVE  a * z < c * x
<1>1. a * z \in Int /\ c * x \in Int /\ a * y \in Int /\ b * x \in Int
      /\ b * z \in Int /\ c * y \in Int
  OBVIOUS
<1> SUFFICES ASSUME c * x <= a * z PROVE FALSE  BY <1>1
<1>2. b * x <= a * y  BY RatioOrder
<1>3. c * y <= b * z  BY RatioOrder
<1> QED  BY <1>1, <1>2, <1>3

-------------------------------------------------------------------------------
(***************************************************************************)
(* Strengthening: what the index believes of a worker is on the way to a   *)
(* note it was given, and a note younger than the ttl has its own node.    *)
(***************************************************************************)
Believed ==
  \A p \in DOMAIN index : \A w \in index[p].workers :
    \E n \in told : n.w = w /\ IsPrefix(p, n.t)

FreshHeld ==
  \A n \in told : now - n.at <= Ttl =>
    n.t \in DOMAIN index /\ n.w \in index[n.t].workers /\ index[n.t].last >= n.at

RegistryOK ==
  /\ DOMAIN reg \subseteq Ids
  /\ \A w \in DOMAIN reg : /\ reg[w].load \in LoadsOf(w) \cup {FirstLoad(w)}
                          /\ reg[w].at \in 0 .. now

RouterInv ==
  /\ now \in 0 .. MaxTime
  /\ RegistryOK
  /\ IsMap(index) /\ IndexOK(index, now)
  /\ NodesBounded
  /\ told \subseteq [w : PrefillIds, t : Text, at : 0 .. now]
  /\ Believed /\ FreshHeld

(* What a load holds.                                                      *)
LEMMA Loads ==
  ASSUME RegistryOK
  PROVE  /\ \A w \in PrefillIds \cap DOMAIN reg :
              w \in Nat /\ reg[w].load.queued \in Nat /\ reg[w].load.rate \in Nat
         /\ \A w \in DecodeIds \cap DOMAIN reg :
              w \in Nat /\ reg[w].load.headroom \in Int /\ reg[w].load.util \in Nat
<1>1. ASSUME NEW w \in PrefillIds, w \in DOMAIN reg
      PROVE  w \in Nat /\ reg[w].load.queued \in Nat /\ reg[w].load.rate \in Nat
  <2>1. reg[w].load \in PrefillLoads \cup {[queued |-> 0, rate |-> DefaultRate]}
    BY <1>1 DEF RegistryOK, LoadsOf, FirstLoad
  <2>2. reg[w].load \in [queued : Nat, rate : Nat]
    BY <2>1, RouterAssumption
  <2> QED  BY <2>2, RouterAssumption
<1>2. ASSUME NEW w \in DecodeIds, w \in DOMAIN reg
      PROVE  w \in Nat /\ reg[w].load.headroom \in Int /\ reg[w].load.util \in Nat
  <2>1. w \in Nat /\ w \notin PrefillIds
    <3>1. w \in Nat /\ (w \in PrefillIds => w < w)  BY RouterAssumption
    <3> QED  BY <3>1
  <2>2. reg[w].load \in DecodeLoads \cup {[headroom |-> InitialCap, util |-> 0]}
    BY <1>2, <2>1 DEF RegistryOK, LoadsOf, FirstLoad
  <2>3. reg[w].load \in [headroom : Int, util : Nat]
    BY <2>2, RouterAssumption
  <2> QED  BY <2>1, <2>3
<1> QED  BY <1>1, <1>2

LEMMA CandidateTypes ==
  ASSUME RouterInv, NEW p \in Text
  PROVE  /\ IsFiniteSet(Live(PrefillIds)) /\ Live(PrefillIds) \subseteq PrefillIds
         /\ \A w \in Live(PrefillIds) :
              /\ w \in Nat /\ Rate(w) \in Nat \ {0} /\ Work(w, p) \in Nat
              /\ Work(w, p) = reg[w].load.queued + Len(p) - MatchWorker(index, w, p)
              /\ Rate(w) = IF reg[w].load.rate = 0 THEN DefaultRate ELSE reg[w].load.rate
<1>1. IsFiniteSet(PrefillIds)
  <2>1. PICK S : S = PrefillIds \cup DecodeIds /\ IsFiniteSet(S)  BY RouterAssumption
  <2>2. PrefillIds \in SUBSET S  BY <2>1
  <2> QED  BY <2>1, <2>2, FS_Subset
<1>2. Live(PrefillIds) \in SUBSET PrefillIds  BY DEF Live
<1>3. IsFiniteSet(Live(PrefillIds))  BY <1>1, <1>2, FS_Subset
<1>4. ASSUME NEW w \in Live(PrefillIds)
      PROVE  /\ w \in Nat /\ Rate(w) \in Nat \ {0} /\ Work(w, p) \in Nat
             /\ Work(w, p) = reg[w].load.queued + Len(p) - MatchWorker(index, w, p)
             /\ Rate(w) = IF reg[w].load.rate = 0 THEN DefaultRate ELSE reg[w].load.rate
  <2>1. w \in Nat /\ reg[w].load.queued \in Nat /\ reg[w].load.rate \in Nat
    BY Loads DEF Live, RouterInv
  <2>2. DefaultRate \in Nat \ {0} /\ MaxTime \in Nat  BY RouterAssumption
  <2>3. now \in Nat /\ IndexOK(index, now)  BY <2>2 DEF RouterInv
  <2>4. MatchWorker(index, w, p) \in 0 .. Len(p)  BY <2>3, MatchExact
  <2>5. Len(p) \in Nat  BY PrefixOrder
  <2>6. PICK m \in Nat, n \in Nat : m = MatchWorker(index, w, p) /\ n = Len(p) /\ m <= n
    BY <2>4, <2>5
  <2>7. Hit(w, p) = m
    <3>1. m \in {m, n} /\ \A y \in {m, n} : m =< y  BY <2>6
    <3>2. \A x \in {m, n} : (\A y \in {m, n} : x =< y) => x = m  BY <2>6
    <3>3. Min({m, n}) = m  BY <3>1, <3>2 DEF Min
    <3> QED  BY <2>6, <3>3 DEF Hit
  <2>8. Work(w, p) = reg[w].load.queued + (n - m)  BY <2>6, <2>7 DEF Work
  <2>9. Rate(w) = IF reg[w].load.rate > 0 THEN reg[w].load.rate ELSE DefaultRate  BY DEF Rate
  <2> QED  BY <2>1, <2>2, <2>6, <2>8, <2>9
<1> QED  BY <1>2, <1>3, <1>4

(* `better' puts all candidates in one order, and the first of them is     *)
(* picked.                                                                 *)
LEMMA PrefillPicked ==
  ASSUME RouterInv, NEW p \in Text, Live(PrefillIds) # {}
  PROVE  /\ PickPrefill(p) \in Live(PrefillIds)
         /\ \A v \in Live(PrefillIds) :
              Work(PickPrefill(p), p) * Rate(v) <= Work(v, p) * Rate(PickPrefill(p))
<1>1. PICK L : L = Live(PrefillIds)  OBVIOUS
<1>2. /\ IsFiniteSet(L) /\ L # {}
      /\ \A w \in L : w \in Nat /\ Rate(w) \in Nat \ {0} /\ Work(w, p) \in Nat
  BY <1>1, CandidateTypes
<1> DEFINE R == {e \in L \X L : Better(e[1], e[2], p)}
<1>3. ASSUME NEW w \in L, NEW v \in L
      PROVE  Better(w, v, p) <=> /\ Work(w, p) * Rate(v) <= Work(v, p) * Rate(w)
                                 /\ Work(w, p) * Rate(v) < Work(v, p) * Rate(w) \/ w < v
  <2>1. PICK a \in Int, b \in Int : a = Work(w, p) * Rate(v) /\ b = Work(v, p) * Rate(w)
    BY <1>2
  <2>2. Better(w, v, p) <=> a < b \/ (~ (b < a) /\ w < v)  BY <2>1 DEF Better, Cheaper
  <2> QED  BY <2>1, <2>2
<1>4. \A w, v \in L : <<w, v>> \in R <=> Better(w, v, p)  OBVIOUS
<1> HIDE DEF R
<1>5. ASSUME NEW w \in L, NEW v \in L, w # v PROVE <<w, v>> \in R \/ <<v, w>> \in R
  <2>1. PICK a \in Int, b \in Int : a = Work(w, p) * Rate(v) /\ b = Work(v, p) * Rate(w)
    BY <1>2
  <2>2. w \in Nat /\ v \in Nat  BY <1>2
  <2>3. Better(w, v, p) <=> a <= b /\ (a < b \/ w < v)  BY <1>3, <2>1
  <2>4. Better(v, w, p) <=> b <= a /\ (b < a \/ v < w)  BY <1>3, <2>1
  <2>5. Better(w, v, p) \/ Better(v, w, p)  BY <1>5, <2>1, <2>2, <2>3, <2>4
  <2> QED  BY <1>4, <2>5
<1>6. ASSUME NEW w \in L, NEW v \in L, NEW u \in L, <<w, v>> \in R, <<v, u>> \in R
      PROVE  <<w, u>> \in R
  <2>0. /\ Work(w, p) \in Int /\ Work(v, p) \in Int /\ Work(u, p) \in Int
        /\ Rate(w) \in Int /\ Rate(v) \in Int /\ Rate(u) \in Int
        /\ Rate(w) > 0 /\ Rate(v) > 0 /\ Rate(u) > 0
    BY <1>2
  <2>1. PICK a \in Int, b \in Int, c \in Int, x \in Int, y \in Int, z \in Int :
          /\ a = Work(w, p) /\ b = Work(v, p) /\ c = Work(u, p)
          /\ x = Rate(w) /\ y = Rate(v) /\ z = Rate(u) /\ x > 0 /\ y > 0 /\ z > 0
    BY <2>0, Zenon
  <2>2. a * y <= b * x /\ (a * y < b * x \/ w < v)  BY <1>3, <1>4, <1>6, <2>1
  <2>3. b * z <= c * y /\ (b * z < c * y \/ v < u)  BY <1>3, <1>4, <1>6, <2>1
  <2>4. a * z <= c * x
    <3>1. x > 0 /\ y > 0 /\ z > 0 /\ a * y <= b * x /\ b * z <= c * y  BY <2>1, <2>2, <2>3
    <3> QED  BY <3>1, RatioOrder
  <2>5. a * z < c * x \/ w < u
    <3>1. CASE a * y < b * x \/ b * z < c * y
      <4>1. x > 0 /\ y > 0 /\ z > 0 /\ a * y <= b * x /\ b * z <= c * y  BY <2>1, <2>2, <2>3
      <4> QED  BY <3>1, <4>1, RatioStrict
    <3>2. CASE w < v /\ v < u
      <4>1. w \in Nat /\ v \in Nat /\ u \in Nat  BY <1>2
      <4> QED  BY <3>2, <4>1
    <3> QED  BY <2>2, <2>3, <3>1, <3>2
  <2>6. Better(w, u, p)  BY <1>3, <2>1, <2>4, <2>5
  <2> QED  BY <1>4, <2>6
<1>7. PICK w \in L : \A v \in L \ {w} : <<w, v>> \in R
  BY <1>2, <1>5, <1>6, FirstExists
<1>8. \E x \in L : \A v \in L \ {x} : Better(x, v, p)  BY <1>4, <1>7
<1>9. PICK b \in L : b = PickPrefill(p) /\ \A v \in L \ {b} : Better(b, v, p)
  BY <1>1, <1>8 DEF PickPrefill
<1>10. ASSUME NEW v \in L PROVE Work(b, p) * Rate(v) <= Work(v, p) * Rate(b)
  <2>1. CASE v = b
    <3>1. Work(b, p) * Rate(b) \in Int  BY <1>2
    <3> QED  BY <2>1, <3>1
  <2>2. CASE v # b  BY <1>3, <1>9, <2>2
  <2> QED  BY <2>1, <2>2
<1> QED  BY <1>1, <1>9, <1>10

LEMMA DecodePicked ==
  ASSUME RouterInv, Live(DecodeIds) # {}
  PROVE  /\ PickDecode \in Live(DecodeIds)
         /\ \A e \in Live(DecodeIds) : DecodeHeadroom(PickDecode) >= DecodeHeadroom(e)
         /\ \A e \in Live(DecodeIds) : reg[e].load.headroom \in Int
<1>1. PICK L : L = Live(DecodeIds) /\ IsFiniteSet(L)
  <2>1. PICK S : S = PrefillIds \cup DecodeIds /\ IsFiniteSet(S)  BY RouterAssumption
  <2>2. Live(DecodeIds) \in SUBSET S  BY <2>1 DEF Live
  <2>3. IsFiniteSet(Live(DecodeIds))  BY <2>1, <2>2, FS_Subset
  <2> QED  BY <2>3
<1>2. ASSUME NEW w \in L
      PROVE  /\ w \in Nat /\ reg[w].load.headroom \in Int /\ reg[w].load.util \in Nat
             /\ DecodeHeadroom(w) \in Nat
  <2>1. w \in Nat /\ reg[w].load.headroom \in Int /\ reg[w].load.util \in Nat
    BY <1>1, Loads DEF Live, RouterInv
  <2>2. DecodeHeadroom(w) \in Nat  BY <2>1 DEF DecodeHeadroom
  <2> QED  BY <2>1, <2>2
<1> DEFINE R == {e \in L \X L : MoreRoom(e[1], e[2])}
<1>3. \A w, v \in L : <<w, v>> \in R <=> MoreRoom(w, v)  OBVIOUS
<1> HIDE DEF R
<1>4. ASSUME NEW w \in L, NEW v \in L, w # v PROVE <<w, v>> \in R \/ <<v, w>> \in R
  <2>1. MoreRoom(w, v) \/ MoreRoom(v, w)  BY <1>2, <1>4 DEF MoreRoom
  <2> QED  BY <1>3, <2>1
<1>5. ASSUME NEW w \in L, NEW v \in L, NEW u \in L, <<w, v>> \in R, <<v, u>> \in R
      PROVE  <<w, u>> \in R
  <2>1. MoreRoom(w, v) /\ MoreRoom(v, u)  BY <1>3, <1>5
  <2>2. MoreRoom(w, u)  BY <1>2, <2>1 DEF MoreRoom
  <2> QED  BY <1>3, <2>2
<1>6. PICK w \in L : \A v \in L \ {w} : <<w, v>> \in R
  BY <1>1, <1>4, <1>5, FirstExists
<1>7. \E x \in L : \A v \in L \ {x} : MoreRoom(x, v)  BY <1>3, <1>6
<1>8. PICK b \in L : b = PickDecode /\ \A v \in L \ {b} : MoreRoom(b, v)
  BY <1>1, <1>7 DEF PickDecode
<1>9. ASSUME NEW v \in L PROVE DecodeHeadroom(b) >= DecodeHeadroom(v)
  <2>1. DecodeHeadroom(b) \in Nat /\ DecodeHeadroom(v) \in Nat  BY <1>2
  <2>2. v # b => DecodeHeadroom(b) > DecodeHeadroom(v) \/ DecodeHeadroom(b) = DecodeHeadroom(v)
    BY <1>8 DEF MoreRoom
  <2> QED  BY <2>1, <2>2
<1> QED  BY <1>1, <1>2, <1>8, <1>9
-------------------------------------------------------------------------------
LEMMA RouteOfLive ==
  ASSUME RouterInv, NEW p \in Text, RouteOf(p) # NoDecision
  PROVE  /\ Live(PrefillIds) # {} /\ Live(DecodeIds) # {}
         /\ RouteOf(p).prefill = PickPrefill(p) /\ RouteOf(p).decode = PickDecode
         /\ RouteOf(p).late = Late(PickPrefill(p), p)
         /\ PickPrefill(p) \in Live(PrefillIds) /\ PickPrefill(p) \in PrefillIds
         /\ PickDecode \in Live(DecodeIds)
<1>1. Live(PrefillIds) # {} /\ Live(DecodeIds) # {}  BY DEF RouteOf
<1>2. RouteOf(p) = [prefill |-> PickPrefill(p), decode |-> PickDecode,
                    hit |-> Hit(PickPrefill(p), p), late |-> Late(PickPrefill(p), p)]
  BY <1>1 DEF RouteOf
<1>3. PickPrefill(p) \in Live(PrefillIds)  BY <1>1, PrefillPicked
<1>4. PickDecode \in Live(DecodeIds)  BY <1>1, DecodePicked
<1>5. PickPrefill(p) \in PrefillIds  BY <1>3 DEF Live
<1> QED  BY <1>1, <1>2, <1>3, <1>4, <1>5

LEMMA TimeFacts ==
  ASSUME now \in 0 .. MaxTime
  PROVE  now \in Nat /\ Ttl \in Nat /\ MaxTime \in Nat
BY RouterAssumption

(* The inductive invariant holds at first and is kept by every action.     *)
LEMMA RouterInitInv == RouterInit => RouterInv
<1> SUFFICES ASSUME RouterInit PROVE RouterInv  OBVIOUS
<1>1. now = 0 /\ index = Empty /\ told = {} /\ MaxTime \in Nat
  BY RouterAssumption DEF RouterInit
<1>2. RegistryOK
  <2>1. reg = [w \in Ids |-> [load |-> FirstLoad(w), at |-> 0]]  BY DEF RouterInit
  <2>2. ASSUME NEW w \in Ids
        PROVE  reg[w].load \in LoadsOf(w) \cup {FirstLoad(w)} /\ reg[w].at \in 0 .. now
    <3>1. reg[w] = [load |-> FirstLoad(w), at |-> 0]  BY <2>1
    <3> QED  BY <1>1, <3>1
  <2> QED  BY <2>1, <2>2 DEF RegistryOK
<1>3. /\ IsMap(index) /\ IndexOK(index, now) /\ DOMAIN index = {Root}
      /\ index[Root].workers = {} /\ Cardinality(DOMAIN index) = 1
  <2>1. 0 \in Nat  OBVIOUS
  <2> QED  BY <1>1, <2>1, EmptyOK
<1>4. NodesBounded  BY <1>3, RadixAssumption DEF NodesBounded
<1>5. Believed  BY <1>3 DEF Believed
<1>6. FreshHeld  BY <1>1 DEF FreshHeld
<1> QED  BY <1>1, <1>2, <1>3, <1>4, <1>5, <1>6 DEF RouterInv

LEMMA TickInv == RouterInv /\ Tick => RouterInv'
<1> SUFFICES ASSUME RouterInv, Tick PROVE RouterInv'  OBVIOUS
<1>1. /\ now' = now + 1 /\ now < MaxTime
      /\ reg' = reg /\ index' = index /\ told' = told
  BY DEF Tick
<1>2. now \in Nat /\ Ttl \in Nat /\ MaxTime \in Nat  BY TimeFacts DEF RouterInv
<1>3. now' \in 0 .. MaxTime /\ now' \in Nat /\ \A i \in 0 .. now : i \in 0 .. now'
  BY <1>1, <1>2
<1>4. RegistryOK'  BY <1>1, <1>3 DEF RouterInv, RegistryOK
<1>5. IsMap(index)' /\ NodesBounded'  BY <1>1 DEF RouterInv, IsMap, NodesBounded
<1>6. IndexOK(index', now')
  <2>1. /\ Tree(DOMAIN index)
        /\ \A p \in DOMAIN index : index[p] \in [workers : SUBSET PrefillIds, last : 0 .. now]
        /\ \A p, q \in DOMAIN index : IsPrefix(p, q) => Descends(index, p, q)
    BY DEF RouterInv, IndexOK
  <2>2. \A p \in DOMAIN index : index[p] \in [workers : SUBSET PrefillIds, last : 0 .. now']
    BY <1>3, <2>1
  <2> QED  BY <1>1, <2>1, <2>2 DEF IndexOK
<1>7. told' \subseteq [w : PrefillIds, t : Text, at : 0 .. now']
  <2>1. \A n \in told : n \in [w : PrefillIds, t : Text, at : 0 .. now]  BY DEF RouterInv
  <2>2. \A n \in told : n \in [w : PrefillIds, t : Text, at : 0 .. now']  BY <1>3, <2>1
  <2> QED  BY <1>1, <2>2
<1>8. Believed'  BY <1>1 DEF RouterInv, Believed
<1>9. FreshHeld'
  <2>1. ASSUME NEW n \in told, now' - n.at <= Ttl PROVE now - n.at <= Ttl
    <3>1. n.at \in 0 .. now  BY DEF RouterInv
    <3> QED  BY <1>1, <1>2, <2>1, <3>1
  <2> QED  BY <1>1, <2>1 DEF RouterInv, FreshHeld
<1> QED  BY <1>3, <1>4, <1>5, <1>6, <1>7, <1>8, <1>9 DEF RouterInv

(* Steps that leave the index, the notes and the clock alone.              *)
LEMMA IndexAlone ==
  ASSUME RouterInv, now' = now, index' = index, told' = told, RegistryOK'
  PROVE  RouterInv'
BY DEF RouterInv, IsMap, IndexOK, Tree, Descends, NodesBounded, Believed, FreshHeld

LEMMA ReportInv ==
  ASSUME RouterInv, NEW w \in Ids, Register(w) \/ Deregister(w) \/ UpdateLoad(w)
  PROVE  RouterInv'
<1>1. now' = now /\ index' = index /\ told' = told
  BY DEF Register, Deregister, UpdateLoad
<1>2. now \in 0 .. now /\ RegistryOK  BY TimeFacts DEF RouterInv
<1>3. CASE Register(w)
  <2>1. PICK l \in LoadsOf(w) :
          reg' = [v \in DOMAIN reg \cup {w} |->
                    IF v = w THEN [load |-> l, at |-> now] ELSE reg[v]]
    BY <1>3 DEF Register
  <2>2. RegistryOK'  BY <1>1, <1>2, <2>1 DEF RegistryOK
  <2> QED  BY <1>1, <2>2, IndexAlone
<1>4. CASE Deregister(w)
  <2>1. reg' = [v \in DOMAIN reg \ {w} |-> reg[v]]  BY <1>4 DEF Deregister, Restrict
  <2>2. RegistryOK'  BY <1>1, <1>2, <2>1 DEF RegistryOK
  <2> QED  BY <1>1, <2>2, IndexAlone
<1>5. CASE UpdateLoad(w)
  <2>1. PICK l \in LoadsOf(w) : reg' = [reg EXCEPT ![w] = [load |-> l, at |-> now]]
    BY <1>5 DEF UpdateLoad
  <2>2. RegistryOK'  BY <1>1, <1>2, <2>1 DEF RegistryOK
  <2> QED  BY <1>1, <2>2, IndexAlone
<1> QED  BY <1>3, <1>4, <1>5

LEMMA NoteInv ==
  ASSUME RouterInv, NEW p \in Prompts, RouteAndNote(p)
  PROVE  RouterInv'
<1>1. now' = now /\ reg' = reg  BY DEF RouteAndNote
<1>2. p \in Text  BY RouterAssumption DEF Text
<1>3. now \in Nat /\ Ttl \in Nat /\ now \in 0 .. now  BY TimeFacts DEF RouterInv
<1>4. RegistryOK'  BY <1>1 DEF RouterInv, RegistryOK
<1>5. CASE index' = index /\ told' = told  BY <1>1, <1>4, <1>5, IndexAlone
<1>6. CASE ~ (index' = index /\ told' = told)
  <2>1. RouteOf(p) # NoDecision /\ Accepts(index, p)
    BY <1>6 DEF RouteAndNote, Insert
  <2>2. PICK w \in PrefillIds : w = RouteOf(p).prefill  BY <1>2, <2>1, RouteOfLive
  <2>3. PICK jx : jx = Insert(index, w, p, now) /\ index' = jx
    BY <2>1, <2>2 DEF RouteAndNote
  <2>4. PICK n0 : n0 = [w |-> w, t |-> p, at |-> now] /\ told' = told \cup {n0}
    BY <2>1, <2>2 DEF RouteAndNote
  <2>5. IndexOK(index, now)  BY DEF RouterInv
  <2>6. /\ IndexOK(jx, now)
        /\ Cardinality(DOMAIN jx) <= Cardinality(DOMAIN index) + 2
        /\ \A x \in DOMAIN index : /\ x \in DOMAIN jx /\ index[x].workers \subseteq jx[x].workers
                                   /\ index[x].last <= jx[x].last
        /\ p \in DOMAIN jx /\ w \in jx[p].workers /\ jx[p].last = now
        /\ \A x \in DOMAIN jx : \A v \in jx[x].workers :
             \/ v = w /\ IsPrefix(x, p)
             \/ \E y \in DOMAIN index : IsPrefix(x, y) /\ v \in index[y].workers
    BY <1>2, <1>3, <2>1, <2>3, <2>5, InsertOK
  <2>7. IsMap(jx)  BY <2>1, <2>3 DEF Insert, IsMap
  <2>8. NodesBounded'
    <3>1. IsFiniteSet(DOMAIN index) /\ IsFiniteSet(DOMAIN jx)
      BY <2>5, <2>6 DEF IndexOK, Tree
    <3>2. Cardinality(DOMAIN index) \in Nat /\ Cardinality(DOMAIN jx) \in Nat
      BY <3>1, FS_CardinalityType
    <3>3. Cardinality(DOMAIN index) < MaxNodes /\ MaxNodes \in Nat
      BY <2>1, RadixAssumption DEF Accepts
    <3>4. Cardinality(DOMAIN jx) <= MaxNodes + 1  BY <2>6, <3>2, <3>3
    <3> QED  BY <2>3, <3>4 DEF NodesBounded
  <2>9. told' \subseteq [w : PrefillIds, t : Text, at : 0 .. now']
    <3>1. n0 \in [w : PrefillIds, t : Text, at : 0 .. now]  BY <1>2, <1>3, <2>4
    <3>2. told \subseteq [w : PrefillIds, t : Text, at : 0 .. now]  BY DEF RouterInv
    <3> QED  BY <1>1, <2>4, <3>1, <3>2
  <2>10. ASSUME NEW x \in DOMAIN jx, NEW v \in jx[x].workers
         PROVE  \E n \in told' : n.w = v /\ IsPrefix(x, n.t)
    <3>1. CASE v = w /\ IsPrefix(x, p)
      <4>1. n0 \in told' /\ n0.w = v /\ IsPrefix(x, n0.t)  BY <2>4, <3>1
      <4> QED  BY <4>1
    <3>2. ASSUME NEW y \in DOMAIN index, IsPrefix(x, y), v \in index[y].workers
          PROVE  \E n \in told' : n.w = v /\ IsPrefix(x, n.t)
      <4>1. PICK n \in told : n.w = v /\ IsPrefix(y, n.t)  BY <3>2 DEF RouterInv, Believed
      <4>2. n.t \in Text  BY DEF RouterInv
      <4>3. x \in Text /\ y \in Text  BY <2>5, <2>6 DEF IndexOK, Tree
      <4>4. IsPrefix(x, n.t)  BY <3>2, <4>1, <4>2, <4>3, PrefixOrder
      <4> QED  BY <2>4, <4>1, <4>4
    <3> QED  BY <2>6, <3>1, <3>2
  <2>11. Believed'  BY <2>3, <2>10 DEF Believed
  <2>12. ASSUME NEW n \in told', now' - n.at <= Ttl
         PROVE  n.t \in DOMAIN jx /\ n.w \in jx[n.t].workers /\ jx[n.t].last >= n.at
    <3>1. CASE n = n0
      <4>1. n.t = p /\ n.w = w /\ n.at = now  BY <2>4, <3>1
      <4>2. jx[n.t].last = now /\ now >= now  BY <1>3, <2>6, <4>1
      <4> QED  BY <2>6, <4>1, <4>2
    <3>2. CASE n \in told
      <4>1. n.t \in DOMAIN index /\ n.w \in index[n.t].workers /\ index[n.t].last >= n.at
        BY <1>1, <2>12, <3>2 DEF RouterInv, FreshHeld
      <4>2. /\ n.t \in DOMAIN jx /\ index[n.t].workers \subseteq jx[n.t].workers
            /\ index[n.t].last <= jx[n.t].last
        BY <2>6, <4>1
      <4>3. n.at \in 0 .. now  BY <3>2 DEF RouterInv
      <4>4. index[n.t].last \in 0 .. now /\ jx[n.t].last \in 0 .. now
        BY <2>5, <2>6, <4>1, <4>2 DEF IndexOK
      <4>5. jx[n.t].last >= n.at  BY <1>3, <4>1, <4>2, <4>3, <4>4
      <4> QED  BY <4>1, <4>2, <4>5
    <3> QED  BY <2>4, <3>1, <3>2
  <2>13. FreshHeld'  BY <2>3, <2>12 DEF FreshHeld
  <2>14. IsMap(index)' /\ IndexOK(index', now') /\ now' \in 0 .. MaxTime
    BY <1>1, <2>3, <2>6, <2>7 DEF RouterInv, IsMap
  <2> QED  BY <1>4, <2>8, <2>9, <2>11, <2>13, <2>14 DEF RouterInv
<1> QED  BY <1>5, <1>6

LEMMA ForgetInv ==
  ASSUME RouterInv, NEW w \in PrefillIds, Forget(w)
  PROVE  RouterInv'
<1>1. now' = now /\ reg' = reg /\ told' = {n \in told : n.w # w}  BY DEF Forget
<1>2. now \in Nat /\ IndexOK(index, now)  BY TimeFacts DEF RouterInv
<1>3. PICK jx : jx = ForgetWorker(index, w) /\ index' = jx  BY DEF Forget
<1>4. /\ IsMap(jx) /\ IndexOK(jx, now) /\ DOMAIN jx = DOMAIN index
      /\ \A x \in DOMAIN index :
           jx[x].workers = index[x].workers \ {w} /\ jx[x].last = index[x].last
  BY <1>2, <1>3, ForgetOK
<1>5. RegistryOK'  BY <1>1 DEF RouterInv, RegistryOK
<1>6. NodesBounded'  BY <1>3, <1>4 DEF RouterInv, NodesBounded
<1>7. told' \subseteq [w : PrefillIds, t : Text, at : 0 .. now']
  BY <1>1 DEF RouterInv
<1>8. Believed'
  <2>1. ASSUME NEW x \in DOMAIN jx, NEW v \in jx[x].workers
        PROVE  \E n \in told' : n.w = v /\ IsPrefix(x, n.t)
    <3>1. x \in DOMAIN index /\ v \in index[x].workers /\ v # w  BY <1>4
    <3>2. PICK n \in told : n.w = v /\ IsPrefix(x, n.t)  BY <3>1 DEF RouterInv, Believed
    <3> QED  BY <1>1, <3>1, <3>2
  <2> QED  BY <1>3, <2>1 DEF Believed
<1>9. FreshHeld'
  <2>1. ASSUME NEW n \in told', now' - n.at <= Ttl
        PROVE  n.t \in DOMAIN jx /\ n.w \in jx[n.t].workers /\ jx[n.t].last >= n.at
    <3>1. n \in told /\ n.w # w /\ now - n.at <= Ttl  BY <1>1, <2>1
    <3>2. n.t \in DOMAIN index /\ n.w \in index[n.t].workers /\ index[n.t].last >= n.at
      BY <3>1 DEF RouterInv, FreshHeld
    <3> QED  BY <1>4, <3>1, <3>2
  <2> QED  BY <1>3, <2>1 DEF FreshHeld
<1>10. IsMap(index)' /\ IndexOK(index', now') /\ now' \in 0 .. MaxTime
  BY <1>1, <1>3, <1>4 DEF RouterInv, IsMap
<1> QED  BY <1>5, <1>6, <1>7, <1>8, <1>9, <1>10 DEF RouterInv

LEMMA PruneInv ==
  ASSUME RouterInv, PruneIndex
  PROVE  RouterInv'
<1>1. now' = now /\ reg' = reg /\ told' = told  BY DEF PruneIndex
<1>2. now \in Nat /\ Ttl \in Nat /\ IsMap(index) /\ IndexOK(index, now)
  BY TimeFacts DEF RouterInv
<1>3. PICK jx : jx = Prune(index, now, Ttl) /\ index' = jx  BY DEF PruneIndex
<1>4. IsMap(jx) /\ IndexOK(jx, now) /\ Kept(index, jx, now, Ttl)  BY <1>2, <1>3, PruneOK
<1>5. RegistryOK'  BY <1>1 DEF RouterInv, RegistryOK
<1>6. /\ DOMAIN jx \subseteq DOMAIN index /\ \A x \in DOMAIN jx : jx[x] = index[x]
      /\ \A x \in DOMAIN index : ~ Expired(index[x], now, Ttl) => x \in DOMAIN jx
  BY <1>4 DEF Kept
<1>7. NodesBounded'
  <2>1. PICK D, E : D = DOMAIN index /\ E = DOMAIN jx  OBVIOUS
  <2>2. IsFiniteSet(D) /\ E \in SUBSET D  BY <1>2, <1>6, <2>1 DEF IndexOK, Tree
  <2>3. IsFiniteSet(E) /\ Cardinality(E) <= Cardinality(D)  BY <2>2, FS_Subset
  <2>4. Cardinality(D) \in Nat /\ Cardinality(E) \in Nat  BY <2>2, <2>3, FS_CardinalityType
  <2>5. Cardinality(D) <= MaxNodes + 1 /\ MaxNodes \in Nat
    BY <2>1, RadixAssumption DEF RouterInv, NodesBounded
  <2>6. Cardinality(E) <= MaxNodes + 1  BY <2>3, <2>4, <2>5
  <2> QED  BY <1>3, <2>1, <2>6 DEF NodesBounded
<1>8. Believed'
  <2>1. \A x \in DOMAIN jx : \A v \in jx[x].workers :
          \E n \in told : n.w = v /\ IsPrefix(x, n.t)
    BY <1>6 DEF RouterInv, Believed
  <2> QED  BY <1>1, <1>3, <2>1 DEF Believed
<1>9. FreshHeld'
  <2>1. ASSUME NEW n \in told, now - n.at <= Ttl
        PROVE  n.t \in DOMAIN jx /\ n.w \in jx[n.t].workers /\ jx[n.t].last >= n.at
    <3>1. n.t \in DOMAIN index /\ n.w \in index[n.t].workers /\ index[n.t].last >= n.at
      BY <2>1 DEF RouterInv, FreshHeld
    <3>2. n.at \in 0 .. now  BY DEF RouterInv
    <3>3. index[n.t].last \in 0 .. now  BY <1>2, <3>1 DEF IndexOK
    <3>4. ~ (now - index[n.t].last > Ttl)  BY <1>2, <2>1, <3>1, <3>2, <3>3
    <3>5. n.t \in DOMAIN jx  BY <1>6, <3>1, <3>4 DEF Expired
    <3> QED  BY <1>6, <3>1, <3>5
  <2> QED  BY <1>1, <1>3, <2>1 DEF FreshHeld
<1>10. IsMap(index)' /\ IndexOK(index', now') /\ now' \in 0 .. MaxTime
       /\ told' \subseteq [w : PrefillIds, t : Text, at : 0 .. now']
  BY <1>1, <1>3, <1>4 DEF RouterInv, IsMap
<1> QED  BY <1>5, <1>7, <1>8, <1>9, <1>10 DEF RouterInv

LEMMA ClearInv ==
  ASSUME RouterInv, Clear
  PROVE  RouterInv'
<1>1. now' = now /\ reg' = reg /\ told' = {}  BY DEF Clear
<1>2. now \in Nat  BY TimeFacts DEF RouterInv
<1>3. PICK jx : jx = Empty /\ index' = jx  BY DEF Clear
<1>4. /\ IsMap(jx) /\ IndexOK(jx, now) /\ DOMAIN jx = {Root}
      /\ jx[Root].workers = {} /\ Cardinality(DOMAIN jx) = 1
  BY <1>2, <1>3, EmptyOK
<1>5. RegistryOK'  BY <1>1 DEF RouterInv, RegistryOK
<1>6. NodesBounded'  BY <1>3, <1>4, RadixAssumption DEF NodesBounded
<1>7. Believed'  BY <1>3, <1>4 DEF Believed
<1>8. FreshHeld'  BY <1>1 DEF FreshHeld
<1>9. IsMap(index)' /\ IndexOK(index', now') /\ now' \in 0 .. MaxTime
      /\ told' \subseteq [w : PrefillIds, t : Text, at : 0 .. now']
  BY <1>1, <1>3, <1>4 DEF RouterInv, IsMap
<1> QED  BY <1>5, <1>6, <1>7, <1>8, <1>9 DEF RouterInv

LEMMA RouterStep == RouterInv /\ [RouterNext]_routerVars => RouterInv'
<1> SUFFICES ASSUME RouterInv, [RouterNext]_routerVars PROVE RouterInv'  OBVIOUS
<1>1. CASE Tick  BY <1>1, TickInv
<1>2. CASE PruneIndex  BY <1>2, PruneInv
<1>3. CASE Clear  BY <1>3, ClearInv
<1>4. ASSUME NEW w \in Ids, Register(w) \/ Deregister(w) \/ UpdateLoad(w) PROVE RouterInv'
  BY <1>4, ReportInv
<1>5. ASSUME NEW p \in Prompts, RouteAndNote(p) PROVE RouterInv'  BY <1>5, NoteInv
<1>6. ASSUME NEW w \in PrefillIds, Forget(w) PROVE RouterInv'  BY <1>6, ForgetInv
<1>7. CASE UNCHANGED routerVars
  <2>1. now' = now /\ reg' = reg /\ index' = index /\ told' = told
    BY <1>7 DEF routerVars
  <2>2. RegistryOK'  BY <2>1 DEF RouterInv, RegistryOK
  <2> QED  BY <2>1, <2>2, IndexAlone
<1> QED  BY <1>1, <1>2, <1>3, <1>4, <1>5, <1>6, <1>7 DEF RouterNext
-------------------------------------------------------------------------------
(* The inductive invariant, for every behaviour.                           *)
LEMMA RouterInvariant == RouterSpec => []RouterInv
<1>1. RouterInit => RouterInv  BY RouterInitInv
<1>2. RouterInv /\ [RouterNext]_routerVars => RouterInv'  BY RouterStep
<1> QED  BY <1>1, <1>2, PTL DEF RouterSpec

(***************************************************************************)
(* The registry and the index keep their types, and the cap of insert() is *)
(* exceeded by at most one node (radix.rs insert, registry.rs).            *)
(***************************************************************************)
THEOREM IndexBoundedTheorem == RouterSpec => []IndexBounded
<1>1. ASSUME RouterInv PROVE IndexBounded
  <2>1. /\ now \in 0 .. MaxTime /\ RegistryOK /\ NodesBounded /\ IndexOK(index, now)
    BY <1>1 DEF RouterInv
  <2>2. Root \in DOMAIN index  BY <2>1 DEF IndexOK, Tree
  <2>3. \A p \in DOMAIN index : index[p].workers \subseteq PrefillIds /\ index[p].last \in 0 .. now
    BY <2>1 DEF IndexOK
  <2> QED  BY <2>1, <2>2, <2>3 DEF IndexBounded, RouterTypeOK, RegistryOK
<1> QED  BY <1>1, RouterInvariant, PTL

(* A prefix of a prompt is a text.                                         *)
LEMMA StringsAreTexts == \A s \in Strings : s \in Text
<1> SUFFICES ASSUME NEW s \in Strings PROVE s \in Text  OBVIOUS
<1>1. PICK p \in Prompts : s \in {SubSeq(p, 1, n) : n \in 0 .. Len(p)}  BY DEF Strings
<1>2. PICK n \in 0 .. Len(p) : s = SubSeq(p, 1, n)  BY <1>1
<1>3. p \in Seq(Nat)  BY RouterAssumption
<1>4. Len(p) \in Nat  BY <1>3, LenProperties
<1>5. SubSeq(p, 1, n) \in Seq(Nat)  BY <1>3, <1>4, SubSeqProperties
<1> QED  BY <1>2, <1>5 DEF Text

(***************************************************************************)
(* Whatever is noted, forgotten, pruned and cleared, and in which order,   *)
(* the index stays a radix tree, credits no worker with more of a prompt   *)
(* than a note gave it, and with all of it while the note is younger than  *)
(* the ttl (radix.rs insert, match_workers, prune).                        *)
(***************************************************************************)
THEOREM IndexFaithfulTheorem == RouterSpec => []IndexFaithful
<1>1. ASSUME RouterInv PROVE IndexFaithful
  <2>1. now \in Nat /\ IndexOK(index, now)  BY <1>1, TimeFacts DEF RouterInv
  <2>2. \A n \in told : n.w \in PrefillIds /\ n.t \in Text /\ n.at \in 0 .. now
    BY <1>1 DEF RouterInv
  <2>3. TreeSound
    BY <2>1 DEF IndexOK, Tree, Descends, TreeSound
  <2>4. ASSUME NEW w \in PrefillIds, NEW s \in Strings
        PROVE  MatchWorker(index, w, s) <=
                 Max({0} \cup {Len(Common(n.t, s)) : n \in {n \in told : n.w = w}})
    <3> DEFINE T == {0} \cup {Len(Common(n.t, s)) : n \in {n \in told : n.w = w}}
    <3>1. s \in Text /\ Len(s) \in Nat  BY StringsAreTexts, PrefixOrder
    <3>2. ASSUME NEW n \in told PROVE Len(Common(n.t, s)) \in 0 .. Len(s)
      <4>1. Common(n.t, s) \in Text /\ IsPrefix(Common(n.t, s), s)  BY <2>2, <3>1, CommonFacts
      <4>2. Len(Common(n.t, s)) \in Nat /\ Len(Common(n.t, s)) <= Len(s)
        BY <3>1, <4>1, PrefixOrder
      <4> QED  BY <3>1, <4>2
    <3>3. T \in SUBSET (0 .. Len(s)) /\ T # {} /\ 0 \in T
      <4>1. 0 \in 0 .. Len(s)  BY <3>1
      <4>2. \A x \in T : x \in 0 .. Len(s)  BY <3>2, <4>1
      <4> QED  BY <4>2
    <3>4. \A n \in told : n.w = w => Len(Common(n.t, s)) \in T  OBVIOUS
    <3> HIDE DEF T
    <3>5. PICK g \in T : \A y \in T : y <= g  BY <3>1, <3>3, GreatestElement
    <3>6. \A y \in T : y \in Int /\ g \in Int  BY <3>3
    <3>7. \E x \in T : \A y \in T : x >= y  BY <3>5, <3>6
    <3>8. Max(T) \in T /\ \A y \in T : Max(T) >= y  BY <3>7 DEF Max
    <3>9. PICK m \in Nat : m = MatchWorker(index, w, s)
      <4>1. MatchWorker(index, w, s) \in 0 .. Len(s)  BY <2>1, <3>1, MatchExact
      <4>2. MatchWorker(index, w, s) \in Nat  BY <3>1, <4>1
      <4> QED  BY <4>2
    <3>10. PICK M \in Nat : M = Max(T) /\ \A y \in T : M >= y
      <4>1. PICK x : x = Max(T) /\ x \in T  BY <3>8
      <4>2. x \in 0 .. Len(s)  BY <3>3, <4>1
      <4>3. x \in Nat  BY <3>1, <4>2
      <4> QED  BY <3>8, <4>1, <4>3
    <3>11. CASE m = 0  BY <3>9, <3>10, <3>11 DEF T
    <3>12. CASE m # 0
      <4>1. PICK p \in DOMAIN index : w \in index[p].workers /\ m = Len(Common(p, s))
        BY <2>1, <3>1, <3>9, <3>12, MatchExact
      <4>2. PICK n \in told : n.w = w /\ IsPrefix(p, n.t)
        BY <1>1, <4>1 DEF RouterInv, Believed
      <4>3. p \in Text /\ n.t \in Text  BY <2>1, <2>2 DEF IndexOK, Tree
      <4>4. PICK c \in Text : c = Common(p, s) /\ IsPrefix(c, p) /\ IsPrefix(c, s)
        BY <3>1, <4>3, CommonFacts
      <4>5. PICK e \in Text : e = Common(n.t, s)  BY <3>1, <4>3, CommonFacts
      <4>6. IsPrefix(c, n.t)  BY <4>2, <4>3, <4>4, PrefixOrder
      <4>7. IsPrefix(c, e)  BY <3>1, <4>3, <4>4, <4>5, <4>6, CommonFacts
      <4>8. Len(c) <= Len(e) /\ Len(e) \in Nat /\ Len(c) \in Nat  BY <4>7, PrefixOrder
      <4>9. M >= Len(e)  BY <3>4, <3>10, <4>2, <4>5
      <4>10. m <= M  BY <3>9, <3>10, <4>1, <4>4, <4>8, <4>9
      <4> QED  BY <3>9, <3>10, <4>10 DEF T
    <3> QED  BY <3>11, <3>12
  <2>5. ASSUME NEW n \in told, now - n.at <= Ttl, NEW s \in Strings
        PROVE  MatchWorker(index, n.w, s) >= Len(Common(n.t, s))
    <3>1. s \in Text /\ Len(s) \in Nat  BY StringsAreTexts, PrefixOrder
    <3>2. n.t \in DOMAIN index /\ n.w \in index[n.t].workers
      BY <1>1, <2>5 DEF RouterInv, FreshHeld
    <3>3. PICK m \in Nat : m = MatchWorker(index, n.w, s) /\ Len(Common(n.t, s)) <= m
      BY <2>1, <3>1, <3>2, MatchExact
    <3>4. Len(Common(n.t, s)) \in Nat  BY <2>2, <3>1, CommonFacts, PrefixOrder
    <3> QED  BY <3>3, <3>4
  <2>6. NeverOverclaims  BY <2>4 DEF NeverOverclaims
  <2>7. FreshIsKnown  BY <2>5 DEF FreshIsKnown
  <2> QED  BY <2>3, <2>6, <2>7 DEF IndexFaithful
<1> QED  BY <1>1, RouterInvariant, PTL

(***************************************************************************)
(* route() picks live workers, the prefill worker that would answer first  *)
(* by its own prediction and the decode worker with the most room, and     *)
(* warns of a late answer only if no live worker would be in time          *)
(* (policy.rs route): whatever the queues, rates and prefix matches.       *)
(***************************************************************************)
THEOREM RoutedWellTheorem == RouterSpec => []RoutedWell
<1>1. ASSUME RouterInv PROVE RoutedWell
  <2> SUFFICES ASSUME NEW p \in Prompts, RouteOf(p) # NoDecision
      PROVE  LET fresh(ws) == {v \in ws \cap DOMAIN reg : now - reg[v].at <= StaleAfter}
                 tokens(v) == reg[v].load.queued + Len(p) - MatchWorker(index, v, p)
                 rate(v) == IF reg[v].load.rate = 0 THEN DefaultRate ELSE reg[v].load.rate
                 d == RouteOf(p)
             IN /\ d.prefill \in fresh(PrefillIds) /\ d.decode \in fresh(DecodeIds)
                /\ \A v \in fresh(PrefillIds) :
                     /\ tokens(d.prefill) * rate(v) <= tokens(v) * rate(d.prefill)
                     /\ d.late => tokens(v) > (TtftBudget - KvTransfer) * rate(v)
                /\ \A e \in fresh(DecodeIds) :
                     reg[e].load.headroom > 0 =>
                       reg[d.decode].load.headroom >= reg[e].load.headroom
    BY DEF RoutedWell
  <2> DEFINE fresh(ws) == {v \in ws \cap DOMAIN reg : now - reg[v].at <= StaleAfter}
             tokens(v) == reg[v].load.queued + Len(p) - MatchWorker(index, v, p)
             rate(v) == IF reg[v].load.rate = 0 THEN DefaultRate ELSE reg[v].load.rate
  <2>1. p \in Text  BY RouterAssumption DEF Text
  <2>2. PICK d : d = RouteOf(p)  OBVIOUS
  <2>3. PICK w, e : w = PickPrefill(p) /\ e = PickDecode  OBVIOUS
  <2>4. /\ Live(PrefillIds) # {} /\ Live(DecodeIds) # {}
        /\ d.prefill = w /\ d.decode = e /\ d.late = Late(w, p)
        /\ w \in Live(PrefillIds) /\ e \in Live(DecodeIds)
    BY <1>1, <2>1, <2>2, <2>3, RouteOfLive
  <2>5. fresh(PrefillIds) = Live(PrefillIds) /\ fresh(DecodeIds) = Live(DecodeIds)
    BY DEF Live
  <2>6. \A v \in Live(PrefillIds) :
          /\ Rate(v) \in Nat \ {0} /\ Work(v, p) \in Nat
          /\ Work(v, p) = tokens(v) /\ Rate(v) = rate(v)
    BY <1>1, <2>1, CandidateTypes
  <2>7. \A v \in Live(PrefillIds) : Work(w, p) * Rate(v) <= Work(v, p) * Rate(w)
    BY <1>1, <2>1, <2>3, <2>4, PrefillPicked
  <2> HIDE DEF fresh, tokens, rate
  <2>8. ASSUME NEW v \in Live(PrefillIds), d.late
        PROVE  Work(v, p) > (TtftBudget - KvTransfer) * Rate(v)
    <3>1. TtftBudget \in Nat /\ KvTransfer \in Nat  BY RouterAssumption
    <3>2. PICK K \in Int : K = TtftBudget - KvTransfer  BY <3>1
    <3>3. /\ Work(w, p) \in Int /\ Work(v, p) \in Int
          /\ Rate(w) \in Int /\ Rate(v) \in Int /\ Rate(w) > 0 /\ Rate(v) > 0
      BY <2>4, <2>6
    <3>4. PICK a \in Int, b \in Int, x \in Int, y \in Int :
            /\ a = Work(w, p) /\ b = Work(v, p) /\ x = Rate(w) /\ y = Rate(v)
            /\ x > 0 /\ y > 0
      BY <3>3, Zenon
    <3>5. a * y <= b * x  BY <2>7, <3>4
    <3>6. a > K * x
      <4>1. a + KvTransfer * x > TtftBudget * x  BY <2>4, <2>8, <3>4 DEF Late
      <4>2. K * x = TtftBudget * x - KvTransfer * x  BY <3>1, <3>2
      <4>3. KvTransfer * x \in Int /\ TtftBudget * x \in Int  BY <3>1
      <4> QED  BY <4>1, <4>2, <4>3
    <3>7. ASSUME b <= K * y PROVE FALSE
      <4>1. b * 1 <= K * y /\ 1 \in Int /\ 1 > 0  BY <3>7
      <4>2. a * 1 <= K * x  BY <3>4, <3>5, <4>1, RatioOrder
      <4>3. K * x \in Int  OBVIOUS
      <4> QED  BY <3>6, <4>2, <4>3
    <3>8. K * y \in Int  OBVIOUS
    <3>9. b > K * y  BY <3>7, <3>8
    <3> QED  BY <3>2, <3>4, <3>9
  <2>9. ASSUME NEW f \in Live(DecodeIds), reg[f].load.headroom > 0
        PROVE  reg[e].load.headroom >= reg[f].load.headroom
    <3>1. DecodeHeadroom(e) >= DecodeHeadroom(f)  BY <1>1, <2>3, <2>4, DecodePicked
    <3>2. reg[e].load.headroom \in Int /\ reg[f].load.headroom \in Int
      BY <1>1, <2>4, DecodePicked
    <3> QED  BY <2>9, <3>1, <3>2 DEF DecodeHeadroom
  <2>10. \A v \in fresh(PrefillIds) :
           /\ tokens(d.prefill) * rate(v) <= tokens(v) * rate(d.prefill)
           /\ d.late => tokens(v) > (TtftBudget - KvTransfer) * rate(v)
    BY <2>4, <2>5, <2>6, <2>7, <2>8
  <2>11. d.prefill \in fresh(PrefillIds) /\ d.decode \in fresh(DecodeIds)
    BY <2>4, <2>5
  <2>12. \A f \in fresh(DecodeIds) :
           reg[f].load.headroom > 0 => reg[d.decode].load.headroom >= reg[f].load.headroom
    BY <2>4, <2>5, <2>9
  <2> QED  BY <2>2, <2>10, <2>11, <2>12 DEF fresh, tokens, rate
<1> QED  BY <1>1, RouterInvariant, PTL
===============================================================================
