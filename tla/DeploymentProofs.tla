--------------------------- MODULE DeploymentProofs ---------------------------
(***************************************************************************)
(* Proofs about Deployment, for any finite set of requests, any answer     *)
(* lengths, any channel depth and any number of losses.                    *)
(***************************************************************************)
EXTENDS Deployment, SequenceTheorems, TLAPS

Chunks == {Token(n) : n \in Nat} \cup Terminal
Todo == {"first", "admit", "done", "error"}
Hands(T) == {NoHand} \cup [r : Requests, todo : T]

(* What each client has been sent, what is queued for it in events, and    *)
(* the requests whose completion is queued.                                *)
streams == [r \in Requests |-> Stream(r)]
queued ==
  [r \in Requests |->
     {c \in Chunks : \E k \in 1 .. Len(events) : events[k].r = r /\ events[k].chunk = c}]
waiting == {r \in Requests : \E i \in 1 .. Len(pdone) : pdone[i] = r}

(* The types of what TypeOK leaves open.                                   *)
ChannelTypes ==
  /\ emitted \in [Requests -> Nat]
  /\ chan \in [Requests -> Seq(Chunks)] /\ got \in [Requests -> Seq(Chunks)]
  /\ events \in Seq([r : Requests, chunk : Chunks])
  /\ handP \in Hands(Todo) /\ handD \in Hands(Chunks)

(* A completion is queued once.                                            *)
QueuedOnce ==
  \A i, j \in 1 .. Len(pdone) : pdone[i] = pdone[j] => i = j

(* The events of a request are tokens in their order, then its end.        *)
Before(c, d) ==
  \E n \in Nat : c = Token(n) /\ (d = Done \/ \E m \in Nat : d = Token(m) /\ n < m)
EventsInOrder ==
  \A k, l \in 1 .. Len(events) :
    k < l /\ events[k].r = events[l].r => Before(events[k].chunk, events[l].chunk)

(* What is queued for a request is what its worker has made of it.         *)
QueuedEvents ==
  \A r \in Requests :
    /\ queued[r] # {} => stage[r] \in {"decode", "finished"}
    /\ Error \notin queued[r]
    /\ Done \in queued[r] => stage[r] = "finished"
    /\ \A n \in Nat : Token(n) \in queued[r] => n <= emitted[r]

(* What the prefill pump holds is nowhere else.                            *)
PrefillHand ==
  \A r \in Requests : handP.r = r =>
    /\ r \in inflight /\ r \notin waiting /\ handD.r # r /\ queued[r] = {}
    /\ stage[r] = IF handP.todo \in {"first", "admit"} THEN "first" ELSE "finished"
    /\ emitted[r] = 1
    /\ handP.todo = "first" => streams[r] = <<>>
    /\ handP.todo # "first" /\ rx[r] = "open" => streams[r] = <<Token(1)>>
    /\ handP.todo = "done" => MaxTokens[r] <= 1
    /\ handP.todo = "admit" => MaxTokens[r] > 1

(* What the decode pump holds comes before all the events of its request.  *)
DecodeHand ==
  \A r \in Requests : handD.r = r =>
    /\ stage[r] \in {"decode", "finished"} /\ handD.todo # Error
    /\ handD.todo = Done =>
         /\ stage[r] = "finished"
         /\ r \notin inflight /\ queued[r] = {}
         /\ rx[r] = "open" => Len(streams[r]) = emitted[r]
    /\ handD.todo # Done /\ rx[r] = "open" =>
         r \in inflight /\ handD.todo = Token(Len(streams[r]) + 1)

(* Each request's place follows from its stage.                            *)
Placed ==
  \A r \in Requests :
    /\ stage[r] \notin {"first", "decode", "finished"} =>
         emitted[r] = 0 /\ streams[r] = <<>>
    /\ stage[r] \in {"new", "refused", "submit"} <=> rx[r] = "none"
    /\ stage[r] \in {"new", "refused"} => r \notin inflight
    /\ stage[r] \in {"failed", "abandoned"} => rx[r] = "dropped"
    /\ stage[r] \in {"submit", "queued", "prefill", "first"} => r \in inflight
    /\ stage[r] = "first" =>
         emitted[r] = 1 /\ (handP.r = r \/ (streams[r] = <<>> /\ r \in waiting))
    /\ r \in waiting => stage[r] = "first"
    /\ stage[r] = "decode" => emitted[r] \in 1 .. MaxTokens[r]

(***************************************************************************)
(* A client that is still there has been sent, or will be sent by the      *)
(* events that are queued, every token; it has a sender until it has been  *)
(* sent the end.                                                           *)
(***************************************************************************)
Sent(r) == IF handD.r = r THEN Len(streams[r]) + 1 ELSE Len(streams[r])
Ended(r) == streams[r] # <<>> /\ streams[r][Len(streams[r])] \in Terminal

HasSender ==
  \A r \in Requests : rx[r] = "open" =>
    IF Ended(r)
      THEN /\ stage[r] = "finished" /\ r \notin inflight
           /\ handP.r # r /\ handD.r # r /\ queued[r] = {}
      ELSE r \in inflight \/ (handD.r = r /\ handD.todo = Done)

NothingMissing ==
  \A r \in Requests :
    rx[r] = "open" /\ r \in inflight /\ stage[r] \in {"decode", "finished"}
      /\ handP.r # r =>
         /\ Sent(r) <= emitted[r]
         /\ \A m \in Sent(r) + 1 .. emitted[r] : Token(m) \in queued[r]
         /\ \A n \in Nat : Token(n) \in queued[r] => n > Sent(r)

(* collect_response() does not read past a terminal chunk.                 *)
Collecting ==
  \A r \in Requests : rx[r] = "open" /\ r \notin Streaming =>
    \A k \in 1 .. Len(got[r]) : got[r][k] \notin Terminal

(* An entry of a request that has left the workers will be removed.        *)
EndQueued ==
  \A r \in inflight : stage[r] = "finished" /\ r \notin lost =>
    handP.r = r \/ Done \in queued[r]

(* StreamInOrder and AnswerWhole, of the streams as a function.            *)
InOrder ==
  \A r \in Requests : \A k \in 1 .. Len(streams[r]) :
    \/ streams[r][k] = Token(k)
    \/ /\ k = Len(streams[r]) /\ streams[r][k] \in Terminal
       /\ streams[r][k] = Done => k - 1 = emitted[r] /\ stage[r] = "finished"
Whole ==
  \A r \in Requests :
    reply[r] = "ok" => /\ rx[r] = "dropped" /\ got[r] # <<>>
                       /\ got[r][Len(got[r])] \in Terminal
                       /\ r \notin Streaming => got[r][Len(got[r])] = Done

IInv ==
  /\ TypeOK /\ ChannelTypes
  /\ QueuedOnce /\ EventsInOrder /\ QueuedEvents
  /\ PrefillHand /\ DecodeHand /\ Placed
  /\ HasSender /\ NothingMissing /\ Collecting /\ EndQueued
  /\ InOrder /\ Whole

-------------------------------------------------------------------------------
(* Tokens and the two ends are told apart.                                 *)
LEMMA ChunkFacts ==
  /\ Terminal = {Done, Error} /\ Done # Error
  /\ \A n \in Nat : Token(n) \in Chunks /\ Token(n) # Done /\ Token(n) # Error
  /\ \A m, n \in Nat : Token(m) = Token(n) => m = n
  /\ Done \in Chunks /\ Error \in Chunks
  /\ \A c \in Chunks : c = Done \/ c = Error \/ \E n \in Nat : c = Token(n)
<1>1. Done.kind = "Done" /\ Error.kind = "Error"  BY DEF Done, Error
<1>2. \A n : Token(n).kind = "Token" /\ Token(n).n = n  BY DEF Token
<1>3. QED  BY <1>1, <1>2 DEF Terminal, Chunks

(* A pump holds nothing, or something of one request.                      *)
LEMMA NoHandFacts ==
  /\ NoHand.r \notin Requests /\ NoHand.todo = "none"
  /\ \A q, t : [r |-> q, todo |-> t].r = q /\ [r |-> q, todo |-> t].todo = t
  /\ \A T, h : h \in Hands(T) => IF h = NoHand THEN h.r \notin Requests
                                 ELSE h.r \in Requests /\ h.todo \in T
BY DeploymentAssumption DEF NoHand, Hands

LEMMA StreamTypes ==
  ASSUME ChannelTypes PROVE streams \in [Requests -> Seq(Chunks)]
BY DEF ChannelTypes, streams, Stream

(* Where a chunk stands in a stream does not depend on who holds it.       *)
LEMMA AppendConcat ==
  ASSUME NEW s \in Seq(Chunks), NEW t \in Seq(Chunks), NEW c \in Chunks
  PROVE  s \o Append(t, c) = Append(s \o t, c)
<1>1. Append(t, c) = t \o <<c>>  BY AppendIsConcat
<1>2. s \o t \in Seq(Chunks) /\ <<c>> \in Seq(Chunks)  OBVIOUS
<1>3. Append(s \o t, c) = (s \o t) \o <<c>>  BY <1>2, AppendIsConcat
<1>4. s \o (t \o <<c>>) = (s \o t) \o <<c>>  BY <1>2, ConcatAssociative
<1>5. QED  BY <1>1, <1>3, <1>4

LEMMA HeadConcat ==
  ASSUME NEW s \in Seq(Chunks), NEW t \in Seq(Chunks), t # <<>>
  PROVE  Append(s, Head(t)) \o Tail(t) = s \o t
<1>1. Head(t) \in Chunks /\ Tail(t) \in Seq(Chunks)  BY HeadTailProperties
<1>2. <<Head(t)>> \o Tail(t) = t
  <2>1. <<Head(t)>> \o Tail(t) \in Seq(Chunks)  BY <1>1
  <2>2. Len(<<Head(t)>> \o Tail(t)) = Len(t)  BY <1>1, HeadTailProperties, ConcatProperties
  <2>3. \A k \in 1 .. Len(t) : (<<Head(t)>> \o Tail(t))[k] = t[k]
    BY <1>1, HeadTailProperties, ConcatProperties
  <2>4. QED  BY <2>1, <2>2, <2>3, SeqEqual
<1>3. Append(s, Head(t)) = s \o <<Head(t)>>  BY <1>1, AppendIsConcat
<1>4. (s \o <<Head(t)>>) \o Tail(t) = s \o (<<Head(t)>> \o Tail(t))
  BY <1>1, ConcatAssociative
<1>5. QED  BY <1>2, <1>3, <1>4
LEMMA ConcatPrefix ==
  ASSUME NEW s \in Seq(Chunks), NEW t \in Seq(Chunks)
  PROVE  /\ Len(s) \in Nat /\ Len(s \o t) \in Nat /\ Len(s) <= Len(s \o t)
         /\ \A k \in 1 .. Len(s) : s[k] = (s \o t)[k]
OBVIOUS

(* What is sent is added at the end of the client's stream.                *)
LEMMA SendAppends ==
  ASSUME ChannelTypes, NEW r \in Requests, NEW c \in Chunks, Send(r, c), UNCHANGED got
  PROVE  /\ streams' = [streams EXCEPT ![r] = Append(@, c)]
         /\ chan' \in [Requests -> Seq(Chunks)]
         /\ Len(chan'[r]) = Len(chan[r]) + 1
         /\ \A q \in Requests : q # r => chan'[q] = chan[q]
<1>1. chan[r] \in Seq(Chunks) /\ got[r] \in Seq(Chunks)  BY DEF ChannelTypes
<1>2. got[r] \o Append(chan[r], c) = Append(got[r] \o chan[r], c)
  BY <1>1, AppendConcat
<1>3. Append(chan[r], c) \in Seq(Chunks)  BY <1>1
<1>4. /\ chan'[r] = Append(chan[r], c) /\ chan' \in [Requests -> Seq(Chunks)]
      /\ \A q \in Requests : q # r => chan'[q] = chan[q]
  BY <1>3 DEF Send, ChannelTypes
<1>5. streams' = [streams EXCEPT ![r] = Append(@, c)]
  BY <1>2, <1>4 DEF streams, Stream
<1>6. QED  BY <1>1, <1>4, <1>5

-------------------------------------------------------------------------------
(* One lemma for each action of Next.                                      *)
LEMMA BadRequestPreserves ==
  ASSUME IInv, NEW r \in Requests, BadRequest(r) PROVE IInv'
<1> USE DEF BadRequest
<1>1. UNCHANGED <<streams, queued, waiting>>
  BY DEF streams, Stream, queued, waiting
<1>2. TypeOK' /\ ChannelTypes'
  BY DEF IInv, TypeOK, Stages, ChannelTypes
<1>3. QueuedOnce' /\ EventsInOrder'  BY DEF IInv, QueuedOnce, EventsInOrder
<1>4. QueuedEvents'  BY <1>1 DEF IInv, TypeOK, Placed, QueuedEvents
<1>5. PrefillHand' /\ DecodeHand'
  BY <1>1 DEF IInv, TypeOK, Placed, PrefillHand, DecodeHand
<1>6. Placed'  BY <1>1 DEF IInv, TypeOK, Placed
<1>7. HasSender'  BY <1>1 DEF IInv, TypeOK, Placed, HasSender, Ended
<1>8. NothingMissing'  BY <1>1 DEF IInv, TypeOK, Placed, NothingMissing, Sent
<1>9. Collecting' /\ EndQueued'
  BY <1>1 DEF IInv, TypeOK, Placed, Collecting, EndQueued
<1>10. InOrder' /\ Whole'  BY <1>1 DEF IInv, TypeOK, InOrder, Whole
<1>11. QED
  BY <1>2, <1>3, <1>4, <1>5, <1>6, <1>7, <1>8, <1>9, <1>10 DEF IInv

LEMMA RouteFailsPreserves ==
  ASSUME IInv, NEW r \in Requests, RouteFails(r) PROVE IInv'
<1> USE DEF RouteFails
<1>1. UNCHANGED <<streams, queued, waiting>>
  BY DEF streams, Stream, queued, waiting
<1>2. TypeOK' /\ ChannelTypes'
  BY DEF IInv, TypeOK, Stages, ChannelTypes
<1>3. QueuedOnce' /\ EventsInOrder'  BY DEF IInv, QueuedOnce, EventsInOrder
<1>4. QueuedEvents'  BY <1>1 DEF IInv, TypeOK, Placed, QueuedEvents
<1>5. PrefillHand' /\ DecodeHand'
  BY <1>1 DEF IInv, TypeOK, Placed, PrefillHand, DecodeHand
<1>6. Placed'  BY <1>1 DEF IInv, TypeOK, Placed
<1>7. HasSender'  BY <1>1 DEF IInv, TypeOK, Placed, HasSender, Ended
<1>8. NothingMissing'  BY <1>1 DEF IInv, TypeOK, Placed, NothingMissing, Sent
<1>9. Collecting' /\ EndQueued'
  BY <1>1 DEF IInv, TypeOK, Placed, Collecting, EndQueued
<1>10. InOrder' /\ Whole'  BY <1>1 DEF IInv, TypeOK, InOrder, Whole
<1>11. QED
  BY <1>2, <1>3, <1>4, <1>5, <1>6, <1>7, <1>8, <1>9, <1>10 DEF IInv

LEMMA GeneratePreserves ==
  ASSUME IInv, NEW r \in Requests, Generate(r) PROVE IInv'
<1> USE DEF Generate
<1>1. UNCHANGED <<streams, queued, waiting>>
  BY DEF streams, Stream, queued, waiting
<1>2. TypeOK' /\ ChannelTypes'  BY DEF IInv, TypeOK, Stages, ChannelTypes
<1>3. QueuedOnce' /\ EventsInOrder'  BY DEF IInv, QueuedOnce, EventsInOrder
<1>4. QueuedEvents'  BY <1>1 DEF IInv, TypeOK, Placed, QueuedEvents
<1>5. PrefillHand' /\ DecodeHand'
  BY <1>1 DEF IInv, TypeOK, Placed, PrefillHand, DecodeHand
<1>6. Placed'  BY <1>1 DEF IInv, TypeOK, Placed
<1>7. HasSender'  BY <1>1 DEF IInv, TypeOK, Placed, HasSender, Ended
<1>8. NothingMissing'  BY <1>1 DEF IInv, TypeOK, Placed, NothingMissing, Sent
<1>9. Collecting'  BY <1>1 DEF IInv, TypeOK, Collecting
<1>10. EndQueued'  BY <1>1 DEF IInv, TypeOK, EndQueued
<1>11. InOrder' /\ Whole'  BY <1>1 DEF IInv, TypeOK, Placed, InOrder, Whole
<1>12. QED
  BY <1>2, <1>3, <1>4, <1>5, <1>6, <1>7, <1>8, <1>9, <1>10, <1>11 DEF IInv

LEMMA SubmitPreserves ==
  ASSUME IInv, NEW r \in Requests, Submit(r) PROVE IInv'
<1> USE DEF Submit
<1>1. UNCHANGED <<streams, queued, waiting>>
  BY DEF streams, Stream, queued, waiting
<1>2. TypeOK' /\ ChannelTypes'  BY DEF IInv, TypeOK, Stages, ChannelTypes
<1>3. QueuedOnce' /\ EventsInOrder'  BY DEF IInv, QueuedOnce, EventsInOrder
<1>4. QueuedEvents'  BY <1>1 DEF IInv, TypeOK, Placed, QueuedEvents
<1>5. PrefillHand' /\ DecodeHand'
  BY <1>1 DEF IInv, TypeOK, Placed, PrefillHand, DecodeHand
<1>6. Placed'  BY <1>1 DEF IInv, TypeOK, Placed
<1>7. HasSender'  BY <1>1 DEF IInv, TypeOK, Placed, HasSender, Ended
<1>8. NothingMissing'  BY <1>1 DEF IInv, TypeOK, Placed, NothingMissing, Sent
<1>9. Collecting'
  <2>1. got[r] = <<>>
    <3>1. streams[r] = <<>> /\ got[r] \in Seq(Chunks) /\ chan[r] \in Seq(Chunks)
      BY DEF IInv, Placed, ChannelTypes
    <3>2. QED  BY <3>1, ConcatSimplifications DEF streams, Stream
  <2>2. QED  BY <2>1 DEF IInv, TypeOK, Collecting
<1>10. EndQueued'  BY <1>1 DEF IInv, TypeOK, EndQueued
<1>11. InOrder' /\ Whole'  BY <1>1 DEF IInv, TypeOK, Placed, InOrder, Whole
<1>12. QED
  BY <1>2, <1>3, <1>4, <1>5, <1>6, <1>7, <1>8, <1>9, <1>10, <1>11 DEF IInv

LEMMA SubmitFailsPreserves ==
  ASSUME IInv, NEW r \in Requests, SubmitFails(r) PROVE IInv'
<1> USE DEF SubmitFails
<1>1. UNCHANGED <<streams, queued, waiting>>
  BY DEF streams, Stream, queued, waiting
<1>2. TypeOK' /\ ChannelTypes'  BY DEF IInv, TypeOK, Stages, ChannelTypes
<1>3. QueuedOnce' /\ EventsInOrder'  BY DEF IInv, QueuedOnce, EventsInOrder
<1>4. QueuedEvents'  BY <1>1 DEF IInv, TypeOK, Placed, QueuedEvents
<1>5. PrefillHand' /\ DecodeHand'
  BY <1>1 DEF IInv, TypeOK, Placed, PrefillHand, DecodeHand
<1>6. Placed'  BY <1>1 DEF IInv, TypeOK, Placed
<1>7. HasSender'  BY <1>1 DEF IInv, TypeOK, Placed, HasSender, Ended
<1>8. NothingMissing'  BY <1>1 DEF IInv, TypeOK, Placed, NothingMissing, Sent
<1>9. Collecting'  BY <1>1 DEF IInv, TypeOK, Collecting
<1>10. EndQueued'  BY <1>1 DEF IInv, TypeOK, EndQueued
<1>11. InOrder' /\ Whole'  BY <1>1 DEF IInv, TypeOK, Placed, InOrder, Whole
<1>12. QED
  BY <1>2, <1>3, <1>4, <1>5, <1>6, <1>7, <1>8, <1>9, <1>10, <1>11 DEF IInv

LEMMA AbandonPreserves ==
  ASSUME IInv, NEW r \in Requests, Abandon(r) PROVE IInv'
<1> USE DEF Abandon
<1>1. UNCHANGED <<streams, queued, waiting>>
  BY DEF streams, Stream, queued, waiting
<1>2. TypeOK' /\ ChannelTypes'  BY DEF IInv, TypeOK, Stages, ChannelTypes
<1>3. QueuedOnce' /\ EventsInOrder'  BY DEF IInv, QueuedOnce, EventsInOrder
<1>4. QueuedEvents'  BY <1>1 DEF IInv, TypeOK, Placed, QueuedEvents
<1>5. PrefillHand' /\ DecodeHand'
  BY <1>1 DEF IInv, TypeOK, Placed, PrefillHand, DecodeHand
<1>6. Placed'  BY <1>1 DEF IInv, TypeOK, Placed
<1>7. HasSender'  BY <1>1 DEF IInv, TypeOK, Placed, HasSender, Ended
<1>8. NothingMissing'  BY <1>1 DEF IInv, TypeOK, Placed, NothingMissing, Sent
<1>9. Collecting'  BY <1>1 DEF IInv, TypeOK, Collecting
<1>10. EndQueued'  BY <1>1 DEF IInv, TypeOK, EndQueued
<1>11. InOrder' /\ Whole'  BY <1>1 DEF IInv, TypeOK, Placed, InOrder, Whole
<1>12. QED
  BY <1>2, <1>3, <1>4, <1>5, <1>6, <1>7, <1>8, <1>9, <1>10, <1>11 DEF IInv

LEMMA PrefillTakesPreserves ==
  ASSUME IInv, NEW r \in Requests, PrefillTakes(r) PROVE IInv'
<1> USE DEF PrefillTakes
<1>1. UNCHANGED <<streams, queued, waiting>>
  BY DEF streams, Stream, queued, waiting
<1>2. TypeOK' /\ ChannelTypes'
  BY DEF IInv, TypeOK, Stages, ChannelTypes
<1>3. QueuedOnce' /\ EventsInOrder'  BY DEF IInv, QueuedOnce, EventsInOrder
<1>4. QueuedEvents'  BY <1>1 DEF IInv, TypeOK, Placed, QueuedEvents
<1>5. PrefillHand' /\ DecodeHand'
  BY <1>1 DEF IInv, TypeOK, Placed, PrefillHand, DecodeHand
<1>6. Placed'  BY <1>1 DEF IInv, TypeOK, Placed
<1>7. HasSender'  BY <1>1 DEF IInv, TypeOK, Placed, HasSender, Ended
<1>8. NothingMissing'  BY <1>1 DEF IInv, TypeOK, Placed, NothingMissing, Sent
<1>9. Collecting' /\ EndQueued'
  BY <1>1 DEF IInv, TypeOK, Placed, Collecting, EndQueued
<1>10. InOrder' /\ Whole'  BY <1>1 DEF IInv, TypeOK, InOrder, Whole
<1>11. QED
  BY <1>2, <1>3, <1>4, <1>5, <1>6, <1>7, <1>8, <1>9, <1>10 DEF IInv

LEMMA PrefillCompletesPreserves ==
  ASSUME IInv, NEW r \in Requests, PrefillCompletes(r) PROVE IInv'
<1> USE DEF PrefillCompletes
<1>1. UNCHANGED <<streams, queued>>  BY DEF streams, Stream, queued
<1>2. pdone \in Seq(Requests) /\ pdone' \in Seq(Requests) /\ Len(pdone') = Len(pdone) + 1
      /\ (\A i \in 1 .. Len(pdone) : pdone'[i] = pdone[i]) /\ pdone'[Len(pdone) + 1] = r
  BY DEF IInv, TypeOK
<1>3. waiting' = waiting \cup {r}  BY <1>2 DEF waiting
<1>4. r \notin waiting  BY DEF IInv, TypeOK, Placed
<1>5. TypeOK'
  <2>1. \A q \in Requests : MaxTokens[q] \in Nat  BY DeploymentAssumption
  <2>2. \A q \in Requests : emitted'[q] \in 0 .. MaxTokens[q] + 1
    BY <2>1 DEF IInv, TypeOK, ChannelTypes
  <2>3. QED  BY <1>2, <2>2 DEF IInv, TypeOK, Stages
<1>6. ChannelTypes'  BY DEF IInv, ChannelTypes
<1>7. QueuedOnce'
  <2>1. \A i \in 1 .. Len(pdone) : pdone[i] # r /\ pdone[i] \in Requests
    BY <1>2, <1>4 DEF waiting
  <2>2. QED  BY <1>2, <2>1 DEF IInv, QueuedOnce
<1>8. EventsInOrder'  BY DEF IInv, EventsInOrder
<1>9. QueuedEvents'  BY <1>1 DEF IInv, TypeOK, Placed, QueuedEvents
<1>10. PrefillHand' /\ DecodeHand'
  BY <1>1, <1>3 DEF IInv, TypeOK, ChannelTypes, Placed, PrefillHand, DecodeHand
<1>11. Placed'  BY <1>1, <1>3 DEF IInv, TypeOK, ChannelTypes, Placed
<1>12. HasSender'  BY <1>1 DEF IInv, TypeOK, Placed, HasSender, Ended
<1>13. NothingMissing'
  BY <1>1 DEF IInv, TypeOK, ChannelTypes, Placed, NothingMissing, Sent
<1>14. Collecting' /\ EndQueued'
  BY <1>1 DEF IInv, TypeOK, Placed, Collecting, EndQueued
<1>15. InOrder' /\ Whole'  BY <1>1 DEF IInv, TypeOK, Placed, InOrder, Whole
<1>16. QED
  BY <1>5, <1>6, <1>7, <1>8, <1>9, <1>10, <1>11, <1>12, <1>13, <1>14, <1>15 DEF IInv

(* A job that is lost, or that goes down with its worker.                  *)
LEMMA LosesPreserves ==
  ASSUME IInv, NEW r \in Requests, Loses(r) PROVE IInv'
<1> USE DEF Loses
<1>1. UNCHANGED <<streams, queued, waiting>>
  BY DEF streams, Stream, queued, waiting
<1>2. TypeOK' /\ ChannelTypes'  BY DEF IInv, TypeOK, Stages, ChannelTypes
<1>3. QueuedOnce' /\ EventsInOrder'  BY DEF IInv, QueuedOnce, EventsInOrder
<1>4. QueuedEvents'  BY <1>1 DEF IInv, TypeOK, Placed, QueuedEvents
<1>5. PrefillHand' /\ DecodeHand'
  BY <1>1 DEF IInv, TypeOK, Placed, PrefillHand, DecodeHand
<1>6. Placed'  BY <1>1 DEF IInv, TypeOK, Placed
<1>7. HasSender'  BY <1>1 DEF IInv, TypeOK, Placed, HasSender, Ended
<1>8. NothingMissing'
  <2>1. \A q \in Requests : stage[q] = "prefill" =>
          Len(streams[q]) = 0 /\ emitted[q] = 0 /\ queued[q] = {} /\ handD.r # q
    BY DEF IInv, Placed, QueuedEvents, DecodeHand
  <2>2. \A q \in Requests : stage'[q] \in {"decode", "finished"} =>
          stage[q] \in {"decode", "finished"} \/ stage[q] = "prefill"
    BY DEF IInv, TypeOK
  <2> SUFFICES ASSUME NEW q \in Requests, rx[q] = "open", q \in inflight,
                      stage'[q] \in {"decode", "finished"}, handP.r # q
               PROVE  /\ Sent(q) <= emitted[q]
                      /\ \A m \in Sent(q) + 1 .. emitted[q] : Token(m) \in queued[q]
                      /\ \A n \in Nat : Token(n) \in queued[q] => n > Sent(q)
    BY <1>1 DEF NothingMissing, Sent
  <2>3. CASE stage[q] = "prefill"
    <3>1. Sent(q) = 0 /\ emitted[q] = 0 /\ queued[q] = {}  BY <2>1, <2>3 DEF Sent
    <3>2. QED  BY <3>1
  <2>4. CASE stage[q] # "prefill"  BY <2>2, <2>4 DEF IInv, NothingMissing
  <2>5. QED  BY <2>3, <2>4
<1>9. Collecting' /\ EndQueued'
  BY <1>1 DEF IInv, TypeOK, Placed, Collecting, EndQueued
<1>10. InOrder' /\ Whole'  BY <1>1 DEF IInv, TypeOK, Placed, InOrder, Whole
<1>11. QED
  BY <1>2, <1>3, <1>4, <1>5, <1>6, <1>7, <1>8, <1>9, <1>10 DEF IInv

LEMMA DiesPreserves ==
  ASSUME IInv, NEW w \in {"prefill", "decode"}, Dies(w) PROVE IInv'
<1> USE DEF Dies, Queue
<1>1. UNCHANGED <<streams, queued, waiting>>
  BY DEF streams, Stream, queued, waiting
<1>2. TypeOK' /\ ChannelTypes'  BY DEF IInv, TypeOK, Stages, ChannelTypes
<1>3. QueuedOnce' /\ EventsInOrder'  BY DEF IInv, QueuedOnce, EventsInOrder
<1>4. QueuedEvents'  BY <1>1 DEF IInv, TypeOK, Placed, QueuedEvents
<1>5. PrefillHand' /\ DecodeHand'
  BY <1>1 DEF IInv, TypeOK, Placed, PrefillHand, DecodeHand
<1>6. Placed'  BY <1>1 DEF IInv, TypeOK, Placed
<1>7. HasSender'  BY <1>1 DEF IInv, TypeOK, Placed, HasSender, Ended
<1>8. NothingMissing'
  <2>1. \A q \in Requests : stage[q] \in {"queued", "prefill"} =>
          Len(streams[q]) = 0 /\ emitted[q] = 0 /\ queued[q] = {} /\ handD.r # q
    BY DEF IInv, Placed, QueuedEvents, DecodeHand
  <2>2. \A q \in Requests : stage'[q] \in {"decode", "finished"} =>
          stage[q] \in {"decode", "finished"} \/ stage[q] \in {"queued", "prefill"}
    BY DEF IInv, TypeOK
  <2> SUFFICES ASSUME NEW q \in Requests, rx[q] = "open", q \in inflight,
                      stage'[q] \in {"decode", "finished"}, handP.r # q
               PROVE  /\ Sent(q) <= emitted[q]
                      /\ \A m \in Sent(q) + 1 .. emitted[q] : Token(m) \in queued[q]
                      /\ \A n \in Nat : Token(n) \in queued[q] => n > Sent(q)
    BY <1>1 DEF NothingMissing, Sent
  <2>3. CASE stage[q] \in {"queued", "prefill"}
    <3>1. Sent(q) = 0 /\ emitted[q] = 0 /\ queued[q] = {}  BY <2>1, <2>3 DEF Sent
    <3>2. QED  BY <3>1
  <2>4. CASE stage[q] \notin {"queued", "prefill"}  BY <2>2, <2>4 DEF IInv, NothingMissing
  <2>5. QED  BY <2>3, <2>4
<1>9. Collecting' /\ EndQueued'
  BY <1>1 DEF IInv, TypeOK, Placed, Collecting, EndQueued
<1>10. InOrder' /\ Whole'  BY <1>1 DEF IInv, TypeOK, Placed, InOrder, Whole
<1>11. QED
  BY <1>2, <1>3, <1>4, <1>5, <1>6, <1>7, <1>8, <1>9, <1>10 DEF IInv

-------------------------------------------------------------------------------
LEMMA EventTypes ==
  ASSUME NEW es \in Seq([r : Requests, chunk : Chunks])
  PROVE  /\ Len(es) \in Nat
         /\ \A k \in 1 .. Len(es) : es[k].r \in Requests /\ es[k].chunk \in Chunks
<1>1. \A k \in 1 .. Len(es) : es[k] \in [r : Requests, chunk : Chunks]
  BY ElementOfSeq
<1>2. QED  BY <1>1

(* An event that is reported is queued after the others of its request.    *)
LEMMA EventAppended ==
  ASSUME ChannelTypes, NEW r \in Requests, NEW c \in Chunks,
         events' = Append(events, [r |-> r, chunk |-> c])
  PROVE  /\ events' \in Seq([r : Requests, chunk : Chunks])
         /\ queued' = [queued EXCEPT ![r] = @ \cup {c}]
         /\ EventsInOrder /\ (\A d \in queued[r] : Before(d, c)) => EventsInOrder'
<1> DEFINE e == [r |-> r, chunk |-> c]
<1> DEFINE n == Len(events)
<1>1. events \in Seq([r : Requests, chunk : Chunks]) /\ n \in Nat
      /\ \A k \in 1 .. n : events[k].r \in Requests /\ events[k].chunk \in Chunks
  BY EventTypes DEF ChannelTypes
<1>2. e \in [r : Requests, chunk : Chunks] /\ e.r = r /\ e.chunk = c  OBVIOUS
<1>3. events' = Append(events, e)  OBVIOUS
<1> HIDE DEF e
<1>4. /\ events' \in Seq([r : Requests, chunk : Chunks]) /\ Len(events') = n + 1
      /\ \A k \in 1 .. n : events'[k] = events[k]
      /\ events'[n + 1] = e
  BY <1>1, <1>2, <1>3
<1> HIDE DEF n
<1>5. queued' = [queued EXCEPT ![r] = @ \cup {c}]
  <2>1. \A q \in Requests, d \in Chunks :
          (\E k \in 1 .. Len(events') : events'[k].r = q /\ events'[k].chunk = d)
          <=> \/ \E k \in 1 .. Len(events) : events[k].r = q /\ events[k].chunk = d
              \/ q = r /\ d = c
    BY <1>1, <1>2, <1>4 DEF n
  <2>2. \A q \in Requests : queued'[q] = IF q = r THEN queued[q] \cup {c} ELSE queued[q]
    BY <2>1 DEF queued
  <2>3. queued' = [q \in Requests |-> queued'[q]]
        /\ queued = [q \in Requests |-> queued[q]]
    BY DEF queued
  <2>4. QED  BY <2>2, <2>3
<1>6. ASSUME EventsInOrder, \A d \in queued[r] : Before(d, c)  PROVE EventsInOrder'
  <2> SUFFICES ASSUME NEW k \in 1 .. n + 1, NEW l \in 1 .. n + 1, k < l,
                      events'[k].r = events'[l].r
               PROVE  Before(events'[k].chunk, events'[l].chunk)
    BY <1>4 DEF EventsInOrder
  <2>1. k \in 1 .. n /\ events'[k] = events[k]  BY <1>1, <1>4
  <2>2. CASE l = n + 1
    <3>1. events'[l].r = r /\ events'[l].chunk = c  BY <1>2, <1>4, <2>2
    <3>2. events[k].chunk \in queued[r]  BY <1>1, <2>1, <3>1 DEF queued, n
    <3>3. QED  BY <1>6, <2>1, <3>1, <3>2
  <2>3. CASE l \in 1 .. n
    <3>1. events'[l] = events[l]  BY <1>4, <2>3
    <3>2. QED  BY <1>6, <2>1, <2>3, <3>1 DEF EventsInOrder, n
  <2>4. l = n + 1 \/ l \in 1 .. n  BY <1>1
  <2>5. QED  BY <2>2, <2>3, <2>4
<1>7. QED  BY <1>4, <1>5, <1>6

LEMMA DecodeEmitsPreserves ==
  ASSUME IInv, NEW r \in Requests, DecodeEmits(r) PROVE IInv'
<1>1. UNCHANGED <<streams, waiting>>
  BY DEF DecodeEmits, streams, Stream, waiting
<1>2. /\ stage[r] = "decode" /\ emitted[r] \in 1 .. MaxTokens[r] /\ MaxTokens[r] \in Nat
      /\ emitted[r] < MaxTokens[r]
      /\ handP.r # r /\ r \notin waiting /\ ~ (handD.r = r /\ handD.todo = Done)
      /\ \A n \in Nat : Token(n) \in queued[r] => n <= emitted[r]
      /\ Done \notin queued[r] /\ Error \notin queued[r]
      /\ queued[r] \subseteq Chunks
  BY DeploymentAssumption
  DEF DecodeEmits, IInv, Placed, PrefillHand, DecodeHand, QueuedEvents, queued
<1>3. QueuedOnce'  BY DEF DecodeEmits, IInv, QueuedOnce
<1> DEFINE c == Token(emitted[r] + 1)
<1>4. /\ emitted' = [emitted EXCEPT ![r] = @ + 1] /\ UNCHANGED stage
      /\ events' = Append(events, [r |-> r, chunk |-> c])
      /\ UNCHANGED <<inflight, pdone, handP, handD, chan, rx, got, reply, open, lost>>
  BY DEF DecodeEmits
<1>5. c \in Chunks /\ \A n \in Nat : c = Token(n) => n = emitted[r] + 1
  BY <1>2, ChunkFacts
<1>6. c # Done /\ c # Error  BY <1>2, ChunkFacts
<1>7. \A d \in queued[r] : Before(d, c)  BY <1>2, ChunkFacts DEF Before
<1>8. Token(emitted[r] + 1) = c  OBVIOUS
<1> HIDE DEF c
<1>9. /\ events' \in Seq([r : Requests, chunk : Chunks])
      /\ queued' = [queued EXCEPT ![r] = @ \cup {c}] /\ EventsInOrder'
  BY <1>4, <1>5, <1>7, EventAppended DEF IInv
<1>10. queued'[r] = queued[r] \cup {c} /\ \A q \in Requests : q # r => queued'[q] = queued[q]
  BY <1>9 DEF queued
<1>11. ChannelTypes'  BY <1>4, <1>9 DEF IInv, ChannelTypes
<1>12. TypeOK'
  <2>1. \A q \in Requests : emitted'[q] \in 0 .. MaxTokens[q] + 1
    <3>1. emitted'[r] \in 0 .. MaxTokens[r] + 1
      BY <1>2, <1>4 DEF IInv, ChannelTypes
    <3>2. \A q \in Requests : q # r => emitted'[q] = emitted[q]
      BY <1>4 DEF IInv, ChannelTypes
    <3>3. QED  BY <3>1, <3>2 DEF IInv, TypeOK
  <2>2. \A k \in 1 .. Len(events') : events'[k].r \in Requests  BY <1>9, EventTypes
  <2>3. QED  BY <1>4, <2>1, <2>2 DEF IInv, TypeOK
<1>13. QueuedEvents'
  <2>1. emitted'[r] = emitted[r] + 1 /\ \A q \in Requests : q # r => emitted'[q] = emitted[q]
    BY <1>4 DEF IInv, ChannelTypes
  <2>2. \A n \in Nat : Token(n) \in queued'[r] => n <= emitted'[r]
    BY <1>2, <1>5, <1>10, <2>1
  <2>3. QED  BY <1>2, <1>4, <1>6, <1>10, <2>1, <2>2 DEF IInv, QueuedEvents
<1>14. PrefillHand' /\ DecodeHand'
  BY <1>1, <1>2, <1>4, <1>10 DEF IInv, ChannelTypes, PrefillHand, DecodeHand
<1>15. Placed'  BY <1>1, <1>2, <1>4 DEF IInv, ChannelTypes, Placed
<1>16. HasSender'  BY <1>1, <1>2, <1>4, <1>10 DEF IInv, HasSender, Ended
<1>17. NothingMissing'
  <2> SUFFICES ASSUME NEW q \in Requests, rx[q] = "open", q \in inflight,
                      stage[q] \in {"decode", "finished"}, handP.r # q
               PROVE  /\ Sent(q) <= emitted'[q]
                      /\ \A m \in Sent(q) + 1 .. emitted'[q] : Token(m) \in queued'[q]
                      /\ \A n \in Nat : Token(n) \in queued'[q] => n > Sent(q)
    BY <1>1, <1>4 DEF NothingMissing, Sent
  <2>1. /\ Sent(q) <= emitted[q]
        /\ \A m \in Sent(q) + 1 .. emitted[q] : Token(m) \in queued[q]
        /\ \A n \in Nat : Token(n) \in queued[q] => n > Sent(q)
    BY DEF IInv, NothingMissing
  <2>2. Sent(q) \in Nat  BY StreamTypes DEF IInv, Sent
  <2>3. CASE q = r
    <3>1. emitted[r] \in Nat /\ emitted'[r] = emitted[r] + 1
      BY <1>4 DEF IInv, ChannelTypes
    <3>2. PICK s \in Nat, t \in Nat : s = Sent(q) /\ t = emitted[r]  BY <2>2, <3>1
    <3>3. Token(t + 1) = c  BY <1>8, <3>2
    <3>4. s <= t  BY <2>1, <2>3, <3>2
    <3>5. s <= t + 1  BY <3>4
    <3>6. ASSUME NEW m \in s + 1 .. t + 1 PROVE Token(m) \in queued'[r]
      <4>1. CASE m = t + 1  BY <1>10, <3>3, <4>1
      <4>2. CASE m # t + 1
        <5>1. m \in s + 1 .. t  BY <4>2
        <5>2. Token(m) \in queued[r]  BY <2>1, <2>3, <3>2, <5>1
        <5>3. QED  BY <1>10, <5>2
      <4>3. QED  BY <4>1, <4>2
    <3>7. ASSUME NEW n \in Nat, Token(n) \in queued'[r] PROVE n > s
      <4>1. CASE Token(n) \in queued[r]  BY <2>1, <2>3, <3>2, <4>1
      <4>2. CASE Token(n) = c
        <5>1. n = t + 1  BY <1>5, <3>2, <3>3, <4>2, ChunkFacts
        <5>2. QED  BY <3>4, <5>1
      <4>3. QED  BY <1>10, <3>7, <4>1, <4>2
    <3>8. QED  BY <2>3, <3>1, <3>2, <3>5, <3>6, <3>7
  <2>4. CASE q # r  BY <1>4, <1>10, <2>1, <2>4 DEF IInv, ChannelTypes
  <2>5. QED  BY <2>3, <2>4
<1>18. Collecting'  BY <1>4 DEF IInv, Collecting
<1>19. EndQueued'  BY <1>4, <1>10 DEF IInv, TypeOK, EndQueued
<1>20. InOrder' /\ Whole'
  BY <1>1, <1>2, <1>4 DEF IInv, ChannelTypes, InOrder, Whole
<1>21. QED
  BY <1>3, <1>9, <1>11, <1>12, <1>13, <1>14, <1>15, <1>16, <1>17, <1>18, <1>19, <1>20
  DEF IInv

LEMMA DecodeFinishesPreserves ==
  ASSUME IInv, NEW r \in Requests, DecodeFinishes(r) PROVE IInv'
<1>1. UNCHANGED <<streams, waiting>>
  BY DEF DecodeFinishes, streams, Stream, waiting
<1>2. /\ stage[r] = "decode" /\ emitted[r] \in 1 .. MaxTokens[r] /\ MaxTokens[r] \in Nat
      /\ handP.r # r /\ r \notin waiting /\ ~ (handD.r = r /\ handD.todo = Done)
      /\ \A n \in Nat : Token(n) \in queued[r] => n <= emitted[r]
      /\ Done \notin queued[r] /\ Error \notin queued[r]
      /\ queued[r] \subseteq Chunks
  BY DeploymentAssumption
  DEF DecodeFinishes, IInv, Placed, PrefillHand, DecodeHand, QueuedEvents, queued
<1>3. QueuedOnce'  BY DEF DecodeFinishes, IInv, QueuedOnce
<1>4. /\ stage' = [stage EXCEPT ![r] = "finished"] /\ UNCHANGED emitted
      /\ events' = Append(events, [r |-> r, chunk |-> Done])
      /\ UNCHANGED <<inflight, pdone, handP, handD, chan, rx, got, reply, open, lost>>
  BY DEF DecodeFinishes
<1>5. \A n \in Nat : Token(n) # Done  BY ChunkFacts
<1>6. \A d \in queued[r] : Before(d, Done)  BY <1>2, ChunkFacts DEF Before
<1>7. Done # Error /\ Done \in Chunks  BY ChunkFacts
<1>8. /\ events' \in Seq([r : Requests, chunk : Chunks])
      /\ queued' = [queued EXCEPT ![r] = @ \cup {Done}] /\ EventsInOrder'
  BY <1>4, <1>6, <1>7, EventAppended DEF IInv
<1>9. queued'[r] = queued[r] \cup {Done} /\ \A q \in Requests : q # r => queued'[q] = queued[q]
  BY <1>8 DEF queued
<1>10. ChannelTypes'  BY <1>4, <1>8 DEF IInv, ChannelTypes
<1>11. TypeOK'
  <2>1. \A k \in 1 .. Len(events') : events'[k].r \in Requests  BY <1>8, EventTypes
  <2>2. QED  BY <1>4, <2>1 DEF IInv, TypeOK, Stages
<1>12. QueuedEvents'
  BY <1>2, <1>4, <1>5, <1>7, <1>9 DEF IInv, TypeOK, QueuedEvents
<1>13. PrefillHand' /\ DecodeHand'
  <2>1. PrefillHand'  BY <1>1, <1>2, <1>4, <1>9 DEF IInv, TypeOK, PrefillHand
  <2>2. DecodeHand'  BY <1>1, <1>2, <1>4, <1>9 DEF IInv, TypeOK, DecodeHand
  <2>3. QED  BY <2>1, <2>2
<1>14. Placed'  BY <1>1, <1>2, <1>4 DEF IInv, TypeOK, Placed
<1>15. HasSender'  BY <1>1, <1>2, <1>4, <1>9 DEF IInv, TypeOK, HasSender, Ended
<1>16. NothingMissing'
  <2>1. \A q \in Requests, n \in Nat : Token(n) \in queued'[q] <=> Token(n) \in queued[q]
    BY <1>5, <1>9
  <2>2. \A q \in Requests : stage'[q] \in {"decode", "finished"} =>
                            stage[q] \in {"decode", "finished"}
    BY <1>2, <1>4 DEF IInv, TypeOK
  <2> SUFFICES ASSUME NEW q \in Requests, rx[q] = "open", q \in inflight,
                      stage[q] \in {"decode", "finished"}, handP.r # q
               PROVE  /\ Sent(q) <= emitted[q]
                      /\ \A m \in Sent(q) + 1 .. emitted[q] : Token(m) \in queued'[q]
                      /\ \A n \in Nat : Token(n) \in queued'[q] => n > Sent(q)
    BY <1>1, <1>4, <2>2 DEF NothingMissing, Sent
  <2>3. Sent(q) \in Nat  BY StreamTypes DEF IInv, Sent
  <2>4. emitted[q] \in Nat  BY DEF IInv, ChannelTypes
  <2>5. /\ Sent(q) <= emitted[q]
        /\ \A m \in Sent(q) + 1 .. emitted[q] : Token(m) \in queued[q]
        /\ \A n \in Nat : Token(n) \in queued[q] => n > Sent(q)
    BY DEF IInv, NothingMissing
  <2>6. \A m \in Sent(q) + 1 .. emitted[q] : m \in Nat  BY <2>3, <2>4
  <2>7. QED  BY <2>1, <2>5, <2>6
<1>17. Collecting'  BY <1>4 DEF IInv, Collecting
<1>18. EndQueued'  BY <1>4, <1>9 DEF IInv, TypeOK, EndQueued
<1>19. InOrder' /\ Whole'  BY <1>1, <1>4 DEF IInv, TypeOK, InOrder, Whole
<1>20. QED
  BY <1>3, <1>8, <1>10, <1>11, <1>12, <1>13, <1>14, <1>15, <1>16, <1>17, <1>18, <1>19
  DEF IInv

-------------------------------------------------------------------------------
(* The prefill pump.                                                       *)
LEMMA PumpPrefillTakePreserves ==
  ASSUME IInv, PumpPrefillTake PROVE IInv'
<1> DEFINE r == Head(pdone)
<1>1. UNCHANGED <<streams, queued>>
  BY DEF PumpPrefillTake, streams, Stream, queued
<1>2. /\ handP.r \notin Requests /\ pdone \in Seq(Requests) /\ Len(pdone) \in Nat \ {0}
      /\ r \in Requests /\ r = pdone[1] /\ pdone' \in Seq(Requests)
      /\ Len(pdone') = Len(pdone) - 1
      /\ \A i \in 1 .. Len(pdone') : pdone'[i] = pdone[i + 1]
  <2>1. pdone \in Seq(Requests) /\ pdone # <<>> /\ pdone' = Tail(pdone)
        /\ handP.r \notin Requests
    BY NoHandFacts DEF PumpPrefillTake, IInv, TypeOK
  <2>2. QED  BY <2>1, HeadTailProperties
<1>3. waiting' = waiting \ {r} /\ r \in waiting
  <2>1. \A q \in Requests : (\E i \in 1 .. Len(pdone') : pdone'[i] = q)
                            <=> q # r /\ (\E i \in 1 .. Len(pdone) : pdone[i] = q)
    <3> TAKE q \in Requests
    <3>1. ASSUME NEW i \in 1 .. Len(pdone'), pdone'[i] = q
          PROVE  q # r /\ \E j \in 1 .. Len(pdone) : pdone[j] = q
      <4>1. i + 1 \in 1 .. Len(pdone) /\ i + 1 # 1 /\ pdone[i + 1] = q  BY <1>2, <3>1
      <4>2. 1 \in 1 .. Len(pdone)  BY <1>2
      <4>3. q # r  BY <1>2, <4>1, <4>2 DEF IInv, QueuedOnce
      <4>4. QED  BY <4>1, <4>3
    <3>2. ASSUME q # r, NEW j \in 1 .. Len(pdone), pdone[j] = q
          PROVE  \E i \in 1 .. Len(pdone') : pdone'[i] = q
      <4>1. j # 1  BY <1>2, <3>2
      <4>2. j - 1 \in 1 .. Len(pdone') /\ pdone'[j - 1] = pdone[j]  BY <1>2, <4>1
      <4>3. QED  BY <3>2, <4>2
    <3>3. QED  BY <3>1, <3>2
  <2>2. r \in waiting  BY <1>2 DEF waiting
  <2>3. QED  BY <2>1, <2>2 DEF waiting
<1>4. stage[r] = "first" /\ r \in inflight /\ streams[r] = <<>> /\ emitted[r] = 1
      /\ handD.r # r /\ queued[r] = {}
  BY <1>2, <1>3 DEF IInv, Placed, QueuedEvents, DecodeHand
<1>5. /\ handP' = [r |-> r, todo |-> "first"] /\ handP'.r = r /\ handP'.todo = "first"
      /\ UNCHANGED <<stage, emitted, inflight, events, handD, chan, rx, got, reply, open, lost>>
  BY <1>4 DEF PumpPrefillTake
<1> HIDE DEF r
<1>6. TypeOK'  BY <1>2, <1>5 DEF IInv, TypeOK
<1>7. ChannelTypes'  BY <1>2, <1>5 DEF IInv, ChannelTypes, Hands, Todo
<1>8. QueuedOnce'
  <2>1. \A i \in 1 .. Len(pdone') : i + 1 \in 1 .. Len(pdone)  BY <1>2
  <2>2. QED  BY <1>2, <2>1 DEF IInv, QueuedOnce
<1>9. EventsInOrder'  BY <1>5 DEF IInv, EventsInOrder
<1>10. QueuedEvents'  BY <1>1, <1>5 DEF IInv, QueuedEvents
<1>11. PrefillHand' /\ DecodeHand'
  BY <1>1, <1>2, <1>3, <1>4, <1>5 DEF IInv, PrefillHand, DecodeHand
<1>12. Placed'  BY <1>1, <1>2, <1>3, <1>4, <1>5 DEF IInv, Placed
<1>13. HasSender'
  BY <1>1, <1>2, <1>4, <1>5 DEF IInv, HasSender, Ended
<1>14. NothingMissing'
  BY <1>1, <1>2, <1>4, <1>5 DEF IInv, NothingMissing, Sent
<1>15. Collecting' /\ EndQueued'
  BY <1>1, <1>2, <1>4, <1>5 DEF IInv, TypeOK, Collecting, EndQueued
<1>16. InOrder' /\ Whole'  BY <1>1, <1>5 DEF IInv, InOrder, Whole
<1>17. QED
  BY <1>6, <1>7, <1>8, <1>9, <1>10, <1>11, <1>12, <1>13, <1>14, <1>15, <1>16 DEF IInv

(* What the pump knows of the request it holds.                            *)
LEMMA PrefillHolds ==
  ASSUME IInv, handP.todo \in Todo
  PROVE  /\ handP.r \in Requests /\ handP \in [r : Requests, todo : Todo]
         /\ handP.r \in inflight /\ handP.r \notin waiting /\ handD.r # handP.r
         /\ queued[handP.r] = {} /\ stage[handP.r] \in {"first", "finished"}
         /\ \A q \in Requests : handP.r = q => q = handP.r
<1>1. handP \in [r : Requests, todo : Todo]
  BY DEF IInv, ChannelTypes, Hands, NoHand, Todo
<1>2. QED  BY <1>1 DEF IInv, PrefillHand

LEMMA PumpPrefillGonePreserves ==
  ASSUME IInv, PumpPrefillGone PROVE IInv'
<1> DEFINE r == handP.r
<1>1. UNCHANGED <<streams, queued, waiting>>
  BY DEF PumpPrefillGone, streams, Stream, queued, waiting
<1>2. /\ r \in Requests /\ r \in inflight /\ r \notin waiting /\ handD.r # r
      /\ queued[r] = {} /\ streams[r] = <<>> /\ stage[r] = "first"
  <2>1. handP.todo = "first" /\ handP.todo \in Todo  BY DEF PumpPrefillGone, Todo
  <2>2. QED  BY <2>1, PrefillHolds DEF IInv, PrefillHand
<1>3. /\ rx[r] = "dropped" /\ handP'.r \notin Requests /\ handP' = NoHand
      /\ inflight' = inflight \ {r} /\ stage' = [stage EXCEPT ![r] = "finished"]
      /\ UNCHANGED <<emitted, pdone, events, handD, chan, rx, got, reply, open, lost>>
  BY NoHandFacts DEF PumpPrefillGone, Gone
<1>4. \A q \in Requests : q # r => handP.r # q  OBVIOUS
<1> HIDE DEF r
<1>5. TypeOK' /\ ChannelTypes'
  BY <1>2, <1>3 DEF IInv, TypeOK, Stages, ChannelTypes, Hands
<1>6. QueuedOnce' /\ EventsInOrder'
  BY <1>3 DEF IInv, QueuedOnce, EventsInOrder
<1>7. QueuedEvents'  BY <1>1, <1>2, <1>3 DEF IInv, TypeOK, QueuedEvents
<1>8. PrefillHand' /\ DecodeHand'
  BY <1>1, <1>2, <1>3 DEF IInv, TypeOK, PrefillHand, DecodeHand
<1>9. Placed'  BY <1>1, <1>2, <1>3, <1>4 DEF IInv, TypeOK, Placed
<1>10. HasSender'
  BY <1>1, <1>2, <1>3, <1>4 DEF IInv, TypeOK, HasSender, Ended
<1>11. NothingMissing'
  BY <1>1, <1>2, <1>3, <1>4 DEF IInv, TypeOK, NothingMissing, Sent
<1>12. Collecting' /\ EndQueued'
  BY <1>1, <1>2, <1>3, <1>4 DEF IInv, TypeOK, Collecting, EndQueued
<1>13. InOrder' /\ Whole'  BY <1>1, <1>3 DEF IInv, InOrder, Whole
<1>14. QED
  BY <1>5, <1>6, <1>7, <1>8, <1>9, <1>10, <1>11, <1>12, <1>13 DEF IInv

LEMMA PumpPrefillFirstPreserves ==
  ASSUME IInv, PumpPrefillFirst PROVE IInv'
<1> DEFINE r == handP.r
<1> DEFINE short == MaxTokens[r] <= 1
<1>1. UNCHANGED <<queued, waiting>>
  BY DEF PumpPrefillFirst, queued, waiting
<1>2. /\ r \in Requests /\ r \in inflight /\ r \notin waiting /\ handD.r # r
      /\ queued[r] = {} /\ streams[r] = <<>> /\ stage[r] = "first" /\ emitted[r] = 1
      /\ handP \in [r : Requests, todo : Todo] /\ MaxTokens[r] \in Nat
  <2>1. handP.todo = "first" /\ handP.todo \in Todo  BY DEF PumpPrefillFirst, Todo
  <2>2. QED
    BY <2>1, PrefillHolds, DeploymentAssumption DEF IInv, PrefillHand, Placed
<1>3. /\ rx[r] = "open" /\ Len(chan[r]) < ChannelDepth /\ Send(r, Token(1))
      /\ UNCHANGED <<emitted, inflight, pdone, events, handD, rx, got, reply, open, lost>>
  BY DEF PumpPrefillFirst, Room
<1>4. Token(1) \in Chunks /\ Token(1) \notin Terminal  BY ChunkFacts
<1>5. /\ streams' = [streams EXCEPT ![r] = Append(@, Token(1))]
      /\ chan' \in [Requests -> Seq(Chunks)] /\ Len(chan'[r]) = Len(chan[r]) + 1
      /\ \A q \in Requests : q # r => chan'[q] = chan[q]
  BY <1>2, <1>3, <1>4, SendAppends DEF IInv
<1>6. /\ streams'[r] = <<Token(1)>> /\ streams'[r] # <<>> /\ Len(streams'[r]) = 1
      /\ streams'[r][1] = Token(1)
      /\ \A q \in Requests : q # r => streams'[q] = streams[q]
  BY <1>2, <1>5, StreamTypes DEF IInv
<1>7. /\ stage' = [stage EXCEPT ![r] = IF short THEN "finished" ELSE "first"]
      /\ handP' \in [r : Requests, todo : Todo] /\ handP'.r = r
      /\ handP'.todo = IF short THEN "done" ELSE "admit"
  BY <1>2 DEF PumpPrefillFirst, Todo, IInv, TypeOK
<1>8. \A q \in Requests : q # r => handP.r # q  OBVIOUS
<1> HIDE DEF r
<1>9. TypeOK'
  <2>1. \A q \in Requests : Len(chan'[q]) <= ChannelDepth
    <3>1. Len(chan'[r]) <= ChannelDepth
      BY <1>2, <1>3, <1>5, DeploymentAssumption DEF IInv, ChannelTypes
    <3>2. QED  BY <1>5, <3>1 DEF IInv, TypeOK
  <2>2. QED  BY <1>2, <1>3, <1>7, <2>1 DEF IInv, TypeOK, Stages
<1>10. ChannelTypes'  BY <1>3, <1>5, <1>7 DEF IInv, ChannelTypes, Hands
<1>11. QueuedOnce' /\ EventsInOrder'
  BY <1>3 DEF IInv, QueuedOnce, EventsInOrder
<1>12. QueuedEvents'  BY <1>1, <1>2, <1>3, <1>7 DEF IInv, TypeOK, QueuedEvents
<1>13. PrefillHand'
  BY <1>1, <1>2, <1>3, <1>6, <1>7 DEF IInv, TypeOK, PrefillHand
<1>14. DecodeHand'
  BY <1>1, <1>2, <1>3, <1>6, <1>7 DEF IInv, TypeOK, DecodeHand
<1>15. Placed'
  BY <1>1, <1>2, <1>3, <1>6, <1>7, <1>8 DEF IInv, TypeOK, Placed
<1>16. HasSender'
  BY <1>1, <1>2, <1>3, <1>4, <1>6, <1>7, <1>8 DEF IInv, TypeOK, HasSender, Ended
<1>17. NothingMissing'
  BY <1>1, <1>2, <1>3, <1>6, <1>7, <1>8 DEF IInv, TypeOK, NothingMissing, Sent
<1>18. Collecting' /\ EndQueued'
  BY <1>1, <1>2, <1>3, <1>7, <1>8 DEF IInv, TypeOK, Collecting, EndQueued
<1>19. InOrder' /\ Whole'
  <2>1. InOrder'
    <3> SUFFICES ASSUME NEW q \in Requests, NEW k \in 1 .. Len(streams'[q])
                 PROVE  \/ streams'[q][k] = Token(k)
                        \/ /\ k = Len(streams'[q]) /\ streams'[q][k] \in Terminal
                           /\ streams'[q][k] = Done =>
                                k - 1 = emitted'[q] /\ stage'[q] = "finished"
      BY DEF InOrder
    <3>1. CASE q = r  BY <1>6, <3>1
    <3>2. CASE q # r
      <4>1. streams'[q] = streams[q] /\ emitted'[q] = emitted[q] /\ stage'[q] = stage[q]
        BY <1>3, <1>6, <1>7, <3>2 DEF IInv, TypeOK
      <4>2. QED  BY <4>1 DEF IInv, InOrder
    <3>3. QED  BY <3>1, <3>2
  <2>2. Whole'  BY <1>3 DEF IInv, Whole
  <2>3. QED  BY <2>1, <2>2
<1>20. QED
  BY <1>9, <1>10, <1>11, <1>12, <1>13, <1>14, <1>15, <1>16, <1>17, <1>18, <1>19
  DEF IInv

LEMMA PumpPrefillAdmitPreserves ==
  ASSUME IInv, PumpPrefillAdmit PROVE IInv'
<1> DEFINE r == handP.r
<1>1. UNCHANGED <<streams, queued, waiting>>
  BY DEF PumpPrefillAdmit, streams, Stream, queued, waiting
<1>2. /\ r \in Requests /\ r \in inflight /\ r \notin waiting /\ handD.r # r
      /\ queued[r] = {} /\ (rx[r] = "open" => streams[r] = <<Token(1)>>)
      /\ stage[r] = "first" /\ emitted[r] = 1 /\ MaxTokens[r] > 1
      /\ handP \in [r : Requests, todo : Todo] /\ MaxTokens[r] \in Nat
  <2>1. handP.todo = "admit" /\ handP.todo \in Todo  BY DEF PumpPrefillAdmit, Todo
  <2>2. QED
    BY <2>1, PrefillHolds, DeploymentAssumption DEF IInv, PrefillHand, Placed
<1>3. \A q \in Requests : q # r => handP.r # q  OBVIOUS
<1>4. rx[r] = "open" => ~ Ended(r) /\ Len(streams[r]) = 1
  <2>1. Token(1) \notin Terminal  BY ChunkFacts
  <2>2. Len(<<Token(1)>>) = 1 /\ <<Token(1)>>[1] = Token(1)  OBVIOUS
  <2>3. QED  BY <1>2, <2>1, <2>2 DEF Ended
<1>5. UNCHANGED <<emitted, inflight, pdone, events, handD, chan, rx, got, reply, open, lost>>
  BY DEF PumpPrefillAdmit
<1>6. QueuedOnce' /\ EventsInOrder'
  BY <1>5 DEF IInv, QueuedOnce, EventsInOrder
<1>7. CASE open["decode"]
  <2>1. handP'.r \notin Requests /\ handP' = NoHand
        /\ stage' = [stage EXCEPT ![r] = "decode"]
    BY <1>7, NoHandFacts DEF PumpPrefillAdmit
  <2> HIDE DEF r
  <2>2. TypeOK' /\ ChannelTypes'
    BY <1>2, <1>5, <2>1 DEF IInv, TypeOK, Stages, ChannelTypes, Hands
  <2>3. QueuedEvents'  BY <1>1, <1>2, <1>5, <2>1 DEF IInv, TypeOK, QueuedEvents
  <2>4. PrefillHand' /\ DecodeHand'
    BY <1>1, <1>2, <1>5, <2>1 DEF IInv, TypeOK, PrefillHand, DecodeHand
  <2>5. Placed'  BY <1>1, <1>2, <1>3, <1>5, <2>1 DEF IInv, TypeOK, Placed
  <2>6. HasSender'
    BY <1>1, <1>2, <1>3, <1>4, <1>5, <2>1 DEF IInv, TypeOK, HasSender, Ended
  <2>7. NothingMissing'
    <3> SUFFICES ASSUME NEW q \in Requests, rx[q] = "open", q \in inflight,
                        stage'[q] \in {"decode", "finished"}
                 PROVE  /\ Sent(q) <= emitted[q]
                        /\ \A m \in Sent(q) + 1 .. emitted[q] : Token(m) \in queued[q]
                        /\ \A n \in Nat : Token(n) \in queued[q] => n > Sent(q)
      BY <1>1, <1>5 DEF NothingMissing, Sent
    <3>1. CASE q = r
      <4>1. Sent(q) = 1 /\ emitted[q] = 1 /\ queued[q] = {}  BY <1>2, <1>4, <3>1 DEF Sent
      <4>2. QED  BY <4>1
    <3>2. CASE q # r
      <4>1. stage[q] \in {"decode", "finished"} /\ handP.r # q
        BY <1>3, <2>1, <3>2 DEF IInv, TypeOK
      <4>2. QED  BY <4>1 DEF IInv, NothingMissing
    <3>3. QED  BY <3>1, <3>2
  <2>8. Collecting' /\ EndQueued'
    BY <1>1, <1>2, <1>3, <1>5, <2>1 DEF IInv, TypeOK, Collecting, EndQueued
  <2>9. InOrder' /\ Whole'
    BY <1>1, <1>2, <1>5, <2>1 DEF IInv, TypeOK, InOrder, Whole
  <2>10. QED
    BY <1>6, <2>2, <2>3, <2>4, <2>5, <2>6, <2>7, <2>8, <2>9 DEF IInv
<1>8. CASE ~ open["decode"]
  <2>1. /\ handP' \in [r : Requests, todo : Todo] /\ handP'.r = r /\ handP'.todo = "error"
        /\ stage' = [stage EXCEPT ![r] = "finished"]
    BY <1>2, <1>8 DEF PumpPrefillAdmit, Todo
  <2> HIDE DEF r
  <2>2. TypeOK' /\ ChannelTypes'
    BY <1>2, <1>5, <2>1 DEF IInv, TypeOK, Stages, ChannelTypes, Hands
  <2>3. QueuedEvents'  BY <1>1, <1>2, <1>5, <2>1 DEF IInv, TypeOK, QueuedEvents
  <2>4. PrefillHand' /\ DecodeHand'
    BY <1>1, <1>2, <1>5, <2>1 DEF IInv, TypeOK, PrefillHand, DecodeHand
  <2>5. Placed'  BY <1>1, <1>2, <1>3, <1>5, <2>1 DEF IInv, TypeOK, Placed
  <2>6. HasSender'
    BY <1>1, <1>2, <1>3, <1>4, <1>5, <2>1 DEF IInv, TypeOK, HasSender, Ended
  <2>7. NothingMissing'
    BY <1>1, <1>2, <1>3, <1>4, <1>5, <2>1 DEF IInv, TypeOK, NothingMissing, Sent
  <2>8. Collecting' /\ EndQueued'
    BY <1>1, <1>2, <1>3, <1>5, <2>1 DEF IInv, TypeOK, Collecting, EndQueued
  <2>9. InOrder' /\ Whole'
    BY <1>1, <1>2, <1>5, <2>1 DEF IInv, TypeOK, InOrder, Whole
  <2>10. QED
    BY <1>6, <2>2, <2>3, <2>4, <2>5, <2>6, <2>7, <2>8, <2>9 DEF IInv
<1>9. QED  BY <1>7, <1>8

(* A chunk that ends the stream of a client, or one that is the next       *)
(* token, keeps the stream in order.                                       *)
LEMMA AppendInOrder ==
  ASSUME IInv, NEW r \in Requests, ~ Ended(r), NEW c \in Chunks,
         streams' = [streams EXCEPT ![r] = Append(@, c)], UNCHANGED <<emitted, stage>>,
         \/ c = Token(Len(streams[r]) + 1)
         \/ c = Error
         \/ c = Done /\ Len(streams[r]) = emitted[r] /\ stage[r] = "finished"
  PROVE  /\ InOrder'
         /\ Len(streams'[r]) = Len(streams[r]) + 1
         /\ Ended(r)' <=> c \in Terminal
         /\ \A q \in Requests : q # r => streams'[q] = streams[q]
<1> DEFINE n == Len(streams[r])
<1>1. streams[r] \in Seq(Chunks) /\ n \in Nat /\ MaxTokens[r] \in Nat
  BY StreamTypes, DeploymentAssumption DEF IInv
<1>2. streams'[r] = Append(streams[r], c)
      /\ \A q \in Requests : q # r => streams'[q] = streams[q]
  BY StreamTypes DEF IInv
<1>3. /\ Len(streams'[r]) = n + 1 /\ streams'[r] # <<>> /\ streams'[r][n + 1] = c
      /\ \A k \in 1 .. n : streams'[r][k] = streams[r][k]
  BY <1>1, <1>2, AppendProperties
<1>4. \A k \in 1 .. n : streams[r][k] = Token(k)
  <2> TAKE k \in 1 .. n
  <2>1. ASSUME k = n, streams[r][k] \in Terminal PROVE FALSE
    <3>1. streams[r] # <<>>  BY <1>1, <2>1
    <3>2. QED  BY <2>1, <3>1 DEF Ended
  <2>2. QED  BY <2>1 DEF IInv, InOrder
<1>5. Ended(r)' <=> c \in Terminal  BY <1>1, <1>3 DEF Ended
<1>6. \A k \in 1 .. n + 1 :
        \/ streams'[r][k] = Token(k)
        \/ /\ k = n + 1 /\ streams'[r][k] \in Terminal
           /\ streams'[r][k] = Done => k - 1 = emitted[r] /\ stage[r] = "finished"
  <2> TAKE k \in 1 .. n + 1
  <2>1. CASE k \in 1 .. n  BY <1>3, <1>4, <2>1
  <2>2. CASE k = n + 1
    <3>1. k - 1 = n /\ streams'[r][k] = c  BY <1>1, <1>3, <2>2
    <3>2. QED  BY <2>2, <3>1, ChunkFacts
  <2>3. QED  BY <1>1, <2>1, <2>2
<1>7. InOrder'
  <2> SUFFICES ASSUME NEW q \in Requests, NEW k \in 1 .. Len(streams'[q])
               PROVE  \/ streams'[q][k] = Token(k)
                      \/ /\ k = Len(streams'[q]) /\ streams'[q][k] \in Terminal
                         /\ streams'[q][k] = Done => k - 1 = emitted[q] /\ stage[q] = "finished"
    BY DEF InOrder
  <2>1. CASE q = r  BY <1>3, <1>6, <2>1
  <2>2. CASE q # r  BY <1>2, <2>2 DEF IInv, InOrder
  <2>3. QED  BY <2>1, <2>2
<1>8. QED  BY <1>2, <1>3, <1>5, <1>7

LEMMA PumpPrefillEndPreserves ==
  ASSUME IInv, PumpPrefillEnd PROVE IInv'
<1> PICK r \in Requests : handP.r = r
  <2>1. handP.todo \in Todo  BY DEF PumpPrefillEnd, Todo
  <2>2. QED  BY <2>1, PrefillHolds
<1>1. UNCHANGED <<queued, waiting>>
  BY DEF PumpPrefillEnd, queued, waiting
<1>2. /\ r \in Requests /\ r \in inflight /\ r \notin waiting /\ handD.r # r
      /\ queued[r] = {} /\ (rx[r] = "open" => streams[r] = <<Token(1)>>)
      /\ stage[r] = "finished" /\ emitted[r] = 1
  <2>1. handP.todo \in {"done", "error"} /\ handP.todo \in Todo
    BY DEF PumpPrefillEnd, Todo
  <2>2. QED
    BY <2>1, PrefillHolds DEF IInv, PrefillHand
<1>3. \A q \in Requests : q # r => handP.r # q  OBVIOUS
<1>4. /\ handP'.r \notin Requests /\ handP' = NoHand /\ inflight' = inflight \ {r}
      /\ UNCHANGED <<stage, emitted, pdone, events, handD, rx, got, reply, open, lost>>
  BY NoHandFacts DEF PumpPrefillEnd
<1>5. QueuedOnce' /\ EventsInOrder'
  BY <1>4 DEF IInv, QueuedOnce, EventsInOrder
<1>6. QueuedEvents' /\ Collecting' /\ Whole'
  BY <1>1, <1>4 DEF IInv, QueuedEvents, Collecting, Whole
<1>7. EndQueued'  BY <1>1, <1>2, <1>3, <1>4 DEF IInv, TypeOK, EndQueued
<1>8. CASE Gone(r)
  <2>1. rx[r] = "dropped" /\ UNCHANGED <<chan, streams>>
    BY <1>4, <1>8 DEF PumpPrefillEnd, Gone, streams, Stream
  <2>2. TypeOK' /\ ChannelTypes'
    BY <1>2, <1>4, <2>1 DEF IInv, TypeOK, ChannelTypes, Hands
  <2>3. PrefillHand' /\ DecodeHand'
    BY <1>1, <1>2, <1>4, <2>1 DEF IInv, PrefillHand, DecodeHand
  <2>4. Placed'  BY <1>1, <1>2, <1>3, <1>4, <2>1 DEF IInv, Placed
  <2>5. HasSender'
    BY <1>1, <1>2, <1>3, <1>4, <2>1 DEF IInv, HasSender, Ended
  <2>6. NothingMissing'
    BY <1>1, <1>2, <1>3, <1>4, <2>1 DEF IInv, NothingMissing, Sent
  <2>7. InOrder'  BY <1>4, <2>1 DEF IInv, InOrder
  <2>8. QED
    BY <1>5, <1>6, <1>7, <2>2, <2>3, <2>4, <2>5, <2>6, <2>7 DEF IInv
<1>9. CASE ~ Gone(r)
  <2> DEFINE c == IF handP.todo = "done" THEN Done ELSE Error
  <2>1. Send(r, c) /\ rx[r] = "open" /\ Len(chan[r]) < ChannelDepth
    BY <1>9 DEF PumpPrefillEnd, Gone, Room
  <2>2. /\ c \in Chunks /\ c \in Terminal
        /\ c = Error \/ c = Done
    BY ChunkFacts
  <2> HIDE DEF c
  <2>3. /\ streams' = [streams EXCEPT ![r] = Append(@, c)]
        /\ chan' \in [Requests -> Seq(Chunks)] /\ Len(chan'[r]) = Len(chan[r]) + 1
        /\ \A q \in Requests : q # r => chan'[q] = chan[q]
    BY <1>2, <1>4, <2>1, <2>2, SendAppends DEF IInv
  <2>4. Len(streams[r]) = 1 /\ ~ Ended(r)
    <3>1. Token(1) \notin Terminal  BY ChunkFacts
    <3>2. Len(<<Token(1)>>) = 1 /\ <<Token(1)>>[1] = Token(1)  OBVIOUS
    <3>3. QED  BY <1>2, <2>1, <3>1, <3>2 DEF Ended
  <2>5. InOrder' /\ Ended(r)' /\ \A q \in Requests : q # r => streams'[q] = streams[q]
    BY <1>2, <1>4, <2>2, <2>3, <2>4, AppendInOrder
  <2>6. TypeOK'
    <3>1. \A q \in Requests : Len(chan'[q]) <= ChannelDepth
      <4>1. Len(chan'[r]) <= ChannelDepth
        BY <1>2, <2>1, <2>3, DeploymentAssumption DEF IInv, ChannelTypes
      <4>2. QED  BY <2>3, <4>1 DEF IInv, TypeOK
    <3>2. QED  BY <1>2, <1>4, <3>1 DEF IInv, TypeOK
  <2>7. ChannelTypes'  BY <1>4, <2>3 DEF IInv, ChannelTypes, Hands
  <2>8. PrefillHand' /\ DecodeHand'
    BY <1>1, <1>2, <1>4, <2>5 DEF IInv, PrefillHand, DecodeHand
  <2>9. Placed'  BY <1>1, <1>2, <1>3, <1>4, <2>5 DEF IInv, Placed
  <2>10. HasSender'
    BY <1>1, <1>2, <1>3, <1>4, <2>5 DEF IInv, HasSender, Ended
  <2>11. NothingMissing'
    BY <1>1, <1>2, <1>3, <1>4, <2>5 DEF IInv, NothingMissing, Sent
  <2>12. QED
    BY <1>5, <1>6, <1>7, <2>5, <2>6, <2>7, <2>8, <2>9, <2>10, <2>11 DEF IInv
<1>10. QED  BY <1>8, <1>9

-------------------------------------------------------------------------------
(* The decode pump.  The event it takes comes before those that stay.      *)
LEMMA EventTaken ==
  ASSUME IInv, events # <<>>, events' = Tail(events)
  PROVE  LET r == Head(events).r
             c == Head(events).chunk
         IN  /\ r \in Requests /\ c \in Chunks
             /\ events' \in Seq([r : Requests, chunk : Chunks]) /\ EventsInOrder'
             /\ queued[r] = queued'[r] \cup {c}
             /\ \A d \in queued'[r] : Before(c, d)
             /\ \A q \in Requests : q # r => queued'[q] = queued[q]
<1> DEFINE r == Head(events).r
<1> DEFINE c == Head(events).chunk
<1> DEFINE n == Len(events)
<1>1. /\ events \in Seq([r : Requests, chunk : Chunks]) /\ n \in Nat \ {0}
      /\ events[1].r = r /\ events[1].chunk = c /\ r \in Requests /\ c \in Chunks
      /\ events' \in Seq([r : Requests, chunk : Chunks]) /\ Len(events') = n - 1
      /\ \A k \in 1 .. n - 1 : events'[k] = events[k + 1] /\ k + 1 \in 1 .. n
  <2>1. events \in Seq([r : Requests, chunk : Chunks])  BY DEF IInv, ChannelTypes
  <2>2. n \in Nat \ {0} /\ events[1] = Head(events)  BY <2>1
  <2>3. 1 \in 1 .. n  BY <2>2
  <2>4. r \in Requests /\ c \in Chunks  BY <2>1, <2>2, <2>3, EventTypes
  <2>5. /\ events' \in Seq([r : Requests, chunk : Chunks]) /\ Len(events') = n - 1
        /\ \A k \in 1 .. n - 1 : events'[k] = events[k + 1]
    BY <2>1, HeadTailProperties
  <2>6. QED  BY <2>1, <2>2, <2>4, <2>5
<1> HIDE DEF r, c, n
<1>2. EventsInOrder'
  <2> SUFFICES ASSUME NEW k \in 1 .. n - 1, NEW l \in 1 .. n - 1, k < l,
                      events'[k].r = events'[l].r
               PROVE  Before(events'[k].chunk, events'[l].chunk)
    BY <1>1 DEF EventsInOrder
  <2>1. k + 1 \in 1 .. n /\ l + 1 \in 1 .. n /\ k + 1 < l + 1  BY <1>1
  <2>2. QED  BY <1>1, <2>1 DEF IInv, EventsInOrder, n
<1>3. \A q \in Requests, d \in Chunks :
        (\E k \in 1 .. Len(events) : events[k].r = q /\ events[k].chunk = d)
        <=> \/ \E k \in 1 .. Len(events') : events'[k].r = q /\ events'[k].chunk = d
            \/ q = r /\ d = c
  <2> TAKE q \in Requests, d \in Chunks
  <2>1. ASSUME NEW k \in 1 .. n, events[k].r = q, events[k].chunk = d, k # 1
        PROVE  \E l \in 1 .. Len(events') : events'[l].r = q /\ events'[l].chunk = d
    <3>1. k - 1 \in 1 .. n - 1 /\ events'[k - 1] = events[k]  BY <1>1, <2>1
    <3>2. QED  BY <1>1, <2>1, <3>1
  <2>2. ASSUME NEW l \in 1 .. n - 1, events'[l].r = q, events'[l].chunk = d
        PROVE  \E k \in 1 .. Len(events) : events[k].r = q /\ events[k].chunk = d
    BY <1>1, <2>2 DEF n
  <2>3. 1 \in 1 .. n  BY <1>1
  <2>4. QED  BY <1>1, <2>1, <2>2, <2>3 DEF n
<1>4. /\ queued[r] = queued'[r] \cup {c}
      /\ \A q \in Requests : q # r => queued'[q] = queued[q]
  BY <1>1, <1>3 DEF queued
<1>5. \A d \in queued'[r] : Before(c, d)
  <2> TAKE d \in queued'[r]
  <2>1. PICK l \in 1 .. n - 1 : events'[l].r = r /\ events'[l].chunk = d
    BY <1>1 DEF queued
  <2>2. 1 < l + 1 /\ 1 \in 1 .. n /\ l + 1 \in 1 .. n  BY <1>1
  <2>3. QED  BY <1>1, <2>1, <2>2 DEF IInv, EventsInOrder, n
<1>6. QED  BY <1>1, <1>2, <1>4, <1>5 DEF r, c

(* For a client that is still there, it is the next token, or the end      *)
(* after all the tokens.                                                   *)
LEMMA NextEvent ==
  ASSUME IInv, NEW r \in Requests, NEW c \in Chunks, NEW rest,
         handD.r # r, queued[r] = rest \cup {c}, \A d \in rest : Before(c, d)
  PROVE  /\ handP.r # r /\ stage[r] \in {"decode", "finished"} /\ c # Error
         /\ rx[r] = "open" => r \in inflight
         /\ c = Done => /\ rest = {} /\ stage[r] = "finished"
                        /\ rx[r] = "open" => Len(streams[r]) = emitted[r]
         /\ c # Done /\ rx[r] = "open" => c = Token(Len(streams[r]) + 1)
<1>1. handP.r # r /\ stage[r] \in {"decode", "finished"} /\ c # Error
  BY DEF IInv, PrefillHand, QueuedEvents
<1>2. rx[r] = "open" => r \in inflight
  BY DEF IInv, HasSender
<1>3. Len(streams[r]) \in Nat /\ emitted[r] \in Nat
  BY StreamTypes DEF IInv, ChannelTypes
<1>4. rx[r] = "open" =>
        /\ Len(streams[r]) <= emitted[r]
        /\ \A m \in Len(streams[r]) + 1 .. emitted[r] : Token(m) \in queued[r]
        /\ \A n \in Nat : Token(n) \in queued[r] => n > Len(streams[r])
  BY <1>1, <1>2 DEF IInv, NothingMissing, Sent
<1>5. c = Done => rest = {}
  BY ChunkFacts DEF Before
<1>6. c = Done /\ rx[r] = "open" => Len(streams[r]) = emitted[r]
  <2> SUFFICES ASSUME c = Done, rx[r] = "open", Len(streams[r]) < emitted[r]
               PROVE  FALSE
    BY <1>3, <1>4
  <2>1. emitted[r] \in Len(streams[r]) + 1 .. emitted[r]  BY <1>3
  <2>2. Token(emitted[r]) \in queued[r]  BY <1>4, <2>1
  <2>3. QED  BY <1>3, <1>5, <2>2, ChunkFacts
<1>7. c # Done /\ rx[r] = "open" => c = Token(Len(streams[r]) + 1)
  <2> SUFFICES ASSUME c # Done, rx[r] = "open" PROVE c = Token(Len(streams[r]) + 1)
    OBVIOUS
  <2> DEFINE s == Len(streams[r]) + 1
  <2>1. PICK n \in Nat : c = Token(n)  BY <1>1, ChunkFacts
  <2>2. n > Len(streams[r])  BY <1>4, <2>1
  <2>3. n <= emitted[r]  BY <2>1 DEF IInv, QueuedEvents
  <2>4. s \in Nat /\ s \in Len(streams[r]) + 1 .. emitted[r] /\ s <= n
    BY <1>3, <2>2, <2>3
  <2> HIDE DEF s
  <2>5. Token(s) \in queued[r]  BY <1>4, <2>4
  <2>6. Token(s) \in rest => n < s  BY <2>1, <2>4, ChunkFacts DEF Before
  <2>7. Token(s) = c  BY <2>4, <2>5, <2>6
  <2>8. QED  BY <2>7 DEF s
<1>8. c = Done => stage[r] = "finished"
  BY DEF IInv, QueuedEvents
<1>9. QED  BY <1>1, <1>2, <1>5, <1>6, <1>7, <1>8

LEMMA PumpDecodeTakePreserves ==
  ASSUME IInv, PumpDecodeTake PROVE IInv'
<1>1. PICK r \in Requests, c \in Chunks : r = Head(events).r /\ c = Head(events).chunk
  BY EventTaken DEF PumpDecodeTake
<1>2. /\ events' \in Seq([r : Requests, chunk : Chunks]) /\ EventsInOrder'
      /\ queued[r] = queued'[r] \cup {c} /\ \A d \in queued'[r] : Before(c, d)
      /\ \A q \in Requests : q # r => queued'[q] = queued[q]
  BY <1>1, EventTaken DEF PumpDecodeTake
<1>3. /\ handD' = IF r \in inflight THEN [r |-> r, todo |-> c] ELSE NoHand
      /\ inflight' = IF c = Done THEN inflight \ {r} ELSE inflight
      /\ UNCHANGED <<stage, emitted, pdone, handP, chan, rx, got, reply, open, lost>>
      /\ \A q \in Requests : handD.r # q
  BY <1>1, NoHandFacts DEF PumpDecodeTake
<1>4. /\ handP.r # r /\ stage[r] \in {"decode", "finished"} /\ c # Error
      /\ rx[r] = "open" => r \in inflight
      /\ c = Done => /\ queued'[r] = {} /\ stage[r] = "finished"
                     /\ rx[r] = "open" => Len(streams[r]) = emitted[r]
      /\ c # Done /\ rx[r] = "open" => c = Token(Len(streams[r]) + 1)
  BY <1>2, <1>3, NextEvent
<1>5. /\ r \in inflight => handD'.r = r /\ handD'.todo = c
      /\ r \notin inflight => handD'.r \notin Requests
      /\ \A q \in Requests : q # r => handD'.r # q
      /\ handD' \in Hands(Chunks)
  BY <1>1, <1>3, NoHandFacts DEF Hands
<1>6. UNCHANGED <<streams, waiting>>
  BY <1>3 DEF streams, Stream, waiting
<1>7. TypeOK'
  <2>1. \A k \in 1 .. Len(events') : events'[k].r \in Requests  BY <1>2, EventTypes
  <2>2. QED  BY <1>3, <2>1 DEF IInv, TypeOK
<1>8. ChannelTypes'  BY <1>2, <1>3, <1>5 DEF IInv, ChannelTypes
<1>9. QueuedOnce'  BY <1>3 DEF IInv, QueuedOnce
<1>10. QueuedEvents'  BY <1>2, <1>3, <1>4 DEF IInv, QueuedEvents
<1>11. PrefillHand'
  BY <1>2, <1>3, <1>4, <1>5, <1>6 DEF IInv, PrefillHand
<1>12. DecodeHand'
  BY <1>2, <1>3, <1>4, <1>5, <1>6 DEF DecodeHand
<1>13. Placed'  BY <1>3, <1>4, <1>6 DEF IInv, Placed
<1>14. HasSender'
  BY <1>2, <1>3, <1>4, <1>5, <1>6 DEF IInv, HasSender, Ended
<1>15. NothingMissing'
  <2> SUFFICES ASSUME NEW q \in Requests, rx[q] = "open", q \in inflight',
                      stage[q] \in {"decode", "finished"}, handP.r # q
               PROVE  /\ Sent(q)' <= emitted[q]
                      /\ \A m \in Sent(q)' + 1 .. emitted[q] : Token(m) \in queued'[q]
                      /\ \A n \in Nat : Token(n) \in queued'[q] => n > Sent(q)'
    BY <1>3 DEF NothingMissing
  <2>1. /\ Len(streams[q]) <= emitted[q]
        /\ \A m \in Len(streams[q]) + 1 .. emitted[q] : Token(m) \in queued[q]
        /\ \A n \in Nat : Token(n) \in queued[q] => n > Len(streams[q])
    BY <1>3 DEF IInv, NothingMissing, Sent
  <2>2. Len(streams[q]) \in Nat /\ emitted[q] \in Nat
    BY StreamTypes DEF IInv, ChannelTypes
  <2>3. CASE q # r
    <3>1. Sent(q)' = Len(streams[q])  BY <1>5, <1>6, <2>3 DEF Sent
    <3>2. QED  BY <1>2, <2>1, <2>3, <3>1
  <2>4. CASE q = r
    <3> DEFINE s == Len(streams[q]) + 1
    <3>1. c # Done /\ r \in inflight  BY <1>3, <2>4
    <3>2. c = Token(s)  BY <1>4, <2>4, <3>1
    <3>3. Sent(q)' = s  BY <1>5, <1>6, <2>4, <3>1 DEF Sent
    <3>4. s \in Nat /\ s > Len(streams[q])  BY <2>2
    <3>5. s <= emitted[q]  BY <1>2, <2>4, <3>2, <3>4 DEF IInv, QueuedEvents
    <3>6. \A n \in Nat : Token(n) \in queued'[q] => n > s
      BY <1>2, <2>4, <3>2, <3>4, ChunkFacts DEF Before
    <3>7. \A m \in s + 1 .. emitted[q] : Token(m) \in queued'[q]
      <4> TAKE m \in s + 1 .. emitted[q]
      <4>1. m \in Nat /\ m # s /\ m \in Len(streams[q]) + 1 .. emitted[q]
        BY <2>2, <3>4
      <4>2. Token(m) \in queued[q] /\ Token(m) # c  BY <2>1, <3>2, <3>4, <4>1, ChunkFacts
      <4>3. QED  BY <1>2, <2>4, <4>2
    <3>8. QED  BY <3>3, <3>5, <3>6, <3>7
  <2>5. QED  BY <2>3, <2>4
<1>16. Collecting'  BY <1>3 DEF IInv, Collecting
<1>17. EndQueued'  BY <1>2, <1>3, <1>4 DEF IInv, TypeOK, EndQueued
<1>18. InOrder' /\ Whole'  BY <1>3, <1>6 DEF IInv, InOrder, Whole
<1>19. QED
  BY <1>2, <1>7, <1>8, <1>9, <1>10, <1>11, <1>12, <1>13, <1>14, <1>15, <1>16, <1>17,
     <1>18 DEF IInv

LEMMA PumpDecodeSendPreserves ==
  ASSUME IInv, PumpDecodeSend PROVE IInv'
<1> DEFINE c == handD.todo
<1>1. PICK r \in Requests : handD.r = r /\ handD.todo \in Chunks
  BY NoHandFacts DEF PumpDecodeSend, IInv, ChannelTypes
<1>2. UNCHANGED <<queued, waiting>>
  BY DEF PumpDecodeSend, queued, waiting
<1>3. /\ handD'.r \notin Requests /\ handD' = NoHand
      /\ UNCHANGED <<stage, emitted, pdone, events, handP, rx, got, reply, open, lost>>
      /\ \A q \in Requests : q # r => handD.r # q
  BY <1>1, NoHandFacts DEF PumpDecodeSend
<1>4. /\ stage[r] \in {"decode", "finished"} /\ c # Error /\ handP.r # r
      /\ c = Done =>
           /\ stage[r] = "finished"
           /\ r \notin inflight /\ queued[r] = {}
           /\ rx[r] = "open" => Len(streams[r]) = emitted[r]
      /\ c # Done /\ rx[r] = "open" =>
           r \in inflight /\ c = Token(Len(streams[r]) + 1)
      /\ rx[r] = "open" => ~ Ended(r)
  BY <1>1 DEF IInv, DecodeHand, PrefillHand, HasSender
<1>5. QueuedOnce' /\ EventsInOrder'
  BY <1>3 DEF IInv, QueuedOnce, EventsInOrder
<1>6. QueuedEvents' /\ Collecting' /\ Whole'
  BY <1>2, <1>3 DEF IInv, QueuedEvents, Collecting, Whole
<1>7. CASE Gone(r)
  <2>1. rx[r] = "dropped" /\ inflight' = inflight \ {r} /\ UNCHANGED <<chan, streams>>
    BY <1>1, <1>3, <1>7 DEF PumpDecodeSend, Gone, streams, Stream
  <2>2. TypeOK' /\ ChannelTypes'
    BY <1>3, <2>1 DEF IInv, TypeOK, ChannelTypes, Hands
  <2>3. PrefillHand' /\ DecodeHand'
    BY <1>2, <1>3, <1>4, <2>1 DEF IInv, PrefillHand, DecodeHand
  <2>4. Placed'  BY <1>2, <1>3, <1>4, <2>1 DEF IInv, Placed
  <2>5. HasSender'
    BY <1>2, <1>3, <1>4, <2>1 DEF IInv, HasSender, Ended
  <2>6. NothingMissing'
    BY <1>2, <1>3, <1>4, <2>1 DEF IInv, NothingMissing, Sent
  <2>7. EndQueued' /\ InOrder'
    BY <1>2, <1>3, <2>1 DEF IInv, TypeOK, EndQueued, InOrder
  <2>8. QED
    BY <1>5, <1>6, <2>2, <2>3, <2>4, <2>5, <2>6, <2>7 DEF IInv
<1>8. CASE ~ Gone(r)
  <2>1. /\ Send(r, c) /\ rx[r] = "open" /\ Len(chan[r]) < ChannelDepth
        /\ UNCHANGED inflight
    BY <1>1, <1>8 DEF PumpDecodeSend, Gone, Room
  <2>2. c \in Chunks /\ (c \in Terminal <=> c = Done)  BY <1>1, <1>4, ChunkFacts
  <2>3. /\ streams' = [streams EXCEPT ![r] = Append(@, c)]
        /\ chan' \in [Requests -> Seq(Chunks)] /\ Len(chan'[r]) = Len(chan[r]) + 1
        /\ \A q \in Requests : q # r => chan'[q] = chan[q]
    BY <1>1, <1>3, <2>1, <2>2, SendAppends DEF IInv
  <2>4. \/ c = Token(Len(streams[r]) + 1)
        \/ c = Done /\ Len(streams[r]) = emitted[r] /\ stage[r] = "finished"
    BY <1>4, <2>1
  <2>5. /\ InOrder' /\ Len(streams'[r]) = Len(streams[r]) + 1
        /\ Ended(r)' <=> c \in Terminal
        /\ \A q \in Requests : q # r => streams'[q] = streams[q]
    BY <1>3, <1>4, <2>1, <2>2, <2>3, <2>4, AppendInOrder
  <2> HIDE DEF c
  <2>6. TypeOK'
    <3>1. \A q \in Requests : Len(chan'[q]) <= ChannelDepth
      <4>1. Len(chan'[r]) <= ChannelDepth
        BY <2>1, <2>3, DeploymentAssumption DEF IInv, ChannelTypes
      <4>2. QED  BY <2>3, <4>1 DEF IInv, TypeOK
    <3>2. QED  BY <1>3, <2>1, <3>1 DEF IInv, TypeOK
  <2>7. ChannelTypes'  BY <1>3, <2>3 DEF IInv, ChannelTypes, Hands
  <2>8. PrefillHand' /\ DecodeHand'
    BY <1>2, <1>3, <1>4, <2>1, <2>5 DEF IInv, PrefillHand, DecodeHand
  <2>9. Placed'  BY <1>2, <1>3, <1>4, <2>1, <2>5 DEF IInv, Placed
  <2>10. HasSender'
    BY <1>2, <1>3, <1>4, <2>1, <2>2, <2>5 DEF IInv, HasSender, Ended
  <2>11. NothingMissing'
    <3>1. \A q \in Requests : q \in inflight /\ rx[q] = "open" => Sent(q)' = Sent(q)
      BY <1>1, <1>3, <2>5 DEF Sent
    <3>2. QED  BY <1>2, <1>3, <2>1, <3>1 DEF IInv, NothingMissing
  <2>12. EndQueued'  BY <1>2, <1>3, <2>1 DEF IInv, TypeOK, EndQueued
  <2>13. QED
    BY <1>5, <1>6, <2>5, <2>6, <2>7, <2>8, <2>9, <2>10, <2>11, <2>12 DEF IInv
<1>9. QED  BY <1>7, <1>8

-------------------------------------------------------------------------------
(* The handler.                                                            *)
LEMMA ReadPreserves ==
  ASSUME IInv, NEW r \in Requests, Read(r) PROVE IInv'
<1> DEFINE c == Head(chan[r])
<1> DEFINE returns == r \notin Streaming /\ c \in Terminal
<1>1. /\ rx[r] = "open" /\ got' = [got EXCEPT ![r] = Append(@, c)]
      /\ chan' = [chan EXCEPT ![r] = Tail(@)]
      /\ rx' = IF returns THEN [rx EXCEPT ![r] = "dropped"] ELSE rx
      /\ reply' = IF ~ returns THEN reply
                  ELSE [reply EXCEPT ![r] = IF c = Done THEN "ok" ELSE "error"]
      /\ UNCHANGED <<stage, emitted, inflight, pdone, events, handP, handD, open, lost>>
  BY DEF Read
<1>2. chan[r] \in Seq(Chunks) /\ chan[r] # <<>> /\ got[r] \in Seq(Chunks)
  BY DEF Read, IInv, ChannelTypes
<1>3. c \in Chunks /\ Tail(chan[r]) \in Seq(Chunks) /\ Len(Tail(chan[r])) = Len(chan[r]) - 1
  BY <1>2, HeadTailProperties
<1> HIDE DEF c
<1>4. /\ got'[r] = Append(got[r], c) /\ chan'[r] = Tail(chan[r])
      /\ \A q \in Requests : q # r => got'[q] = got[q] /\ chan'[q] = chan[q]
  BY <1>1 DEF IInv, ChannelTypes
<1>5. UNCHANGED streams
  <2>1. got'[r] \o chan'[r] = got[r] \o chan[r]
    BY <1>2, <1>4, HeadConcat DEF c
  <2>2. QED  BY <1>4, <2>1 DEF streams, Stream
<1>6. UNCHANGED <<queued, waiting>>  BY <1>1 DEF queued, waiting
<1>7. /\ Len(got'[r]) = Len(got[r]) + 1 /\ got'[r][Len(got[r]) + 1] = c /\ got'[r] # <<>>
      /\ \A k \in 1 .. Len(got[r]) : got'[r][k] = got[r][k]
  BY <1>2, <1>3, <1>4, AppendProperties
<1>8. /\ rx'[r] = IF returns THEN "dropped" ELSE "open"
      /\ reply'[r] = IF ~ returns THEN reply[r] ELSE IF c = Done THEN "ok" ELSE "error"
      /\ \A q \in Requests : q # r => rx'[q] = rx[q] /\ reply'[q] = reply[q]
      /\ \A q \in Requests : rx'[q] = "open" => rx[q] = "open"
      /\ \A q \in Requests : rx'[q] = "none" <=> rx[q] = "none"
      /\ \A q \in Requests : rx[q] = "dropped" => rx'[q] = "dropped"
  BY <1>1 DEF IInv, TypeOK
<1>9. TypeOK'
  <2>1. \A q \in Requests : Len(chan'[q]) <= ChannelDepth
    <3>1. Len(chan'[r]) <= ChannelDepth
      BY <1>2, <1>3, <1>4, DeploymentAssumption DEF IInv, TypeOK
    <3>2. QED  BY <1>4, <3>1 DEF IInv, TypeOK
  <2>2. rx' \in [Requests -> {"none", "open", "dropped"}]
    BY <1>1 DEF IInv, TypeOK
  <2>3. reply' \in [Requests -> {"none", "ok", "error", "bad", "unavailable"}]
    BY <1>1 DEF IInv, TypeOK
  <2>4. QED  BY <1>1, <2>1, <2>2, <2>3 DEF IInv, TypeOK
<1>10. ChannelTypes'
  <2>1. Append(got[r], c) \in Seq(Chunks)  BY <1>2, <1>3
  <2>2. QED  BY <1>1, <1>3, <2>1 DEF IInv, ChannelTypes
<1>11. QueuedOnce' /\ EventsInOrder' /\ QueuedEvents'
  BY <1>1, <1>6 DEF IInv, QueuedOnce, EventsInOrder, QueuedEvents
<1>12. PrefillHand'  BY <1>1, <1>5, <1>6, <1>8 DEF IInv, PrefillHand
<1>13. DecodeHand'  BY <1>1, <1>5, <1>6, <1>8 DEF IInv, DecodeHand
<1>14. Placed'  BY <1>1, <1>5, <1>6, <1>8 DEF IInv, Placed
<1>15. HasSender'  BY <1>1, <1>5, <1>6, <1>8 DEF IInv, HasSender, Ended
<1>16. NothingMissing'  BY <1>1, <1>5, <1>6, <1>8 DEF IInv, NothingMissing, Sent
<1>17. Collecting'
  <2> SUFFICES ASSUME NEW q \in Requests, rx'[q] = "open", q \notin Streaming,
                      NEW k \in 1 .. Len(got'[q])
               PROVE  got'[q][k] \notin Terminal
    BY DEF Collecting
  <2>1. CASE q # r  BY <1>4, <1>8, <2>1 DEF IInv, Collecting
  <2>2. CASE q = r
    <3>1. c \notin Terminal  BY <1>8, <2>2
    <3>2. Len(got[r]) \in Nat  BY <1>2
    <3>3. k = Len(got[r]) + 1 \/ k \in 1 .. Len(got[r])  BY <1>7, <2>2, <3>2
    <3>4. QED  BY <1>1, <1>7, <2>2, <3>1, <3>3 DEF IInv, Collecting
  <2>3. QED  BY <2>1, <2>2
<1>18. EndQueued'  BY <1>1, <1>6 DEF IInv, EndQueued
<1>19. InOrder'  BY <1>1, <1>5 DEF IInv, InOrder
<1>20. Whole'
  <2> SUFFICES ASSUME NEW q \in Requests, reply'[q] = "ok"
               PROVE  /\ rx'[q] = "dropped" /\ got'[q] # <<>>
                      /\ got'[q][Len(got'[q])] \in Terminal
                      /\ q \notin Streaming => got'[q][Len(got'[q])] = Done
    BY DEF Whole
  <2>1. CASE q # r  BY <1>4, <1>8, <2>1 DEF IInv, Whole
  <2>2. CASE q = r
    <3>1. reply[r] # "ok"  BY <1>1 DEF IInv, Whole
    <3>2. returns /\ c = Done  BY <1>8, <2>2, <3>1
    <3>3. QED  BY <1>7, <1>8, <2>2, <3>2
  <2>3. QED  BY <2>1, <2>2
<1>21. QED
  BY <1>9, <1>10, <1>11, <1>12, <1>13, <1>14, <1>15, <1>16, <1>17, <1>18, <1>19, <1>20
  DEF IInv

(* A channel that closes has been sent its end, and a handler that         *)
(* collects has returned before it could see it close.                     *)
LEMMA ClosePreserves ==
  ASSUME IInv, NEW r \in Requests, Close(r) PROVE IInv'
<1>1. UNCHANGED <<streams, queued, waiting>>
  BY DEF Close, streams, Stream, queued, waiting
<1>2. /\ rx[r] = "open" /\ chan[r] = <<>>
      /\ r \notin inflight /\ handP.r # r /\ handD.r # r
      /\ rx' = [rx EXCEPT ![r] = "dropped"] /\ reply' = [reply EXCEPT ![r] = "ok"]
      /\ UNCHANGED <<stage, emitted, inflight, pdone, events, handP, handD, chan, got,
                     open, lost>>
  BY DEF Close
<1>3. Ended(r)  BY <1>2 DEF IInv, HasSender
<1>4. got[r] \in Seq(Chunks) /\ streams[r] = got[r]
  BY <1>2, ConcatEmptySeq DEF IInv, ChannelTypes, streams, Stream
<1>5. got[r] # <<>> /\ got[r][Len(got[r])] \in Terminal /\ Len(got[r]) \in 1 .. Len(got[r])
  BY <1>3, <1>4 DEF Ended
<1>6. r \in Streaming  BY <1>2, <1>5 DEF IInv, Collecting
<1>7. TypeOK' /\ ChannelTypes'  BY <1>2 DEF IInv, TypeOK, ChannelTypes
<1>8. QueuedOnce' /\ EventsInOrder' /\ QueuedEvents'
  BY <1>1, <1>2 DEF IInv, QueuedOnce, EventsInOrder, QueuedEvents
<1>9. PrefillHand' /\ DecodeHand'
  BY <1>1, <1>2 DEF IInv, TypeOK, PrefillHand, DecodeHand
<1>10. Placed'  BY <1>1, <1>2 DEF IInv, TypeOK, Placed
<1>11. HasSender'  BY <1>1, <1>2 DEF IInv, TypeOK, HasSender, Ended
<1>12. NothingMissing'  BY <1>1, <1>2 DEF IInv, TypeOK, NothingMissing, Sent
<1>13. Collecting' /\ EndQueued'
  BY <1>1, <1>2 DEF IInv, TypeOK, Collecting, EndQueued
<1>14. InOrder'  BY <1>1, <1>2 DEF IInv, InOrder
<1>15. Whole'  BY <1>2, <1>5, <1>6 DEF IInv, TypeOK, Whole
<1>16. QED
  BY <1>7, <1>8, <1>9, <1>10, <1>11, <1>12, <1>13, <1>14,
     <1>15 DEF IInv

(* What a client has read when it hangs up is the beginning of its stream. *)
LEMMA HangUpPreserves ==
  ASSUME IInv, NEW r \in Requests, HangUp(r) PROVE IInv'
<1>1. UNCHANGED <<queued, waiting>>  BY DEF HangUp, queued, waiting
<1>2. /\ rx[r] = "open" /\ rx' = [rx EXCEPT ![r] = "dropped"]
      /\ chan' = [chan EXCEPT ![r] = <<>>]
      /\ UNCHANGED <<stage, emitted, inflight, pdone, events, handP, handD, got, reply,
                     open, lost>>
  BY DEF HangUp
<1>3. got[r] \in Seq(Chunks) /\ chan[r] \in Seq(Chunks)  BY DEF IInv, ChannelTypes
<1>4. streams'[r] = got[r] /\ \A q \in Requests : q # r => streams'[q] = streams[q]
  BY <1>2, <1>3, ConcatEmptySeq DEF IInv, ChannelTypes, streams, Stream
<1>5. /\ Len(got[r]) \in Nat /\ Len(streams[r]) \in Nat /\ Len(got[r]) <= Len(streams[r])
      /\ \A k \in 1 .. Len(got[r]) : got[r][k] = streams[r][k]
  <2>1. streams[r] = got[r] \o chan[r]  BY DEF streams, Stream
  <2>2. QED  BY <1>3, <2>1, ConcatPrefix
<1>6. streams[r] = <<>> => streams'[r] = <<>>
  BY <1>3, <1>4, ConcatSimplifications DEF streams, Stream
<1>7. TypeOK'
  <2>1. chan'[r] = <<>> /\ \A q \in Requests : q # r => chan'[q] = chan[q]
    BY <1>2 DEF IInv, ChannelTypes
  <2>2. \A q \in Requests : Len(chan'[q]) <= ChannelDepth
    <3>1. Len(chan'[r]) = 0 /\ ChannelDepth \in Nat  BY <2>1, DeploymentAssumption
    <3>2. Len(chan'[r]) <= ChannelDepth  BY <3>1
    <3>3. QED  BY <2>1, <3>2 DEF IInv, TypeOK
  <2>3. QED  BY <1>2, <2>2 DEF IInv, TypeOK
<1>8. ChannelTypes'  BY <1>2 DEF IInv, ChannelTypes
<1>9. QueuedOnce' /\ EventsInOrder' /\ QueuedEvents'
  BY <1>1, <1>2 DEF IInv, QueuedOnce, EventsInOrder, QueuedEvents
<1>10. PrefillHand'
  BY <1>1, <1>2, <1>4, <1>6 DEF IInv, TypeOK, PrefillHand
<1>11. DecodeHand'
  BY <1>1, <1>2, <1>4 DEF IInv, TypeOK, DecodeHand
<1>12. Placed'  BY <1>1, <1>2, <1>4, <1>6 DEF IInv, TypeOK, Placed
<1>13. HasSender'  BY <1>1, <1>2, <1>4 DEF IInv, TypeOK, HasSender, Ended
<1>14. NothingMissing'  BY <1>1, <1>2, <1>4 DEF IInv, TypeOK, NothingMissing, Sent
<1>15. Collecting' /\ EndQueued' /\ Whole'
  BY <1>1, <1>2 DEF IInv, TypeOK, Collecting, EndQueued, Whole
<1>16. InOrder'
  <2> SUFFICES ASSUME NEW q \in Requests, NEW k \in 1 .. Len(streams'[q])
               PROVE  \/ streams'[q][k] = Token(k)
                      \/ /\ k = Len(streams'[q]) /\ streams'[q][k] \in Terminal
                         /\ streams'[q][k] = Done => k - 1 = emitted[q] /\ stage[q] = "finished"
    BY <1>2 DEF InOrder
  <2>1. CASE q # r  BY <1>2, <1>4, <2>1 DEF IInv, InOrder
  <2>2. CASE q = r
    <3>1. k \in 1 .. Len(got[r]) /\ k \in 1 .. Len(streams[r])
          /\ streams'[q][k] = streams[r][k] /\ (k = Len(streams[r]) => k = Len(streams'[q]))
      BY <1>4, <1>5, <2>2
    <3>2. QED  BY <2>2, <3>1 DEF IInv, InOrder
  <2>3. QED  BY <2>1, <2>2
<1>17. QED
  BY <1>7, <1>8, <1>9, <1>10, <1>11, <1>12, <1>13, <1>14, <1>15, <1>16 DEF IInv

-------------------------------------------------------------------------------
LEMMA InitEstablishes == Init => IInv
<1> SUFFICES ASSUME Init PROVE IInv
  OBVIOUS
<1> USE DEF Init
<1>1. handP.r \notin Requests /\ handD.r \notin Requests  BY NoHandFacts
<1>2. \A r \in Requests : streams[r] = <<>> /\ queued[r] = {}
  BY ConcatEmptySeq DEF streams, Stream, queued
<1>3. waiting = {}  BY DEF waiting
<1>4. TypeOK
  <2>1. \A r \in Requests : MaxTokens[r] \in Nat /\ ChannelDepth \in Nat
    BY DeploymentAssumption
  <2>2. \A r \in Requests : Len(chan[r]) <= ChannelDepth /\ emitted[r] \in 0 .. MaxTokens[r] + 1
    BY <2>1
  <2>3. QED  BY <2>2 DEF TypeOK, Stages
<1>5. ChannelTypes  BY DEF ChannelTypes, Hands
<1>6. QueuedOnce /\ EventsInOrder /\ QueuedEvents
  BY <1>2 DEF QueuedOnce, EventsInOrder, QueuedEvents
<1>7. PrefillHand /\ DecodeHand /\ Placed
  BY <1>1, <1>2, <1>3 DEF PrefillHand, DecodeHand, Placed
<1>8. HasSender /\ NothingMissing /\ Collecting /\ EndQueued
  BY DEF HasSender, NothingMissing, Collecting, EndQueued
<1>9. InOrder /\ Whole  BY <1>2 DEF InOrder, Whole
<1>10. QED  BY <1>4, <1>5, <1>6, <1>7, <1>8, <1>9 DEF IInv

LEMMA StutterPreserves ==
  ASSUME IInv, UNCHANGED vars PROVE IInv'
<1> USE DEF vars
<1>1. UNCHANGED <<streams, queued, waiting>>
  BY DEF streams, Stream, queued, waiting
<1>2. TypeOK' /\ ChannelTypes' /\ QueuedOnce' /\ EventsInOrder' /\ QueuedEvents'
  BY <1>1 DEF IInv, TypeOK, ChannelTypes, QueuedOnce, EventsInOrder, QueuedEvents
<1>3. PrefillHand' /\ DecodeHand' /\ Placed'
  BY <1>1 DEF IInv, PrefillHand, DecodeHand, Placed
<1>4. HasSender' /\ NothingMissing' /\ Collecting' /\ EndQueued'
  BY <1>1 DEF IInv, HasSender, Ended, NothingMissing, Sent, Collecting, EndQueued
<1>5. InOrder' /\ Whole'  BY <1>1 DEF IInv, InOrder, Whole
<1>6. QED  BY <1>2, <1>3, <1>4, <1>5 DEF IInv

(***************************************************************************)
(* However the pumps, the workers and the handlers of deployment.rs and    *)
(* server.rs interleave, what has been sent and what is queued make up     *)
(* every client's answer, and its sender is dropped only after its end.    *)
(***************************************************************************)
THEOREM InductiveInvariant == Spec => []IInv
<1>1. Init => IInv  BY InitEstablishes
<1>2. IInv /\ [Next]_vars => IInv'
  <2> SUFFICES ASSUME IInv, [Next]_vars PROVE IInv'
    OBVIOUS
  <2>1. ASSUME NEW r \in Requests, BadRequest(r) \/ RouteFails(r) PROVE IInv'
    BY <2>1, BadRequestPreserves, RouteFailsPreserves
  <2>2. ASSUME NEW r \in Requests, Generate(r) \/ Abandon(r) PROVE IInv'
    BY <2>2, GeneratePreserves, AbandonPreserves
  <2>3. ASSUME NEW r \in Requests, Caller(r) PROVE IInv'
    BY <2>3, SubmitPreserves, SubmitFailsPreserves DEF Caller
  <2>4. ASSUME NEW r \in Requests, Worker(r) PROVE IInv'
    BY <2>4, PrefillTakesPreserves, PrefillCompletesPreserves, DecodeEmitsPreserves,
       DecodeFinishesPreserves DEF Worker
  <2>5. ASSUME NEW r \in Requests, Loses(r) PROVE IInv'
    BY <2>5, LosesPreserves
  <2>6. ASSUME NEW r \in Requests, Handler(r) PROVE IInv'
    BY <2>6, ReadPreserves, ClosePreserves DEF Handler
  <2>7. ASSUME NEW r \in Requests, HangUp(r) PROVE IInv'
    BY <2>7, HangUpPreserves
  <2>8. ASSUME NEW w \in {"prefill", "decode"}, Dies(w) PROVE IInv'
    BY <2>8, DiesPreserves
  <2>9. CASE PumpPrefill
    BY <2>9, PumpPrefillTakePreserves, PumpPrefillGonePreserves,
       PumpPrefillFirstPreserves, PumpPrefillAdmitPreserves, PumpPrefillEndPreserves
    DEF PumpPrefill
  <2>10. CASE PumpDecode
    BY <2>10, PumpDecodeTakePreserves, PumpDecodeSendPreserves DEF PumpDecode
  <2>11. CASE UNCHANGED vars  BY <2>11, StutterPreserves
  <2>12. QED
    BY <2>1, <2>2, <2>3, <2>4, <2>5, <2>6, <2>7, <2>8, <2>9, <2>10, <2>11 DEF Next
<1>3. QED  BY <1>1, <1>2, PTL DEF Spec

(***************************************************************************)
(* For any number of requests, every entry of inflight is still held by a  *)
(* generate() that waits to submit it, the job channel, a worker, a pump   *)
(* or a pump's channel, unless a worker lost its job, the prefill worker   *)
(* was gone, or the client disconnected before the job was sent            *)
(* (deployment.rs:377-395).  The channels never exceed their depth.        *)
(***************************************************************************)
THEOREM EntriesOwnedTheorem == Spec => []EntriesOwned
<1>1. IInv => EntriesOwned
  <2> SUFFICES ASSUME IInv PROVE EntryHasOwner
    BY DEF IInv, EntriesOwned
  <2> SUFFICES ASSUME NEW r \in inflight, r \notin lost,
                      stage[r] \notin {"failed", "abandoned"}
               PROVE  Owned(r)
    BY DEF EntryHasOwner
  <2>1. r \in Requests /\ stage[r] \in Stages  BY DEF IInv, TypeOK
  <2>2. r \in waiting => r \in ToSet(pdone)  BY DEF waiting, ToSet
  <2>3. Done \in queued[r] => \E k \in 1 .. Len(events) : events[k].r = r
    BY <2>1 DEF queued
  <2>4. QED
    BY <2>1, <2>2, <2>3 DEF IInv, Placed, EndQueued, Owned, Stages
<1>2. QED  BY <1>1, InductiveInvariant, PTL

(***************************************************************************)
(* For any number of requests and any answer lengths: the two pumps write  *)
(* every client's tokens in order with none missing, nothing follows the   *)
(* terminal chunk, and a 200 is never a truncated answer                   *)
(* (deployment.rs:248-321, server.rs:205-236).                             *)
(***************************************************************************)
THEOREM StreamsWholeTheorem == Spec => []StreamsWhole
<1>1. IInv => StreamsWhole
  <2> SUFFICES ASSUME IInv PROVE AnswerWhole /\ StreamInOrder
    BY DEF StreamsWhole
  <2>1. AnswerWhole  BY DEF IInv, Whole, AnswerWhole, Last
  <2>2. \A r \in Requests : streams[r] = Stream(r)  BY DEF streams
  <2>3. StreamInOrder  BY <2>2 DEF IInv, InOrder, StreamInOrder
  <2>4. QED  BY <2>1, <2>3
<1>2. QED  BY <1>1, InductiveInvariant, PTL
===============================================================================
