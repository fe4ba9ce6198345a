--------------------------- MODULE HttpEngineProofs ---------------------------
(***************************************************************************)
(* Proofs about DynamoEngine, the engine over any transport, for any       *)
(* finite set of requests; then that the engine over HttpTransport         *)
(* implements it, so that what was proved of the one holds of the other;   *)
(* and last that HttpTransport cuts any body into the events the worker    *)
(* wrote, whatever the chunks.                                             *)
(***************************************************************************)
EXTENDS HttpEngine, FiniteSetTheorems, SequenceTheorems, TLAPS

(* What the fields of one stream owe each other.                           *)
StreamOK(s) ==
  /\ s \in StreamState
  /\ s.cancels = IF s.cleaned_up /\ ~ s.finished THEN 1 ELSE 0
  /\ s.finished => s.terminal /\ s.outcome
  /\ s.outcome => s.terminal
  /\ s.terminal => s.cleaned_up

(* Before it is dropped, only a terminal stream has been cleaned up.       *)
Unspent(s) == s.cleaned_up => s.terminal

(***************************************************************************)
(* The inductive invariant: the stream invariant tied to the phase of the  *)
(* request.  A poll suspended in next_at holds a stream that is not        *)
(* terminal, although that was tested before the await.                    *)
(***************************************************************************)
StreamInv ==
  \A r \in Req :
    /\ StreamOK(stream[r])
    /\ phase[r] # "closed" => Unspent(stream[r])
    /\ phase[r] = "closed" => stream[r].cleaned_up
    /\ phase[r] \notin {"open", "awaiting", "closed"} => stream[r] = NewStream
    /\ phase[r] = "awaiting" => ~ stream[r].terminal

IInv == TypeOK /\ StreamInv /\ ActiveCounts

-------------------------------------------------------------------------------
(* cleanup() settles the cancel count and touches nothing else.            *)
LEMMA CleanupLemma ==
  ASSUME NEW s, StreamOK(s)
  PROVE  /\ StreamOK(Cleanup(s))
         /\ Cleanup(s).cleaned_up
         /\ Cleanup(s).terminal = s.terminal
         /\ Cleanup(s).outcome = s.outcome
         /\ Cleanup(s).finished = s.finished
         /\ s.cleaned_up => Cleanup(s).cancels = s.cancels
<1> DEFINE t == Cleanup(s)
<1>1. s \in StreamState  BY DEF StreamOK
<1>2. t \in StreamState
  <2>1. CASE s.cleaned_up   BY <1>1, <2>1 DEF StreamState, Cleanup
  <2>2. CASE ~ s.cleaned_up
    <3> DEFINE n == s.cancels + 1
    <3>1. n \in Nat  BY <1>1 DEF StreamState
    <3>2. t = [s EXCEPT !.cancels = n, !.cleaned_up = TRUE]
      BY <2>2 DEF Cleanup
    <3> HIDE DEF n, t
    <3>3. QED  BY <1>1, <3>1, <3>2 DEF StreamState
  <2>3. QED  BY <2>1, <2>2
<1>3. t.cleaned_up = TRUE /\ t.terminal = s.terminal
        /\ t.outcome = s.outcome /\ t.finished = s.finished
        /\ t.cancels = IF s.cleaned_up THEN s.cancels ELSE s.cancels + 1
  BY <1>1 DEF StreamState, Cleanup
<1>4. QED  BY <1>2, <1>3 DEF StreamOK

(* The three ways a stream becomes terminal all leave it cleaned up.       *)
LEMMA SettleLemma ==
  ASSUME NEW s, StreamOK(s), ~ s.terminal, ~ s.cleaned_up
  PROVE  /\ StreamOK(Fail(s)) /\ Unspent(Fail(s)) /\ Fail(s).terminal
         /\ StreamOK(Finish(s)) /\ Unspent(Finish(s)) /\ Finish(s).terminal
         /\ StreamOK(CancelAt(s)) /\ Unspent(CancelAt(s)) /\ CancelAt(s).terminal
<1>1. s \in StreamState /\ Cleanup(s) \in StreamState
  BY CleanupLemma DEF StreamOK
<1>2. /\ Fail(s) \in StreamState /\ Fail(s).terminal = TRUE
      /\ Fail(s).cleaned_up = TRUE /\ Fail(s).outcome = s.outcome
      /\ Fail(s).finished = s.finished /\ Fail(s).cancels = Cleanup(s).cancels
  BY <1>1, CleanupLemma DEF StreamState, Fail
<1>3. /\ Finish(s) \in StreamState /\ Finish(s).terminal = TRUE
      /\ Finish(s).cleaned_up = TRUE /\ Finish(s).outcome = TRUE
      /\ Finish(s).finished = TRUE /\ Finish(s).cancels = s.cancels
  BY <1>1 DEF StreamState, Finish
<1>4. /\ CancelAt(s) \in StreamState /\ CancelAt(s).terminal = TRUE
      /\ CancelAt(s).cleaned_up = TRUE /\ CancelAt(s).outcome = TRUE
      /\ CancelAt(s).finished = s.finished
      /\ CancelAt(s).cancels = Cleanup(s).cancels
  BY <1>1, CleanupLemma DEF StreamState, CancelAt
<1>5. QED
  BY <1>2, <1>3, <1>4, CleanupLemma DEF StreamOK, Unspent

LEMMA NewStreamOK == StreamOK(NewStream) /\ Unspent(NewStream)
BY DEF StreamOK, StreamState, NewStream, Unspent

(* A method of the stream called by unfold yields a good stream, and a     *)
(* terminal one exactly when the item is not a token.                      *)
YieldOK(s, t, out) ==
  /\ out \in Output
  /\ StreamOK(t) /\ Unspent(t)
  /\ s.terminal <=> out = "none"
  /\ s.terminal => t = s
  /\ out \in {"terminal", "error"} => t.terminal
  /\ out = "token" => ~ t.terminal

LEMMA NextAtYields ==
  ASSUME NEW s, StreamOK(s), Unspent(s), NEW ev \in WorkerEvent
  PROVE  YieldOK(s, NextAt(s, ev), NextAtOutput(s, ev))
<1>1. CASE s.terminal
  BY <1>1 DEF YieldOK, NextAt, NextAtOutput, Output
<1>2. CASE ~ s.terminal
  <2>0. ~ s.cleaned_up  BY <1>2 DEF Unspent
  <2>1. CASE ev = "token"
    BY <1>2, <2>1 DEF YieldOK, NextAt, NextAtOutput, Output
  <2>2. CASE ev = "finish"
    BY <1>2, <2>0, <2>2, SettleLemma DEF YieldOK, NextAt, NextAtOutput, Output
  <2>3. CASE ev = "failure"
    BY <1>2, <2>0, <2>3, SettleLemma DEF YieldOK, NextAt, NextAtOutput, Output
  <2>4. QED  BY <2>1, <2>2, <2>3 DEF WorkerEvent
<1>3. QED  BY <1>1, <1>2

LEMMA CancelAtYields ==
  ASSUME NEW s, StreamOK(s), Unspent(s), NEW ok \in BOOLEAN
  PROVE  YieldOK(s, CancelAt(s), CancelAtOutput(s, ok))
<1>1. CASE s.terminal
  BY <1>1 DEF YieldOK, CancelAt, CancelAtOutput, Output
<1>2. CASE ~ s.terminal
  <2>1. ~ s.cleaned_up  BY <1>2 DEF Unspent
  <2>2. QED
    BY <1>2, <2>1, SettleLemma DEF YieldOK, CancelAtOutput, Output
<1>3. QED  BY <1>1, <1>2

-------------------------------------------------------------------------------
LEMMA InitIInv == Init => IInv
<1> SUFFICES ASSUME Init PROVE IInv  OBVIOUS
<1>1. TypeOK
  <2>1. NewStream \in StreamState  BY NewStreamOK DEF StreamOK
  <2>2. stream \in [Req -> StreamState]  BY <2>1 DEF Init
  <2>3. outs \in [Req -> Seq(Output \ {"none"})]  BY DEF Init
  <2>4. QED  BY <2>2, <2>3 DEF Init, TypeOK, Phase
<1>2. StreamInv
  BY NewStreamOK DEF Init, StreamInv
<1>3. ActiveCounts
  <2>1. {r \in Req : Live(r)} = {}  BY DEF Init, Live
  <2>2. QED  BY <2>1, FS_EmptySet DEF Init, ActiveCounts
<1>4. QED  BY <1>1, <1>2, <1>3 DEF IInv

(* The live requests are finitely many, and one of them makes active > 0.  *)
LEMMA LiveCard ==
  ASSUME IInv
  PROVE  /\ IsFiniteSet({q \in Req : Live(q)})
         /\ \A r \in Req : Live(r) =>
              /\ active - 1 \in Nat
              /\ Cardinality({q \in Req : Live(q)} \ {r}) = active - 1
<1> DEFINE L == {q \in Req : Live(q)}
<1>1. IsFiniteSet(L)  BY DynamoAssumption, FS_Subset
<1>2. ASSUME NEW r \in Req, Live(r)
      PROVE  active - 1 \in Nat /\ Cardinality(L \ {r}) = active - 1
  <2>1. r \in L  BY <1>2
  <2>2. Cardinality(L \ {r}) = Cardinality(L) - 1
    BY <1>1, <2>1, FS_RemoveElement
  <2>3. Cardinality(L \ {r}) \in Nat  BY <1>1, FS_Subset, FS_CardinalityType
  <2>4. QED  BY <2>2, <2>3 DEF IInv, ActiveCounts
<1>3. QED  BY <1>1, <1>2

(* Dropping a live stream: the guard's decrement matches the stream gone.  *)
LEMMA CloseStep ==
  ASSUME IInv, NEW r \in Req, Live(r), Close(r, stream[r]),
         UNCHANGED <<started, stopped, outs>>
  PROVE  IInv'
<1>1. StreamOK(stream[r])  BY DEF IInv, StreamInv
<1>2. TypeOK'
  BY <1>1, CleanupLemma, LiveCard
  DEF IInv, TypeOK, Close, Phase, DropStream, StreamOK
<1>3. StreamInv'
  BY <1>1, CleanupLemma
  DEF IInv, TypeOK, StreamInv, Close, DropStream, Live
<1>4. ActiveCounts'
  <2>1. {q \in Req : Live(q)}' = {q \in Req : Live(q)} \ {r}
    BY DEF IInv, TypeOK, Close, Live
  <2>2. QED  BY <2>1, LiveCard DEF ActiveCounts, Close
<1>5. QED  BY <1>2, <1>3, <1>4 DEF IInv

(* What a poll that yields an item does to a live request.                 *)
LEMMA YieldStep ==
  ASSUME IInv, NEW r \in Req, Live(r), NEW t, NEW out,
         YieldOK(stream[r], t, out), Yield(r, t, out),
         UNCHANGED <<started, stopped>>
  PROVE  IInv'
<1>1. CASE out = "none"
  <2>1. t = stream[r]  BY <1>1 DEF YieldOK
  <2>2. Close(r, stream[r]) /\ UNCHANGED outs  BY <1>1, <2>1 DEF Yield
  <2>3. QED  BY <2>2, CloseStep
<1>2. CASE out # "none"
  <2>1. /\ phase' = [phase EXCEPT ![r] = "open"]
        /\ stream' = [stream EXCEPT ![r] = t]
        /\ outs' = Record(r, out)
        /\ active' = active
    BY <1>2 DEF Yield
  <2>2. StreamOK(t) /\ Unspent(t) /\ out \in Output \ {"none"}
    BY <1>2 DEF YieldOK
  <2>3. Record(r, out) \in [Req -> Seq(Output \ {"none"})]
    BY <2>2 DEF IInv, TypeOK, Record
  <2>4. TypeOK'
    BY <2>1, <2>2, <2>3 DEF IInv, TypeOK, Phase, StreamOK
  <2>5. StreamInv'
    BY <2>1, <2>2 DEF IInv, TypeOK, StreamInv
  <2>6. {q \in Req : Live(q)}' = {q \in Req : Live(q)}
    BY <2>1 DEF IInv, TypeOK, Live
  <2>7. QED  BY <2>1, <2>4, <2>5, <2>6 DEF IInv, ActiveCounts
<1>3. QED  BY <1>1, <1>2

(* A live request entitles its owner to call the stream's methods.         *)
LEMMA LiveStream ==
  ASSUME IInv, NEW r \in Req, Live(r)
  PROVE  StreamOK(stream[r]) /\ Unspent(stream[r])
BY DEF IInv, StreamInv, Live

LEMMA NextIInv == IInv /\ [Next]_vars => IInv'
<1> SUFFICES ASSUME IInv, [Next]_vars PROVE IInv'  OBVIOUS
<1> USE DEF IInv
<1>1. ASSUME Start \/ EngineCleanup PROVE IInv'
  <2>1. UNCHANGED <<active, phase, stopped, stream, outs>> /\ started' \in BOOLEAN
    BY <1>1 DEF Start, EngineCleanup
  <2>2. QED  BY <2>1 DEF TypeOK, StreamInv, ActiveCounts, Live
<1>2. ASSUME NEW r \in Req, Generate(r) \/ SendFails(r) PROVE IInv'
  <2>1. /\ UNCHANGED <<started, active, stopped, stream, outs>>
        /\ phase[r] \in {"idle", "sending"}
        /\ \E p \in {"sending", "refused"} : phase' = [phase EXCEPT ![r] = p]
    BY <1>2 DEF Generate, SendFails
  <2>2. TypeOK'  BY <2>1 DEF TypeOK, Phase
  <2>3. StreamInv'  BY <2>1 DEF TypeOK, StreamInv
  <2>4. {q \in Req : Live(q)}' = {q \in Req : Live(q)}
    BY <2>1 DEF TypeOK, Live
  <2>5. QED  BY <2>1, <2>2, <2>3, <2>4 DEF ActiveCounts
<1>3. ASSUME NEW r \in Req, SendSucceeds(r) PROVE IInv'
  <2> USE <1>3 DEF SendSucceeds
  <2>1. TypeOK'  BY DEF TypeOK, Phase
  <2>2. StreamInv'  BY NewStreamOK DEF TypeOK, StreamInv
  <2>3. {q \in Req : Live(q)}' = {q \in Req : Live(q)} \cup {r}
    BY DEF TypeOK, Live
  <2>4. r \notin {q \in Req : Live(q)}  BY DEF Live
  <2>5. Cardinality({q \in Req : Live(q)} \cup {r}) = active + 1
    BY <2>4, LiveCard, FS_AddElement DEF ActiveCounts
  <2>6. QED  BY <2>1, <2>2, <2>3, <2>5 DEF ActiveCounts
<1>4. ASSUME NEW r \in Req, StopContext(r) PROVE IInv'
  BY <1>4 DEF StopContext, TypeOK, StreamInv, ActiveCounts, Live
<1>5. ASSUME NEW r \in Req, PollStopped(r) PROVE IInv'
  <2>1. PICK ok \in BOOLEAN :
          Yield(r, CancelAt(stream[r]), CancelAtOutput(stream[r], ok))
    BY <1>5, DynamoAssumption DEF PollStopped
  <2>2. Live(r)  BY <1>5 DEF PollStopped, Live
  <2>3. YieldOK(stream[r], CancelAt(stream[r]), CancelAtOutput(stream[r], ok))
    BY <2>2, LiveStream, CancelAtYields
  <2>4. QED  BY <1>5, <2>1, <2>2, <2>3, YieldStep DEF PollStopped
<1>6. ASSUME NEW r \in Req, PollEnded(r) \/ Abandon(r) PROVE IInv'
  BY <1>6, CloseStep DEF PollEnded, Abandon, Live
<1>7. ASSUME NEW r \in Req, PollBegin(r) PROVE IInv'
  <2> USE <1>7 DEF PollBegin
  <2>1. TypeOK'  BY DEF TypeOK, Phase
  <2>2. StreamInv'  BY DEF TypeOK, StreamInv
  <2>3. {q \in Req : Live(q)}' = {q \in Req : Live(q)}
    BY DEF TypeOK, Live
  <2>4. QED  BY <2>1, <2>2, <2>3 DEF ActiveCounts
<1>8. ASSUME NEW r \in Req, NEW ev \in WorkerEvent, Receive(r, ev) PROVE IInv'
  <2>1. Live(r)  BY <1>8 DEF Receive, Live
  <2>2. YieldOK(stream[r], NextAt(stream[r], ev), NextAtOutput(stream[r], ev))
    BY <2>1, LiveStream, NextAtYields
  <2>3. QED  BY <1>8, <2>1, <2>2, YieldStep DEF Receive
<1>9. CASE UNCHANGED vars
  BY <1>9 DEF vars, TypeOK, StreamInv, ActiveCounts, Live
<1>10. QED
  BY <1>1, <1>2, <1>3, <1>4, <1>5, <1>6, <1>7, <1>8, <1>9 DEF Next, Poll

(***************************************************************************)
(* Every reachable state satisfies the inductive invariant.                *)
(***************************************************************************)
THEOREM InductiveInvariant == Spec => []IInv
BY InitIInv, NextIInv, PTL DEF Spec

(***************************************************************************)
(* DynamoLlmEngine.active is the number of streams not yet dropped, for    *)
(* any number of concurrent requests and any way they end.                 *)
(***************************************************************************)
THEOREM ActiveCountsTheorem == Spec => []ActiveCounts
<1>1. IInv => ActiveCounts  BY DEF IInv
<1>2. QED  BY <1>1, InductiveInvariant, PTL

(***************************************************************************)
(* A stream's transport is cancelled exactly once, or its worker ended it. *)
(***************************************************************************)
THEOREM CancelExactlyOnceTheorem == Spec => []CancelExactlyOnce
<1>1. IInv => CancelExactlyOnce
  BY DEF IInv, StreamInv, StreamOK, CancelExactlyOnce
<1>2. QED  BY <1>1, InductiveInvariant, PTL

(***************************************************************************)
(* Types of the engine's state: in particular active never underflows,     *)
(* although it is an unsigned counter decremented by a destructor.         *)
(***************************************************************************)
THEOREM TypeCorrect == Spec => []TypeOK
<1>1. IInv => TypeOK  BY DEF IInv
<1>2. QED  BY <1>1, InductiveInvariant, PTL
-------------------------------------------------------------------------------
(* What a step may do to one request's stream and to the items it yielded. *)
Settled(r) ==
  /\ stream[r].terminal => /\ stream'[r].terminal
                           /\ stream'[r].cancels = stream[r].cancels
                           /\ outs'[r] = outs[r]
  /\ \/ outs'[r] = outs[r] /\ (stream[r].terminal => stream'[r].terminal)
     \/ outs'[r] = Append(outs[r], "token")
     \/ \E o \in Output : outs'[r] = Append(outs[r], o) /\ stream'[r].terminal

LEMMA CloseSettles ==
  ASSUME IInv, NEW r \in Req, Live(r), Close(r, stream[r]), UNCHANGED outs,
         NEW q \in Req
  PROVE  Settled(q)
<1>1. CASE q = r
  <2>1. StreamOK(stream[r])  BY LiveStream
  <2>2. stream'[r] = Cleanup(stream[r])
    BY DEF IInv, TypeOK, Close, DropStream
  <2>3. stream[r].terminal => stream[r].cleaned_up  BY <2>1 DEF StreamOK
  <2>4. QED  BY <1>1, <2>1, <2>2, <2>3, CleanupLemma DEF Settled
<1>2. CASE q # r
  BY <1>2 DEF IInv, TypeOK, Close, Settled
<1>3. QED  BY <1>1, <1>2

LEMMA YieldSettles ==
  ASSUME IInv, NEW r \in Req, Live(r), NEW t, NEW out,
         YieldOK(stream[r], t, out), Yield(r, t, out), NEW q \in Req
  PROVE  Settled(q)
<1>1. CASE out = "none"
  BY <1>1, CloseSettles DEF YieldOK, Yield
<1>2. CASE out # "none"
  <2>1. /\ stream' = [stream EXCEPT ![r] = t]
        /\ outs' = Record(r, out)
        /\ ~ stream[r].terminal
        /\ out \in Output
        /\ out # "token" => t.terminal
    BY <1>2 DEF Yield, YieldOK, Output
  <2>2. CASE q = r
    <3>1. stream'[q] = t  BY <2>1, <2>2 DEF IInv, TypeOK
    <3>2. outs'[q] = outs[q] \/ outs'[q] = Append(outs[q], out)
      BY <2>1, <2>2 DEF IInv, TypeOK, Record
    <3>3. out # "token" => outs'[q] = Append(outs[q], out)
      BY <2>1, <2>2 DEF IInv, TypeOK, Record
    <3>4. QED  BY <2>1, <2>2, <3>1, <3>2, <3>3 DEF Settled
  <2>3. CASE q # r
    <3>1. stream'[q] = stream[q] /\ outs'[q] = outs[q]
      BY <2>1, <2>3 DEF IInv, TypeOK, Record
    <3>2. QED  BY <3>1 DEF Settled
  <2>4. QED  BY <2>2, <2>3
<1>3. QED  BY <1>1, <1>2

LEMMA NextSettles ==
  ASSUME IInv, [Next]_vars, NEW q \in Req
  PROVE  Settled(q)
<1>1. ASSUME UNCHANGED <<stream, outs>> PROVE Settled(q)
  BY <1>1 DEF Settled
<1>2. ASSUME NEW r \in Req, PollStopped(r) PROVE Settled(q)
  <2>1. PICK ok \in BOOLEAN :
          Yield(r, CancelAt(stream[r]), CancelAtOutput(stream[r], ok))
    BY <1>2, DynamoAssumption DEF PollStopped
  <2>2. Live(r)  BY <1>2 DEF PollStopped, Live
  <2>3. YieldOK(stream[r], CancelAt(stream[r]), CancelAtOutput(stream[r], ok))
    BY <2>2, LiveStream, CancelAtYields
  <2>4. QED  BY <2>1, <2>2, <2>3, YieldSettles
<1>3. ASSUME NEW r \in Req, NEW ev \in WorkerEvent, Receive(r, ev)
      PROVE  Settled(q)
  <2>1. Live(r)  BY <1>3 DEF Receive, Live
  <2>2. YieldOK(stream[r], NextAt(stream[r], ev), NextAtOutput(stream[r], ev))
    BY <2>1, LiveStream, NextAtYields
  <2>3. QED  BY <1>3, <2>1, <2>2, YieldSettles DEF Receive
<1>4. ASSUME NEW r \in Req, PollEnded(r) \/ Abandon(r) PROVE Settled(q)
  BY <1>4, CloseSettles DEF PollEnded, Abandon, Live
<1>5. QED
  BY <1>1, <1>2, <1>3, <1>4
  DEF Next, Poll, vars, Start, EngineCleanup, Generate, SendSucceeds,
      SendFails, StopContext, PollBegin

(***************************************************************************)
(* A terminal stream is never reopened, cancelled again or made to yield.  *)
(***************************************************************************)
THEOREM TerminalIsFinalTheorem == Spec => TerminalIsFinal
<1>1. IInv /\ [Next]_vars =>
        [\A r \in Req : stream[r].terminal =>
            /\ stream'[r].terminal
            /\ stream'[r].cancels = stream[r].cancels
            /\ outs'[r] = outs[r]]_vars
  BY NextSettles DEF Settled
<1>2. QED  BY <1>1, InductiveInvariant, PTL DEF Spec, TerminalIsFinal

(***************************************************************************)
(* A Terminal item or an error is the last thing a stream yields.          *)
(***************************************************************************)
THEOREM OneTerminalTheorem == Spec => []OneTerminal
<1>1. Init => OneTerminal  BY DEF Init, OneTerminal
<1>2. IInv /\ OneTerminal /\ [Next]_vars => OneTerminal'
  <2> SUFFICES ASSUME IInv, OneTerminal, [Next]_vars, NEW r \in Req,
                      NEW i \in 1 .. Len(outs'[r]), outs'[r][i] # "token"
               PROVE  i = Len(outs'[r]) /\ stream'[r].terminal
    BY DEF OneTerminal
  <2>1. outs[r] \in Seq(Output)  BY DEF IInv, TypeOK
  <2>2. Settled(r)  BY NextSettles
  <2>3. CASE outs'[r] = outs[r]
    BY <2>2, <2>3 DEF OneTerminal, Settled
  <2>4. ASSUME NEW o \in Output, outs'[r] = Append(outs[r], o),
               o = "token" \/ stream'[r].terminal
        PROVE  i = Len(outs'[r]) /\ stream'[r].terminal
    <3>1. ~ stream[r].terminal
      BY <2>1, <2>2, <2>4 DEF Settled
    <3>2. \A j \in 1 .. Len(outs[r]) : outs[r][j] = "token"
      BY <3>1 DEF OneTerminal
    <3>3. i = Len(outs[r]) + 1 /\ outs'[r][i] = o
      BY <2>1, <2>4, <3>2
    <3>4. QED  BY <2>1, <2>4, <3>3
  <2>5. QED  BY <2>2, <2>3, <2>4 DEF Settled, Output
<1>3. QED  BY <1>1, <1>2, InductiveInvariant, PTL DEF Spec
-------------------------------------------------------------------------------
(* What a method of the stream does to its outcome: stop is whether the    *)
(* context was stopped when the method was called.                         *)
OutcomeKept(s, t, stop, out) ==
  /\ s.outcome => t.outcome
  /\ s.finished => t.finished
  /\ t.outcome => s.outcome \/ t.finished \/ stop
  /\ out = "terminal" => t.outcome

LEMMA NextAtOutcome ==
  ASSUME NEW s, StreamOK(s), Unspent(s), NEW ev \in WorkerEvent, NEW stop \in BOOLEAN
  PROVE  OutcomeKept(s, NextAt(s, ev), stop, NextAtOutput(s, ev))
<1>1. CASE s.terminal
  BY <1>1 DEF OutcomeKept, NextAt, NextAtOutput
<1>2. CASE ~ s.terminal
  <2>0. s \in StreamState /\ Cleanup(s) \in StreamState
    BY CleanupLemma DEF StreamOK
  <2>1. CASE ev = "token"
    BY <1>2, <2>1 DEF OutcomeKept, NextAt, NextAtOutput
  <2>2. CASE ev = "finish"
    <3>1. NextAt(s, ev) = Finish(s)  BY <1>2, <2>2 DEF NextAt
    <3>2. Finish(s).outcome = TRUE /\ Finish(s).finished = TRUE
      BY <2>0 DEF Finish, StreamState
    <3>3. QED  BY <3>1, <3>2 DEF OutcomeKept
  <2>3. CASE ev = "failure"
    <3>1. NextAt(s, ev) = Fail(s) /\ NextAtOutput(s, ev) = "error"
      BY <1>2, <2>3 DEF NextAt, NextAtOutput
    <3>2. Fail(s).outcome = s.outcome /\ Fail(s).finished = s.finished
      BY <2>0, CleanupLemma DEF Fail, StreamState
    <3>3. QED  BY <3>1, <3>2 DEF OutcomeKept
  <2>4. QED  BY <2>1, <2>2, <2>3 DEF WorkerEvent
<1>3. QED  BY <1>1, <1>2

LEMMA CancelAtOutcome ==
  ASSUME NEW s, StreamOK(s), Unspent(s), NEW ok \in BOOLEAN
  PROVE  OutcomeKept(s, CancelAt(s), TRUE, CancelAtOutput(s, ok))
<1>1. CASE s.terminal
  BY <1>1 DEF OutcomeKept, CancelAt, CancelAtOutput
<1>2. CASE ~ s.terminal
  <2>1. Cleanup(s) \in StreamState /\ Cleanup(s).finished = s.finished
    BY CleanupLemma DEF StreamOK
  <2>2. CancelAt(s).outcome = TRUE /\ CancelAt(s).finished = s.finished
    BY <1>2, <2>1 DEF CancelAt, StreamState
  <2>3. QED  BY <2>2 DEF OutcomeKept
<1>3. QED  BY <1>1, <1>2

(* What a step may do to one request's outcome and to the items it yielded.*)
Recorded(q) ==
  /\ stopped[q] => stopped'[q]
  /\ \E out \in Output :
       /\ OutcomeKept(stream[q], stream'[q], stopped[q], out)
       /\ outs'[q] = outs[q] \/ outs'[q] = Append(outs[q], out)

LEMMA CloseRecords ==
  ASSUME IInv, NEW r \in Req, Live(r), Close(r, stream[r]),
         UNCHANGED <<stopped, outs>>, NEW q \in Req
  PROVE  Recorded(q)
<1>1. OutcomeKept(stream[q], stream'[q], stopped[q], "none")
  <2>1. CASE q = r
    <3>1. StreamOK(stream[r])  BY LiveStream
    <3>2. stream'[r] = Cleanup(stream[r])
      BY DEF IInv, TypeOK, Close, DropStream
    <3>3. QED  BY <2>1, <3>1, <3>2, CleanupLemma DEF OutcomeKept
  <2>2. CASE q # r
    BY <2>2 DEF IInv, TypeOK, Close, OutcomeKept
  <2>3. QED  BY <2>1, <2>2
<1>2. "none" \in Output  BY DEF Output
<1>3. QED  BY <1>1, <1>2 DEF Recorded

LEMMA YieldRecords ==
  ASSUME IInv, NEW r \in Req, Live(r), NEW t, NEW out,
         YieldOK(stream[r], t, out), Yield(r, t, out), UNCHANGED stopped,
         OutcomeKept(stream[r], t, stopped[r], out), NEW q \in Req
  PROVE  Recorded(q)
<1>1. CASE out = "none"
  BY <1>1, CloseRecords DEF YieldOK, Yield
<1>2. CASE out # "none"
  <2>1. stream' = [stream EXCEPT ![r] = t] /\ outs' = Record(r, out) /\ out \in Output
    BY <1>2 DEF Yield, YieldOK
  <2>2. CASE q = r
    <3>1. stream'[q] = t  BY <2>1, <2>2 DEF IInv, TypeOK
    <3>2. outs'[q] = outs[q] \/ outs'[q] = Append(outs[q], out)
      BY <2>1, <2>2 DEF IInv, TypeOK, Record
    <3>3. QED  BY <2>1, <2>2, <3>1, <3>2 DEF Recorded
  <2>3. CASE q # r
    <3>1. stream'[q] = stream[q] /\ outs'[q] = outs[q]
      BY <2>1, <2>3 DEF IInv, TypeOK, Record
    <3>2. OutcomeKept(stream[q], stream'[q], stopped[q], "none")
      BY <3>1 DEF OutcomeKept
    <3>3. "none" \in Output  BY DEF Output
    <3>4. QED  BY <3>1, <3>2, <3>3 DEF Recorded
  <2>4. QED  BY <2>2, <2>3
<1>3. QED  BY <1>1, <1>2

LEMMA NextRecords ==
  ASSUME IInv, [Next]_vars, NEW q \in Req
  PROVE  Recorded(q)
<1>1. ASSUME UNCHANGED <<stream, outs>>, stopped[q] => stopped'[q]
      PROVE  Recorded(q)
  <2>1. OutcomeKept(stream[q], stream'[q], stopped[q], "none")
    BY <1>1 DEF OutcomeKept
  <2>2. "none" \in Output  BY DEF Output
  <2>3. QED  BY <1>1, <2>1, <2>2 DEF Recorded
<1>2. ASSUME NEW r \in Req, PollStopped(r) PROVE Recorded(q)
  <2>1. PICK ok \in BOOLEAN :
          Yield(r, CancelAt(stream[r]), CancelAtOutput(stream[r], ok))
    BY <1>2, DynamoAssumption DEF PollStopped
  <2>2. Live(r) /\ stopped[r] = TRUE
    BY <1>2 DEF PollStopped, Live, IInv, TypeOK
  <2>3. YieldOK(stream[r], CancelAt(stream[r]), CancelAtOutput(stream[r], ok))
    BY <2>2, LiveStream, CancelAtYields
  <2>4. OutcomeKept(stream[r], CancelAt(stream[r]), stopped[r],
                    CancelAtOutput(stream[r], ok))
    BY <2>2, LiveStream, CancelAtOutcome
  <2>5. QED  BY <1>2, <2>1, <2>2, <2>3, <2>4, YieldRecords DEF PollStopped
<1>3. ASSUME NEW r \in Req, NEW ev \in WorkerEvent, Receive(r, ev)
      PROVE  Recorded(q)
  <2>1. Live(r) /\ stopped[r] \in BOOLEAN
    BY <1>3 DEF Receive, Live, IInv, TypeOK
  <2>2. YieldOK(stream[r], NextAt(stream[r], ev), NextAtOutput(stream[r], ev))
    BY <2>1, LiveStream, NextAtYields
  <2>3. OutcomeKept(stream[r], NextAt(stream[r], ev), stopped[r],
                    NextAtOutput(stream[r], ev))
    BY <2>1, LiveStream, NextAtOutcome
  <2>4. QED  BY <1>3, <2>1, <2>2, <2>3, YieldRecords DEF Receive
<1>4. ASSUME NEW r \in Req, PollEnded(r) \/ Abandon(r) PROVE Recorded(q)
  BY <1>4, CloseRecords DEF PollEnded, Abandon, Live
<1>5. ASSUME NEW r \in Req, StopContext(r) PROVE Recorded(q)
  <2>1. stopped[q] => stopped'[q]  BY <1>5 DEF StopContext, IInv, TypeOK
  <2>2. QED  BY <1>1, <1>5, <2>1 DEF StopContext
<1>6. QED
  BY <1>1, <1>2, <1>3, <1>4, <1>5
  DEF Next, Poll, vars, Start, EngineCleanup, Generate, SendSucceeds,
      SendFails, PollBegin

(***************************************************************************)
(* An outcome is recorded for exactly the streams that ended or were       *)
(* stopped, whether or not the transport could be cancelled.               *)
(***************************************************************************)
THEOREM OutcomeRecordedTheorem == Spec => []OutcomeRecorded
<1>1. Init => OutcomeRecorded
  BY DEF Init, OutcomeRecorded, NewStream
<1>2. IInv /\ IInv' /\ OutcomeRecorded /\ [Next]_vars => OutcomeRecorded'
  <2> SUFFICES ASSUME IInv, IInv', OutcomeRecorded, [Next]_vars, NEW q \in Req
               PROVE  /\ stream'[q].finished => stream'[q].outcome
                      /\ (\E i \in 1 .. Len(outs'[q]) : outs'[q][i] = "terminal")
                           => stream'[q].outcome
                      /\ stream'[q].outcome =>
                           stream'[q].terminal /\ (stream'[q].finished \/ stopped'[q])
    BY DEF OutcomeRecorded
  <2>1. Recorded(q)  BY NextRecords
  <2>2. StreamOK(stream'[q])  BY DEF IInv, StreamInv
  <2>3. PICK out \in Output :
          /\ OutcomeKept(stream[q], stream'[q], stopped[q], out)
          /\ outs'[q] = outs[q] \/ outs'[q] = Append(outs[q], out)
    BY <2>1 DEF Recorded
  <2>4. ASSUME NEW i \in 1 .. Len(outs'[q]), outs'[q][i] = "terminal"
        PROVE  stream'[q].outcome
    <3>1. outs[q] \in Seq(Output)  BY DEF IInv, TypeOK
    <3>2. CASE outs'[q] = outs[q]
      BY <2>3, <2>4, <3>2 DEF OutcomeRecorded, OutcomeKept
    <3>3. CASE outs'[q] = Append(outs[q], out)
      <4>1. \/ i = Len(outs[q]) + 1 /\ out = "terminal"
            \/ i \in 1 .. Len(outs[q]) /\ outs[q][i] = "terminal"
        BY <2>4, <3>1, <3>3
      <4>2. QED  BY <2>3, <4>1 DEF OutcomeRecorded, OutcomeKept
    <3>4. QED  BY <2>3, <3>2, <3>3
  <2>5. stream'[q].outcome => stream'[q].finished \/ stopped'[q]
    BY <2>1, <2>3 DEF OutcomeRecorded, OutcomeKept, Recorded
  <2>6. QED  BY <2>2, <2>4, <2>5 DEF StreamOK
<1>3. QED  BY <1>1, <1>2, InductiveInvariant, PTL DEF Spec

(***************************************************************************)
(* What a stream holds outside itself is released: the gauge counts the    *)
(* streams created and not yet cleaned up, and a worker is cancelled once, *)
(* when its stream is cleaned up before it finished.                       *)
(***************************************************************************)
THEOREM StreamsReleasedTheorem == Spec => []StreamsReleased
<1>1. ActiveCounts /\ CancelExactlyOnce => StreamsReleased
  BY DEF StreamsReleased
<1> QED  BY <1>1, ActiveCountsTheorem, CancelExactlyOnceTheorem, PTL

(***************************************************************************)
(* A stream yields one terminal item, as its last, and its outcome is      *)
(* recorded no later than that item.                                       *)
(***************************************************************************)
THEOREM EndsOnceTheorem == Spec => []EndsOnce
<1>1. OneTerminal /\ OutcomeRecorded => EndsOnce
  BY DEF EndsOnce
<1> QED  BY <1>1, OneTerminalTheorem, OutcomeRecordedTheorem, PTL

-------------------------------------------------------------------------------
(* EventOf yields what DynamoEngine takes from a worker, or nothing.       *)
LEMMA EventOfType == ASSUME NEW f PROVE EventOf(f) \in WorkerEvent \cup {"none"}
BY DEF EventOf, WorkerEvent

LEMMA HttpStep == [HttpNext]_httpVars => [Next]_vars
<1> SUFFICES ASSUME [HttpNext]_httpVars PROVE [Next]_vars  OBVIOUS
<1>1. CASE (Start \/ EngineCleanup) /\ WireIdle
  BY <1>1 DEF Next
<1>2. ASSUME NEW r \in Req, Post(r) \/ Answered(r) \/ HttpPoll(r) \/ Forget(r)
      PROVE  Next
  BY <1>2 DEF Next, Post, Answered, HttpPoll, Forget
<1>3. ASSUME NEW r \in Req, (SendFails(r) \/ StopContext(r)) /\ WireIdle
      PROVE  Next
  BY <1>3 DEF Next
<1>4. ASSUME NEW r \in Req, NEW ev \in WorkerEvent, NEW left, Returns(r, ev, left)
      PROVE  Next
  BY <1>4 DEF Next, Returns
<1>5. ASSUME NEW r \in Req, TakeFrame(r) PROVE [Next]_vars
  <2>1. PICK d \in {Drain(buffered[r])} :
          \/ EventOf(d.frame) # "none" /\ Returns(r, EventOf(d.frame), d.rest)
          \/ UNCHANGED vars
    BY <1>5 DEF TakeFrame
  <2>2. EventOf(d.frame) # "none" => EventOf(d.frame) \in WorkerEvent
    BY EventOfType
  <2>3. QED  BY <1>4, <2>1, <2>2
<1>6. ASSUME NEW r \in Req, TakeChunk(r) \/ WriteOn(r) PROVE UNCHANGED vars
  BY <1>6 DEF TakeChunk, WriteOn
<1>7. ASSUME NEW r \in Req, BodyEnds(r) \/ BodyBreaks(r) PROVE Next
  BY <1>4, <1>7 DEF BodyEnds, BodyBreaks, WorkerEvent
<1>8. CASE UNCHANGED httpVars
  BY <1>8 DEF httpVars
<1>9. QED
  BY <1>1, <1>2, <1>3, <1>5, <1>6, <1>7, <1>8 DEF HttpNext, NextEvent

(***************************************************************************)
(* Cutting bytes into events adds no behaviour: whatever the chunks, the   *)
(* engine over HttpTransport does what the engine may do over a transport. *)
(***************************************************************************)
THEOREM HttpImplementsEngine == HttpSpec => Spec
<1>1. HttpInit => Init  BY DEF HttpInit
<1>2. QED  BY <1>1, HttpStep, PTL DEF HttpSpec, Spec

(***************************************************************************)
(* So the deployed engine counts its live streams exactly and cancels each *)
(* HTTP response exactly once, unless its worker ended it.                 *)
(***************************************************************************)
THEOREM HttpGaugeAndCancel == HttpSpec => []StreamsReleased
BY HttpImplementsEngine, StreamsReleasedTheorem, PTL

(***************************************************************************)
(* Over HttpTransport too a stream ends once, however the response body    *)
(* ends or breaks, and its outcome is recorded.                            *)
(***************************************************************************)
THEOREM HttpEndsOnce == HttpSpec => []EndsOnce
BY HttpImplementsEngine, EndsOnceTheorem, PTL

-------------------------------------------------------------------------------
LEMMA ForwardedKnown ==
  ASSUME NEW r \in Req, Converts(r)
  PROVE  Forwarded(r) \subseteq WorkerFields
<1>1. SUFFICES ASSUME NEW w \in Forwarded(r) PROVE w \in WorkerFields  OBVIOUS
<1>2. CASE w \in Always  BY <1>2 DEF WorkerFields
<1>3. ASSUME NEW c \in Controls[r], w = WireName(c) PROVE w \in WorkerFields
  <2>1. c \in Supported  BY <1>3, ControlsAssumption DEF Converts
  <2>2. CASE c \in {"stop_token_ids_hidden", "max_thinking_tokens"}
    BY <1>3, <2>2 DEF WireName, WorkerFields
  <2>3. CASE c \notin {"stop_token_ids_hidden", "max_thinking_tokens"}
    <3>1. w = c  BY <1>3, <2>3 DEF WireName
    <3>2. QED  BY <2>1, <2>3, <3>1 DEF Supported, WorkerFields, Always
  <2>4. QED  BY <2>2, <2>3
<1>4. QED  BY <1>1, <1>2, <1>3 DEF Forwarded

(* Only requests that convert are posted, with what convert_request made.  *)
Sent ==
  /\ DOMAIN posted = Req
  /\ \A r \in Req : posted[r] # {} => posted[r] = Forwarded(r) /\ Converts(r)

LEMMA SentStep == TypeOK /\ Sent /\ [HttpNext]_httpVars => Sent'
<1> SUFFICES ASSUME TypeOK, Sent, [HttpNext]_httpVars PROVE Sent'  OBVIOUS
<1>1. ASSUME NEW r \in Req, Post(r) PROVE Sent'
  <2>1. posted' = [posted EXCEPT ![r] = IF phase'[r] = "sending" THEN Forwarded(r) ELSE {}]
    BY <1>1 DEF Post
  <2>2. phase'[r] = "sending" => Converts(r)
    BY <1>1 DEF Post, Generate, TypeOK
  <2>3. DOMAIN posted' = Req  BY <2>1 DEF Sent
  <2>4. ASSUME NEW q \in Req, posted'[q] # {}
        PROVE  posted'[q] = Forwarded(q) /\ Converts(q)
    <3>1. CASE q = r
      <4>1. posted'[q] = IF phase'[r] = "sending" THEN Forwarded(r) ELSE {}
        BY <2>1, <3>1 DEF Sent
      <4>2. QED  BY <2>2, <2>4, <3>1, <4>1
    <3>2. CASE q # r
      <4>1. posted'[q] = posted[q]  BY <2>1, <3>2 DEF Sent
      <4>2. QED  BY <2>4, <4>1 DEF Sent
    <3>3. QED  BY <3>1, <3>2
  <2>5. QED  BY <2>3, <2>4 DEF Sent
<1>2. ASSUME UNCHANGED posted PROVE Sent'
  BY <1>2 DEF Sent
<1>3. QED
  BY <1>1, <1>2
  DEF HttpNext, NextEvent, WireIdle, Answered, HttpPoll, Forget, TakeFrame,
      TakeChunk, WriteOn, BodyEnds, BodyBreaks, Returns, httpVars

(***************************************************************************)
(* Every combination of controls Dynamo can set is refused by the adapter  *)
(* or reaches the worker whole, under names the worker does not refuse.    *)
(***************************************************************************)
THEOREM HttpControlsArrive == HttpSpec => []ControlsArrive
<1>1. HttpInit => Sent  BY DEF HttpInit, Sent
<1>2. Sent => ControlsArrive
  BY ForwardedKnown DEF Sent, ControlsArrive, Forwarded
<1>3. HttpSpec => []TypeOK
  BY HttpImplementsEngine, TypeCorrect, PTL
<1>4. QED  BY <1>1, <1>2, <1>3, SentStep, PTL DEF HttpSpec
-------------------------------------------------------------------------------
(* Every set of naturals that is not empty has a least element; hence      *)
(* induction up to a bound.                                                *)
LEMMA LeastElement ==
  ASSUME NEW T \in SUBSET Nat, T # {}
  PROVE  \E n \in T : \A m \in T : n <= m
<1> DEFINE R == OpToRel(<, Nat)
<1>1. IsWellFoundedOn(R, Nat)  BY NatLessThanWellFounded
<1>2. \A x, y \in Nat : x < y => <<x, y>> \in R  BY DEF OpToRel
<1> HIDE DEF R
<1>3. PICK x \in T : \A y \in T : ~ (<<y, x>> \in R)  BY <1>1, WFMin
<1>4. ASSUME NEW y \in T PROVE x <= y
  <2>1. x \in Nat /\ y \in Nat  OBVIOUS
  <2>2. ~ (y < x)  BY <1>2, <1>3, <2>1
  <2> QED  BY <2>1, <2>2
<1> QED  BY <1>4

LEMMA BoundedInduction ==
  ASSUME NEW N \in Nat, NEW T, 0 \in T, \A k \in 1 .. N : k - 1 \in T => k \in T
  PROVE  0 .. N \subseteq T
<1> SUFFICES ASSUME (0 .. N) \ T # {} PROVE FALSE  OBVIOUS
<1>1. PICK n \in (0 .. N) \ T : \A m \in (0 .. N) \ T : n <= m
  BY LeastElement, (0 .. N) \ T \in SUBSET Nat
<1>2. n \in 1 .. N /\ n - 1 \in 0 .. N  OBVIOUS
<1>3. n - 1 \in T  BY <1>1, <1>2
<1> QED  BY <1>3, <1>2

(* The text of b from its i-th piece on.                                   *)
From(b, i) == SubSeq(b, i, Len(b))

LEMMA TextFacts ==
  ASSUME NEW b \in Seq(Piece)
  PROVE  /\ Len(b) \in Nat
         /\ \A i \in 1 .. Len(b) : b[i] \in Piece
         /\ Len(b) = 0 <=> b = <<>>
BY LenProperties, ElementOfSeq, EmptySeq

LEMMA SameText ==
  ASSUME NEW b \in Seq(Piece), NEW c \in Seq(Piece), Len(b) = Len(c),
         \A i \in 1 .. Len(b) : b[i] = c[i]
  PROVE  b = c
BY SeqEqual

LEMMA FromFacts ==
  ASSUME NEW b \in Seq(Piece), NEW i \in 1 .. Len(b) + 1
  PROVE  /\ From(b, i) \in Seq(Piece)
         /\ Len(From(b, i)) = Len(b) - i + 1
         /\ \A j \in 1 .. Len(b) - i + 1 : From(b, i)[j] = b[i + j - 1]
<1>1. Len(b) \in Nat /\ \A j \in i .. Len(b) : b[j] \in Piece  BY TextFacts
<1>2. /\ From(b, i) \in Seq(Piece)
      /\ Len(From(b, i)) = IF i <= Len(b) THEN Len(b) - i + 1 ELSE 0
      /\ \A j \in 1 .. Len(b) - i + 1 : From(b, i)[j] = b[i + j - 1]
  BY <1>1, SubSeqProperties DEF From
<1> QED  BY <1>1, <1>2

LEMMA FromFrom ==
  ASSUME NEW b \in Seq(Piece), NEW i \in 1 .. Len(b) + 1, NEW j \in 1 .. Len(b) - i + 2
  PROVE  From(From(b, i), j) = From(b, i + j - 1)
<1> DEFINE c == From(b, i)
           m == i + j - 1
<1>1. Len(b) \in Nat /\ m \in 1 .. Len(b) + 1  BY TextFacts
<1>2. /\ c \in Seq(Piece) /\ Len(c) = Len(b) - i + 1
      /\ \A k \in 1 .. Len(b) - i + 1 : c[k] = b[i + k - 1]
  BY FromFacts
<1>3. /\ From(b, m) \in Seq(Piece) /\ Len(From(b, m)) = Len(b) - m + 1
      /\ \A k \in 1 .. Len(b) - m + 1 : From(b, m)[k] = b[m + k - 1]
  BY <1>1, FromFacts
<1> HIDE DEF c
<1>4. j \in 1 .. Len(c) + 1  BY <1>1, <1>2
<1>5. /\ From(c, j) \in Seq(Piece) /\ Len(From(c, j)) = Len(c) - j + 1
      /\ \A k \in 1 .. Len(c) - j + 1 : From(c, j)[k] = c[j + k - 1]
  BY <1>2, <1>4, FromFacts
<1>6. Len(c) - j + 1 = Len(b) - m + 1  BY <1>1, <1>2
<1>7. ASSUME NEW k \in 1 .. Len(b) - m + 1 PROVE c[j + k - 1] = b[m + k - 1]
  <2>1. j + k - 1 \in 1 .. Len(b) - i + 1 /\ i + (j + k - 1) - 1 = m + k - 1
    BY <1>1
  <2> QED  BY <1>2, <2>1
<1> HIDE DEF m
<1>8. From(c, j) = From(b, m)  BY <1>3, <1>5, <1>6, <1>7, SameText
<1> QED  BY <1>8 DEF c, m

LEMMA BeforeFacts ==
  ASSUME NEW b \in Seq(Piece), NEW k \in 1 .. Len(b) + 1
  PROVE  /\ SubSeq(b, 1, k - 1) \in Seq(Piece)
         /\ Len(SubSeq(b, 1, k - 1)) = k - 1
         /\ \A j \in 1 .. k - 1 : SubSeq(b, 1, k - 1)[j] = b[j]
<1>1. Len(b) \in Nat /\ \A j \in 1 .. k - 1 : b[j] \in Piece  BY TextFacts
<1> DEFINE n == k - 1
<1>2. n \in Int /\ n >= 0 /\ \A j \in 1 .. n : b[j] \in Piece  BY <1>1
<1> HIDE DEF n
<1>3. /\ SubSeq(b, 1, n) \in Seq(Piece)
      /\ Len(SubSeq(b, 1, n)) = IF 1 <= n THEN n - 1 + 1 ELSE 0
      /\ \A j \in 1 .. n - 1 + 1 : SubSeq(b, 1, n)[j] = b[1 + j - 1]
  BY <1>2, SubSeqProperties
<1>4. Len(SubSeq(b, 1, n)) = n /\ \A j \in 1 .. n : SubSeq(b, 1, n)[j] = b[j]
  BY <1>2, <1>3
<1> QED  BY <1>3, <1>4 DEF n

LEMMA JoinFacts ==
  ASSUME NEW b \in Seq(Piece), NEW c \in Seq(Piece)
  PROVE  /\ b \o c \in Seq(Piece)
         /\ Len(b \o c) = Len(b) + Len(c)
         /\ \A i \in 1 .. Len(b) + Len(c) :
              (b \o c)[i] = IF i <= Len(b) THEN b[i] ELSE c[i - Len(b)]
BY ConcatProperties

LEMMA JoinAssociative ==
  /\ \A b, c, d \in Seq(Piece) : (b \o c) \o d = b \o (c \o d)
  /\ \A b, c, d \in Seq(WorkerEvent) : (b \o c) \o d = b \o (c \o d)
<1>1. ASSUME NEW b \in Seq(Piece), NEW c \in Seq(Piece), NEW d \in Seq(Piece)
      PROVE  (b \o c) \o d = b \o (c \o d)
  BY ConcatAssociative
<1>2. ASSUME NEW b \in Seq(WorkerEvent), NEW c \in Seq(WorkerEvent), NEW d \in Seq(WorkerEvent)
      PROVE  (b \o c) \o d = b \o (c \o d)
  BY ConcatAssociative
<1> QED  BY <1>1, <1>2

LEMMA JoinEmpty ==
  /\ \A b \in Seq(Piece) : b \o <<>> = b /\ <<>> \o b = b
  /\ \A b \in Seq(WorkerEvent) : b \o <<>> = b /\ <<>> \o b = b
<1>1. ASSUME NEW S PROVE \A b \in Seq(S) : b \o <<>> = b /\ <<>> \o b = b
  BY ConcatEmptySeq
<1> QED  BY <1>1

LEMMA JoinCancel ==
  ASSUME NEW y \in Seq(WorkerEvent), NEW a \in Seq(WorkerEvent),
         NEW b \in Seq(WorkerEvent), y \o a = y \o b
  PROVE  a = b
<1>1. Len(y) \in Nat /\ Len(a) \in Nat /\ Len(b) \in Nat  BY LenProperties
<1>2. /\ Len(y \o a) = Len(y) + Len(a)
      /\ \A i \in 1 .. Len(y) + Len(a) :
           (y \o a)[i] = IF i <= Len(y) THEN y[i] ELSE a[i - Len(y)]
  BY ConcatProperties
<1>3. /\ Len(y \o b) = Len(y) + Len(b)
      /\ \A i \in 1 .. Len(y) + Len(b) :
           (y \o b)[i] = IF i <= Len(y) THEN y[i] ELSE b[i - Len(y)]
  BY ConcatProperties
<1>4. Len(a) = Len(b)  BY <1>1, <1>2, <1>3
<1>5. ASSUME NEW i \in 1 .. Len(a) PROVE a[i] = b[i]
  <2>1. PICK j \in 1 .. Len(y) + Len(a) : j = Len(y) + i  BY <1>1
  <2>2. ~ (j <= Len(y)) /\ j - Len(y) = i  BY <1>1, <2>1
  <2>3. (y \o a)[j] = a[i]  BY <1>2, <2>2
  <2>4. (y \o b)[j] = b[i]  BY <1>3, <1>4, <2>2
  <2> QED  BY <2>3, <2>4
<1> QED  BY <1>4, <1>5, SeqEqual

-------------------------------------------------------------------------------
(* What EndingLen may be, and what it depends on.                          *)
LEMMA EndingFacts ==
  ASSUME NEW b \in Seq(Piece), NEW i \in Nat \ {0}
  PROVE  /\ EndingLen(b, i) \in 0 .. 2
         /\ EndingLen(b, i) > 0 <=> i <= Len(b) /\ b[i] \in Ending
         /\ EndingLen(b, i) = 2 <=> i < Len(b) /\ b[i] = "cr" /\ b[i + 1] = "lf"
         /\ i + EndingLen(b, i) <= Len(b) + 1 \/ i > Len(b)
         /\ EndingLen(b, i) = 2 => b[i + 1] \in Ending
BY TextFacts DEF EndingLen, Ending

LEMMA EndingFrom ==
  ASSUME NEW b \in Seq(Piece), NEW i \in 1 .. Len(b) + 1, NEW j \in Nat \ {0}
  PROVE  /\ EndingLen(From(b, i), j) = EndingLen(b, i + j - 1)
         /\ EndsAt(From(b, i), j) <=> EndsAt(b, i + j - 1)
<1>1. /\ Len(b) \in Nat /\ From(b, i) \in Seq(Piece)
      /\ Len(From(b, i)) = Len(b) - i + 1
      /\ \A k \in 1 .. Len(b) - i + 1 : From(b, i)[k] = b[i + k - 1]
  BY FromFacts, TextFacts
<1> DEFINE c == From(b, i)
<1> HIDE DEF c
<1>2. ASSUME NEW k \in Nat \ {0} PROVE EndingLen(c, k) = EndingLen(b, i + k - 1)
  <2>1. CASE k > Len(c)  BY <1>1, <2>1 DEF EndingLen, c
  <2>2. CASE k < Len(c)
    <3>1. c[k] = b[i + k - 1] /\ c[k + 1] = b[i + k - 1 + 1]
      BY <1>1, <2>2, k \in 1 .. Len(b) - i + 1, k + 1 \in 1 .. Len(b) - i + 1 DEF c
    <3> QED  BY <1>1, <2>2, <3>1 DEF EndingLen, c
  <2>3. CASE k = Len(c)
    <3>1. c[k] = b[i + k - 1]  BY <1>1, <2>3, k \in 1 .. Len(b) - i + 1 DEF c
    <3> QED  BY <1>1, <2>3, <3>1 DEF EndingLen, c
  <2>4. Len(c) \in Int  BY <1>1 DEF c
  <2> QED  BY <2>1, <2>2, <2>3, <2>4
<1>3. EndingLen(c, j) = EndingLen(b, i + j - 1)  BY <1>2
<1> DEFINE e == EndingLen(c, j)
<1>4. e \in 0 .. 2  BY <1>1, EndingFacts DEF c
<1> HIDE DEF e
<1>5. EndingLen(c, j + e) = EndingLen(b, i + j - 1 + e)
  BY <1>2, <1>4, j + e \in Nat \ {0}, i + (j + e) - 1 = i + j - 1 + e
<1> QED  BY <1>3, <1>5 DEF c, e, EndsAt

(* The first frame of b, if there is one.                                  *)
FrameAt(b, k) ==
  /\ k \in 1 .. Len(b)
  /\ EndsAt(b, k)
  /\ \A j \in 1 .. k - 1 : ~ EndsAt(b, j)

(* Where the text goes on after it.                                        *)
After(b, k) ==
  k + EndingLen(b, k) + EndingLen(b, k + EndingLen(b, k))

LEMMA FrameFacts ==
  ASSUME NEW b \in Seq(Piece), HasFrame(b)
  PROVE  FrameAt(b, FrameEnd(b))
<1> DEFINE T == {i \in 1 .. Len(b) : EndsAt(b, i)}
<1>1. T \in SUBSET Nat /\ T # {}  BY DEF HasFrame
<1>2. PICK k \in T : \A m \in T : k <= m  BY <1>1, LeastElement
<1>3. Len(b) \in Nat  BY TextFacts
<1>4. ASSUME NEW j \in 1 .. k - 1 PROVE ~ EndsAt(b, j)
  <2>1. j \in 1 .. Len(b) /\ j < k  BY <1>3
  <2> QED  BY <1>2, <2>1
<1>5. \E i \in 1 .. Len(b) : EndsAt(b, i) /\ \A j \in 1 .. i - 1 : ~ EndsAt(b, j)
  BY <1>4
<1> QED  BY <1>5 DEF FrameEnd, FrameAt

LEMMA FrameUnique ==
  ASSUME NEW b \in Seq(Piece), NEW k, FrameAt(b, k)
  PROVE  HasFrame(b) /\ FrameEnd(b) = k
<1>1. HasFrame(b)  BY DEF FrameAt, HasFrame
<1>2. FrameAt(b, FrameEnd(b))  BY <1>1, FrameFacts
<1> DEFINE m == FrameEnd(b)
<1> HIDE DEF m
<1>3. FrameAt(b, m)  BY <1>2 DEF m
<1>4. m \in Nat /\ k \in Nat  BY <1>3, TextFacts DEF FrameAt
<1>5. ~ (m < k) /\ ~ (k < m)  BY <1>3, <1>4 DEF FrameAt
<1> QED  BY <1>1, <1>4, <1>5 DEF m

LEMMA AfterFacts ==
  ASSUME NEW b \in Seq(Piece), NEW k, FrameAt(b, k)
  PROVE  /\ After(b, k) \in k + 2 .. Len(b) + 1
         /\ \A i \in k .. After(b, k) - 1 : b[i] \in Ending
<1> DEFINE e == EndingLen(b, k)
           f == EndingLen(b, k + e)
<1>1. Len(b) \in Nat /\ k \in 1 .. Len(b) /\ e > 0 /\ f > 0
  BY TextFacts DEF FrameAt, EndsAt
<1>2. /\ e \in 0 .. 2 /\ b[k] \in Ending /\ (e = 2 => b[k + 1] \in Ending)
      /\ k + e <= Len(b) + 1
  BY <1>1, EndingFacts
<1>3. k + e \in Nat \ {0}  BY <1>1, <1>2
<1>4. /\ f \in 0 .. 2 /\ k + e <= Len(b) /\ b[k + e] \in Ending
      /\ f = 2 => b[k + e + 1] \in Ending
      /\ k + e + f <= Len(b) + 1
  BY <1>1, <1>3, EndingFacts
<1> HIDE DEF e, f
<1>5. ASSUME NEW i \in k .. k + e + f - 1 PROVE b[i] \in Ending
  <2>1. i = k \/ i = k + e \/ (e = 2 /\ i = k + 1) \/ (f = 2 /\ i = k + e + 1)
    BY <1>1, <1>2, <1>4
  <2> QED  BY <1>2, <1>4, <2>1
<1> QED  BY <1>1, <1>2, <1>4, <1>5 DEF After, e, f

LEMMA DrainFacts ==
  ASSUME NEW b \in Seq(Piece), NEW k, FrameAt(b, k)
  PROVE  /\ HasFrame(b)
         /\ Drain(b).frame = SubSeq(b, 1, k - 1)
         /\ Drain(b).rest = From(b, After(b, k))
         /\ Drain(b).frame \in Seq(Piece)
         /\ Drain(b).rest \in Seq(Piece)
         /\ Len(Drain(b).rest) < Len(b)
<1>1. HasFrame(b) /\ FrameEnd(b) = k /\ k \in 1 .. Len(b)
  BY FrameUnique DEF FrameAt
<1>2. Drain(b) = [frame |-> SubSeq(b, 1, k - 1), rest |-> From(b, After(b, k))]
  BY <1>1 DEF Drain, From, After
<1>3. Len(b) \in Nat /\ After(b, k) \in 1 .. Len(b) + 1 /\ After(b, k) >= 3
  BY <1>1, AfterFacts, TextFacts
<1>4. From(b, After(b, k)) \in Seq(Piece) /\ Len(From(b, After(b, k))) < Len(b)
  BY <1>3, FromFacts
<1>5. SubSeq(b, 1, k - 1) \in Seq(Piece)
  BY <1>1, <1>3, BeforeFacts
<1> QED  BY <1>1, <1>2, <1>4, <1>5
-------------------------------------------------------------------------------
(* Events is well defined: the text left after a frame is shorter.  Below  *)
(* a length the recursion has a solution, and there is only one.           *)
Short(n) == {b \in Seq(Piece) : Len(b) <= n}

Unfold(b, f) ==
  IF ~ HasFrame(b) THEN <<>> ELSE Yielded(Drain(b).frame) \o f[Drain(b).rest]

Solves(f, S) ==
  /\ f \in [S -> Seq(WorkerEvent)]
  /\ \A b \in S : f[b] = Unfold(b, f)

LEMMA YieldedType == ASSUME NEW f PROVE Yielded(f) \in Seq(WorkerEvent)
<1>1. EventOf(f) \in WorkerEvent \cup {"none"}
  BY DEF EventOf, WorkerEvent
<1>2. CASE EventOf(f) = "none"
  BY <1>2, EmptySeq DEF Yielded
<1>3. CASE EventOf(f) # "none"
  <2>1. Yielded(f) = <<EventOf(f)>> /\ EventOf(f) \in WorkerEvent
    BY <1>1, <1>3 DEF Yielded
  <2> QED  BY <2>1
<1> QED  BY <1>2, <1>3

LEMMA RestShort ==
  ASSUME NEW b \in Seq(Piece), HasFrame(b)
  PROVE  /\ Drain(b).rest \in Seq(Piece)
         /\ Len(Drain(b).rest) \in Nat /\ Len(b) \in Nat
         /\ Len(Drain(b).rest) < Len(b)
BY FrameFacts, DrainFacts, TextFacts

LEMMA ShortClosed ==
  ASSUME NEW n \in Nat, NEW b \in Short(n), HasFrame(b)
  PROVE  /\ b \in Seq(Piece)
         /\ Drain(b).rest \in Short(n)
         /\ n > 0 => Drain(b).rest \in Short(n - 1)
BY RestShort DEF Short

LEMMA SolutionUnique ==
  ASSUME NEW n \in Nat, NEW m \in Nat, NEW f, NEW g,
         Solves(f, Short(n)), Solves(g, Short(m)),
         NEW b0 \in Seq(Piece), b0 \in Short(n), b0 \in Short(m)
  PROVE  f[b0] = g[b0]
<1> SUFFICES ASSUME f[b0] # g[b0] PROVE FALSE  OBVIOUS
<1> DEFINE Bad == {b \in Short(n) \cap Short(m) : f[b] # g[b]}
           L == {Len(b) : b \in Bad}
<1>1. L \in SUBSET Nat /\ L # {}  BY TextFacts DEF Short
<1>2. PICK k \in L : \A j \in L : k <= j  BY <1>1, LeastElement
<1>3. PICK b \in Bad : \A c \in Bad : Len(b) <= Len(c)  BY <1>2
<1>4. b \in Seq(Piece) /\ f[b] = Unfold(b, f) /\ g[b] = Unfold(b, g)
  BY DEF Solves, Short
<1>5. HasFrame(b)  BY <1>4 DEF Unfold
<1>6. /\ Drain(b).rest \in Short(n) /\ Drain(b).rest \in Short(m)
      /\ Len(Drain(b).rest) \in Nat /\ Len(b) \in Nat
      /\ Len(Drain(b).rest) < Len(b)
  BY <1>4, <1>5, RestShort, ShortClosed
<1>7. f[Drain(b).rest] = g[Drain(b).rest]  BY <1>3, <1>6
<1> QED  BY <1>4, <1>5, <1>7 DEF Unfold

LEMMA UnfoldType ==
  ASSUME NEW S, NEW f \in [S -> Seq(WorkerEvent)], NEW b \in Seq(Piece),
         HasFrame(b) => Drain(b).rest \in S
  PROVE  Unfold(b, f) \in Seq(WorkerEvent)
<1>1. CASE ~ HasFrame(b)  BY <1>1, EmptySeq DEF Unfold
<1>2. CASE HasFrame(b)
  <2>1. f[Drain(b).rest] \in Seq(WorkerEvent)  BY <1>2
  <2>2. Yielded(Drain(b).frame) \in Seq(WorkerEvent)  BY YieldedType
  <2>3. Yielded(Drain(b).frame) \o f[Drain(b).rest] \in Seq(WorkerEvent)
    BY <2>1, <2>2, ConcatProperties
  <2> QED  BY <1>2, <2>3 DEF Unfold
<1> QED  BY <1>1, <1>2

LEMMA SolutionExists ==
  ASSUME NEW n \in Nat
  PROVE  \E f : Solves(f, Short(n))
<1> DEFINE T == {m \in 0 .. n : \E f : Solves(f, Short(m))}
<1>1. 0 \in T
  <2> DEFINE g == [b \in Short(0) |-> <<>>]
  <2>1. ASSUME NEW b \in Short(0) PROVE ~ HasFrame(b)
    BY RestShort DEF Short
  <2>2. \A b \in Short(0) : g[b] = Unfold(b, g)  BY <2>1 DEF Unfold
  <2>3. g \in [Short(0) -> Seq(WorkerEvent)]  BY EmptySeq
  <2> HIDE DEF g
  <2>4. Solves(g, Short(0))  BY <2>2, <2>3 DEF Solves
  <2> QED  BY <2>4
<1>2. ASSUME NEW m \in 1 .. n, m - 1 \in T PROVE m \in T
  <2>1. PICK f : Solves(f, Short(m - 1))  BY <1>2
  <2>2. /\ f \in [Short(m - 1) -> Seq(WorkerEvent)]
        /\ \A b \in Short(m - 1) : f[b] = Unfold(b, f)
    BY <2>1 DEF Solves
  <2> DEFINE g == [b \in Short(m) |-> Unfold(b, f)]
  <2>3. ASSUME NEW b \in Short(m), HasFrame(b)
        PROVE  /\ Drain(b).rest \in Short(m - 1) /\ Drain(b).rest \in Short(m)
               /\ b \in Seq(Piece)
    BY <2>3, ShortClosed
  <2>4. ASSUME NEW b \in Short(m) PROVE g[b] \in Seq(WorkerEvent)
    <3>1. b \in Seq(Piece)  BY DEF Short
    <3> QED  BY <2>2, <2>3, <3>1, UnfoldType
  <2>5. ASSUME NEW b \in Short(m) PROVE g[b] = Unfold(b, g)
    <3>1. CASE ~ HasFrame(b)  BY <3>1 DEF Unfold
    <3>2. CASE HasFrame(b)
      <4> DEFINE c == Drain(b).rest
      <4>1. c \in Short(m - 1) /\ c \in Short(m)  BY <2>3, <3>2
      <4> HIDE DEF c
      <4>2. g[c] = f[c]  BY <2>2, <4>1
      <4> HIDE DEF g
      <4>3. Unfold(b, f) = Unfold(b, g)  BY <4>2 DEF Unfold, c
      <4> QED  BY <4>3 DEF g
    <3> QED  BY <3>1, <3>2
  <2>6. g \in [Short(m) -> Seq(WorkerEvent)]  BY <2>4
  <2> HIDE DEF g
  <2>7. Solves(g, Short(m))  BY <2>5, <2>6 DEF Solves
  <2> QED  BY <2>7
<1> HIDE DEF T
<1>3. 0 .. n \subseteq T  BY <1>1, <1>2, BoundedInduction
<1>4. n \in T  BY <1>3
<1> QED  BY <1>4 DEF T

LEMMA EventsSolves == Solves(Events, Seq(Piece))
<1> DEFINE At(n) == CHOOSE f : Solves(f, Short(n))
           F == [b \in Seq(Piece) |-> At(Len(b))[b]]
<1>1. ASSUME NEW n \in Nat PROVE Solves(At(n), Short(n))
  BY SolutionExists
<1>2. ASSUME NEW b \in Seq(Piece) PROVE Len(b) \in Nat /\ b \in Short(Len(b))
  BY TextFacts DEF Short
<1> HIDE DEF At
<1>3. ASSUME NEW b \in Seq(Piece) PROVE F[b] \in Seq(WorkerEvent)
  BY <1>1, <1>2 DEF Solves
<1>4. ASSUME NEW b \in Seq(Piece) PROVE F[b] = Unfold(b, F)
  <2>1. F[b] = Unfold(b, At(Len(b)))  BY <1>1, <1>2 DEF Solves
  <2>2. CASE ~ HasFrame(b)  BY <2>1, <2>2 DEF Unfold
  <2>3. CASE HasFrame(b)
    <3> DEFINE c == Drain(b).rest
    <3>1. c \in Seq(Piece) /\ c \in Short(Len(b))
      BY <1>2, <2>3, RestShort, ShortClosed
    <3> HIDE DEF c
    <3>2. PICK n \in Nat, m \in Nat : n = Len(b) /\ m = Len(c)  BY <1>2, <3>1
    <3>3. Solves(At(n), Short(n)) /\ Solves(At(m), Short(m))  BY <1>1
    <3>4. c \in Short(n) /\ c \in Short(m)  BY <1>2, <3>1, <3>2
    <3>5. PICK f, g : f = At(n) /\ g = At(m)  OBVIOUS
    <3>6. f[c] = g[c]  BY <3>1, <3>3, <3>4, <3>5, SolutionUnique
    <3>7. At(n)[c] = F[c]  BY <3>1, <3>2, <3>5, <3>6
    <3> HIDE DEF F
    <3>8. Unfold(b, At(n)) = Unfold(b, F)  BY <3>7 DEF Unfold, c
    <3> QED  BY <2>1, <3>2, <3>8
  <2> QED  BY <2>2, <2>3
<1> HIDE DEF F
<1>5. F = [b \in Seq(Piece) |-> Unfold(b, F)]  BY <1>4 DEF F
<1>6. Events = [b \in Seq(Piece) |-> Unfold(b, Events)]
  BY <1>5 DEF Events, Unfold
<1>7. \A b \in Seq(Piece) : Events[b] = Unfold(b, Events)
  <2> DEFINE E == Events
  <2>1. E = [b \in Seq(Piece) |-> Unfold(b, E)]  BY <1>6
  <2> HIDE DEF E
  <2>2. \A b \in Seq(Piece) : E[b] = Unfold(b, E)  BY <2>1
  <2> QED  BY <2>2 DEF E
<1>8. Events \in [Seq(Piece) -> Seq(WorkerEvent)]
  <2> SUFFICES ASSUME NEW b0 \in Seq(Piece), Events[b0] \notin Seq(WorkerEvent)
               PROVE  FALSE
    BY <1>6
  <2> DEFINE Bad == {b \in Seq(Piece) : Events[b] \notin Seq(WorkerEvent)}
             L == {Len(b) : b \in Bad}
  <2>1. L \in SUBSET Nat /\ L # {}  BY TextFacts
  <2>2. PICK n \in L : \A m \in L : n <= m  BY <2>1, LeastElement
  <2>3. PICK b \in Bad : \A c \in Bad : Len(b) <= Len(c)  BY <2>2
  <2>4. b \in Seq(Piece) /\ Events[b] = Unfold(b, Events)  BY <1>7
  <2>5. HasFrame(b)  BY <2>3, <2>4, EmptySeq DEF Unfold
  <2> DEFINE c == Drain(b).rest
  <2>6. c \in Seq(Piece) /\ Len(c) \in Nat /\ Len(b) \in Nat /\ Len(c) < Len(b)
    BY <2>4, <2>5, RestShort
  <2> HIDE DEF c
  <2>7. Events[c] \in Seq(WorkerEvent)  BY <2>3, <2>6
  <2>8. Yielded(Drain(b).frame) \in Seq(WorkerEvent)  BY YieldedType
  <2>9. Yielded(Drain(b).frame) \o Events[c] \in Seq(WorkerEvent)
    BY <2>7, <2>8, ConcatProperties
  <2>10. Events[b] \in Seq(WorkerEvent)  BY <2>4, <2>5, <2>9 DEF Unfold, c
  <2> QED  BY <2>3, <2>10
<1> QED  BY <1>7, <1>8 DEF Solves

(* What Events is of a text with a first frame, and of one without.        *)
LEMMA EventsFrame ==
  ASSUME NEW b \in Seq(Piece), NEW k, FrameAt(b, k)
  PROVE  /\ Events[b] = Yielded(SubSeq(b, 1, k - 1)) \o Events[From(b, After(b, k))]
         /\ From(b, After(b, k)) \in Seq(Piece)
         /\ Len(From(b, After(b, k))) < Len(b)
<1>1. Events[b] = Unfold(b, Events)  BY EventsSolves DEF Solves
<1> QED  BY <1>1, DrainFacts DEF Unfold

LEMMA EventsNone ==
  ASSUME NEW b \in Seq(Piece), ~ HasFrame(b)
  PROVE  Events[b] = <<>>
BY EventsSolves DEF Solves, Unfold

LEMMA EventsType ==
  ASSUME NEW b \in Seq(Piece) PROVE Events[b] \in Seq(WorkerEvent)
BY EventsSolves DEF Solves
-------------------------------------------------------------------------------
(* EventOf looks at the lines of a frame and not at how they end.          *)
LEMMA EventOfSame ==
  ASSUME NEW f \in Seq(Piece), NEW g \in Seq(Piece),
         \A p \in Piece \ Ending :
           (\E i \in 1 .. Len(f) : f[i] = p) <=> (\E i \in 1 .. Len(g) : g[i] = p)
  PROVE  EventOf(f) = EventOf(g) /\ Yielded(f) = Yielded(g)
<1>1. {"bad", "error", "token", "finish"} \subseteq Piece \ Ending
  BY DEF Piece, Ending
<1> QED  BY <1>1 DEF EventOf, Yielded

(* A line ending in front of the text is no event and hides none.          *)
LEMMA SkipEnding ==
  ASSUME NEW w \in Seq(Piece), Len(w) > 0, w[1] \in Ending
  PROVE  Events[w] = Events[From(w, 2)]
<1> SUFFICES ASSUME Events[w] # Events[From(w, 2)] PROVE FALSE  OBVIOUS
<1> DEFINE Bad == {b \in Seq(Piece) : /\ Len(b) > 0 /\ b[1] \in Ending
                                      /\ Events[b] # Events[From(b, 2)]}
           L == {Len(b) : b \in Bad}
<1>1. L \in SUBSET Nat /\ L # {}  BY TextFacts
<1>2. PICK n \in L : \A m \in L : n <= m  BY <1>1, LeastElement
<1>3. PICK b \in Bad : \A c \in Bad : Len(b) <= Len(c)  BY <1>2
<1> DEFINE v == From(b, 2)
<1>4. /\ b \in Seq(Piece) /\ Len(b) \in Nat /\ Len(b) > 0 /\ b[1] \in Ending
      /\ Events[b] # Events[v]
  BY TextFacts
<1>5. /\ v \in Seq(Piece) /\ Len(v) = Len(b) - 1
      /\ \A j \in 1 .. Len(b) - 1 : v[j] = b[j + 1]
  BY <1>4, FromFacts, 2 \in 1 .. Len(b) + 1
<1>6. \A j \in Nat \ {0} : EndsAt(v, j) <=> EndsAt(b, j + 1)
  BY <1>4, EndingFrom, 2 \in 1 .. Len(b) + 1
<1> HIDE DEF Bad, L
<1>7. CASE EndsAt(b, 1)
  <2>1. FrameAt(b, 1)  BY <1>4, <1>7 DEF FrameAt
  <2> DEFINE a == After(b, 1)
  <2>2. a \in 3 .. Len(b) + 1 /\ \A i \in 1 .. a - 1 : b[i] \in Ending
    BY <1>4, <2>1, AfterFacts
  <2>3. a <= 5
    <3>1. EndingLen(b, 1) \in 0 .. 2  BY <1>4, EndingFacts
    <3>2. EndingLen(b, 1 + EndingLen(b, 1)) \in 0 .. 2
      BY <1>4, <3>1, EndingFacts, 1 + EndingLen(b, 1) \in Nat \ {0}
    <3> QED  BY <3>1, <3>2 DEF After
  <2>4. Events[b] = Events[From(b, a)]
    <3>1. Events[b] = Yielded(SubSeq(b, 1, 0)) \o Events[From(b, a)]
      BY <1>4, <2>1, EventsFrame, 1 - 1 = 0
    <3>2. SubSeq(b, 1, 0) = <<>>  BY SubSeqEmpty
    <3>3. Yielded(<<>>) = <<>>  BY DEF Yielded, EventOf
    <3>4. Events[From(b, a)] \in Seq(WorkerEvent)
      BY <1>4, <2>2, FromFacts, EventsType
    <3> QED  BY <3>1, <3>2, <3>3, <3>4, ConcatEmptySeq
  <2> HIDE DEF a
  <2>5. ASSUME NEW i \in 2 .. a - 1 PROVE Events[From(b, i)] = Events[From(b, i + 1)]
    <3> DEFINE c == From(b, i)
    <3>1. /\ c \in Seq(Piece) /\ Len(c) = Len(b) - i + 1 /\ c[1] = b[i]
          /\ i \in 1 .. Len(b)
      BY <1>4, <2>2, FromFacts, i \in 1 .. Len(b) + 1, 1 \in 1 .. Len(b) - i + 1
    <3>2. Len(c) > 0 /\ c[1] \in Ending /\ Len(c) < Len(b)
      BY <1>4, <2>2, <3>1
    <3>3. From(c, 2) = From(b, i + 1)
      BY <1>4, <3>1, FromFrom, i \in 1 .. Len(b) + 1, 2 \in 1 .. Len(b) - i + 2,
         i + 2 - 1 = i + 1
    <3>4. c \notin Bad  BY <1>3, <1>4, <3>1, <3>2
    <3> HIDE DEF c
    <3>5. Events[c] = Events[From(c, 2)]  BY <3>1, <3>2, <3>4 DEF Bad
    <3> QED  BY <3>3, <3>5 DEF c
  <2>6. Events[From(b, 2)] = Events[From(b, a)]
    <3>1. a = 3 \/ a = 4 \/ a = 5  BY <1>4, <2>2, <2>3
    <3>2. CASE a = 3  BY <2>5, <3>2, 2 \in 2 .. a - 1
    <3>3. CASE a = 4  BY <2>5, <3>3, 2 \in 2 .. a - 1, 3 \in 2 .. a - 1
    <3>4. CASE a = 5
      BY <2>5, <3>4, 2 \in 2 .. a - 1, 3 \in 2 .. a - 1, 4 \in 2 .. a - 1
    <3> QED  BY <3>1, <3>2, <3>3, <3>4
  <2> QED  BY <1>4, <2>4, <2>6
<1>8. CASE ~ EndsAt(b, 1) /\ ~ HasFrame(b)
  <2>1. ~ HasFrame(v)
    <3> SUFFICES ASSUME NEW j \in 1 .. Len(v), EndsAt(v, j) PROVE FALSE
      BY DEF HasFrame
    <3> HIDE DEF v
    <3>1. j \in Nat \ {0} /\ j + 1 \in 1 .. Len(b)  BY <1>4, <1>5
    <3>2. EndsAt(b, j + 1)  BY <1>6, <3>1
    <3> QED  BY <1>8, <3>1, <3>2 DEF HasFrame
  <2> QED  BY <1>4, <1>5, <1>8, <2>1, EventsNone
<1>9. CASE ~ EndsAt(b, 1) /\ HasFrame(b)
  <2>1. PICK k : FrameAt(b, k)  BY <1>4, <1>9, FrameFacts
  <2>2. k \in 2 .. Len(b)  BY <1>4, <1>9, <2>1 DEF FrameAt
  <2>3. FrameAt(v, k - 1)
    <3>1. k - 1 \in 1 .. Len(v)  BY <1>4, <1>5, <2>2
    <3>2. EndsAt(v, k - 1)  BY <1>6, <2>1, <2>2, k - 1 + 1 = k DEF FrameAt
    <3>3. ASSUME NEW j \in 1 .. k - 1 - 1 PROVE ~ EndsAt(v, j)
      <4>1. j \in Nat \ {0} /\ j + 1 \in 1 .. k - 1  BY <2>2
      <4> QED  BY <1>6, <2>1, <4>1 DEF FrameAt
    <3> QED  BY <3>1, <3>2, <3>3 DEF FrameAt
  <2>4. After(b, k) = After(v, k - 1) + 1
    <3>1. \A j \in Nat \ {0} : EndingLen(v, j) = EndingLen(b, j + 1)
      BY <1>4, EndingFrom, 2 \in 1 .. Len(b) + 1
    <3>2. EndingLen(v, k - 1) = EndingLen(b, k)
      BY <2>2, <3>1, k - 1 \in Nat \ {0}, k - 1 + 1 = k
    <3> DEFINE e == EndingLen(b, k)
    <3>3. e \in 0 .. 2  BY <1>4, <2>2, EndingFacts
    <3> HIDE DEF e
    <3>4. EndingLen(v, k - 1 + e) = EndingLen(b, k + e)
      <4>1. PICK j \in Nat \ {0} : j = k - 1 + e  BY <2>2, <3>3
      <4>2. j + 1 = k + e  BY <2>2, <3>3, <4>1
      <4> QED  BY <3>1, <4>1, <4>2
    <3>5. EndingLen(b, k + e) \in 0 .. 2
      BY <1>4, <2>2, <3>3, EndingFacts, k + e \in Nat \ {0}
    <3> QED  BY <2>2, <3>2, <3>3, <3>4, <3>5 DEF After, e
  <2>5. From(b, After(b, k)) = From(v, After(v, k - 1))
    <3> DEFINE a == After(v, k - 1)
    <3>1. a \in 1 .. Len(v) + 1  BY <1>4, <1>5, <2>2, <2>3, AfterFacts
    <3> HIDE DEF a
    <3>2. a \in 1 .. Len(b) - 2 + 2 /\ 2 + a - 1 = a + 1  BY <1>4, <1>5, <3>1
    <3>3. From(v, a) = From(b, a + 1)
      BY <1>4, <3>2, FromFrom, 2 \in 1 .. Len(b) + 1
    <3> QED  BY <2>4, <3>3 DEF a
  <2>6. Yielded(SubSeq(b, 1, k - 1)) = Yielded(SubSeq(v, 1, k - 1 - 1))
    <3> DEFINE f == SubSeq(b, 1, k - 1)
               g == SubSeq(v, 1, k - 1 - 1)
    <3>1. /\ f \in Seq(Piece) /\ Len(f) = k - 1 /\ \A j \in 1 .. k - 1 : f[j] = b[j]
      BY <1>4, <2>2, BeforeFacts
    <3>2. /\ g \in Seq(Piece) /\ Len(g) = k - 2 /\ \A j \in 1 .. k - 2 : g[j] = b[j + 1]
      <4>1. k - 1 \in 1 .. Len(v) + 1  BY <1>4, <1>5, <2>2
      <4>2. /\ g \in Seq(Piece) /\ Len(g) = k - 1 - 1 /\ \A j \in 1 .. k - 1 - 1 : g[j] = v[j]
        BY <1>5, <4>1, BeforeFacts
      <4>3. k - 1 - 1 = k - 2 /\ \A j \in 1 .. k - 2 : j \in 1 .. Len(b) - 1
        BY <1>4, <2>2
      <4> HIDE DEF v, g
      <4> QED  BY <1>5, <4>2, <4>3
    <3> HIDE DEF f, g
    <3>3. ASSUME NEW p \in Piece \ Ending
          PROVE  (\E i \in 1 .. Len(f) : f[i] = p) <=> (\E i \in 1 .. Len(g) : g[i] = p)
      <4>1. ASSUME NEW i \in 1 .. Len(f), f[i] = p PROVE \E j \in 1 .. Len(g) : g[j] = p
        <5>1. i # 1  BY <1>4, <3>1, <4>1
        <5>2. i - 1 \in 1 .. Len(g) /\ g[i - 1] = f[i]
          BY <2>2, <3>1, <3>2, <5>1, i - 1 \in 1 .. k - 2, i - 1 + 1 = i
        <5> QED  BY <4>1, <5>2
      <4>2. ASSUME NEW i \in 1 .. Len(g), g[i] = p PROVE \E j \in 1 .. Len(f) : f[j] = p
        <5>1. i + 1 \in 1 .. Len(f) /\ f[i + 1] = g[i]
          BY <2>2, <3>1, <3>2, i + 1 \in 1 .. k - 1
        <5> QED  BY <4>2, <5>1
      <4> QED  BY <4>1, <4>2
    <3>4. Yielded(f) = Yielded(g)  BY <3>1, <3>2, <3>3, EventOfSame
    <3> QED  BY <3>4 DEF f, g
  <2>7. Events[b] = Yielded(SubSeq(b, 1, k - 1)) \o Events[From(b, After(b, k))]
    BY <1>4, <2>1, EventsFrame
  <2>8. Events[v] = Yielded(SubSeq(v, 1, k - 1 - 1)) \o Events[From(v, After(v, k - 1))]
    BY <1>5, <2>3, EventsFrame
  <2> QED  BY <1>4, <2>5, <2>6, <2>7, <2>8
<1> QED  BY <1>7, <1>8, <1>9
-------------------------------------------------------------------------------
LEMMA FromJoin ==
  ASSUME NEW b \in Seq(Piece), NEW u \in Seq(Piece), NEW i \in 1 .. Len(b) + 1
  PROVE  From(b \o u, i) = From(b, i) \o u
<1> DEFINE w == b \o u
           c == From(b, i)
<1>1. Len(b) \in Nat /\ Len(u) \in Nat  BY TextFacts
<1>2. /\ w \in Seq(Piece) /\ Len(w) = Len(b) + Len(u)
      /\ \A j \in 1 .. Len(b) + Len(u) : w[j] = IF j <= Len(b) THEN b[j] ELSE u[j - Len(b)]
  BY JoinFacts
<1>3. /\ c \in Seq(Piece) /\ Len(c) = Len(b) - i + 1
      /\ \A j \in 1 .. Len(b) - i + 1 : c[j] = b[i + j - 1]
  BY FromFacts
<1> HIDE DEF w, c
<1>4. i \in 1 .. Len(w) + 1  BY <1>1, <1>2
<1>5. /\ From(w, i) \in Seq(Piece) /\ Len(From(w, i)) = Len(w) - i + 1
      /\ \A j \in 1 .. Len(w) - i + 1 : From(w, i)[j] = w[i + j - 1]
  BY <1>2, <1>4, FromFacts
<1>6. /\ c \o u \in Seq(Piece) /\ Len(c \o u) = Len(c) + Len(u)
      /\ \A j \in 1 .. Len(c) + Len(u) : (c \o u)[j] = IF j <= Len(c) THEN c[j] ELSE u[j - Len(c)]
  BY <1>3, JoinFacts
<1>7. Len(w) - i + 1 = Len(c) + Len(u)  BY <1>1, <1>2, <1>3
<1>8. ASSUME NEW j \in 1 .. Len(c) + Len(u) PROVE From(w, i)[j] = (c \o u)[j]
  <2>1. From(w, i)[j] = w[i + j - 1] /\ i + j - 1 \in 1 .. Len(b) + Len(u)
    <3>1. Len(c) = Len(b) - i + 1  BY <1>3
    <3>2. j \in 1 .. Len(w) - i + 1  BY <1>7
    <3>3. From(w, i)[j] = w[i + j - 1]  BY <1>5, <3>2
    <3>4. i + j - 1 \in 1 .. Len(b) + Len(u)  BY <1>1, <3>1
    <3> QED  BY <3>3, <3>4
  <2>2. CASE j <= Len(c)
    <3>1. i + j - 1 <= Len(b) /\ j \in 1 .. Len(b) - i + 1  BY <1>1, <1>3, <2>2
    <3>2. w[i + j - 1] = b[i + j - 1]  BY <1>2, <2>1, <3>1
    <3>3. (c \o u)[j] = c[j]  BY <1>6, <2>2
    <3> QED  BY <1>3, <2>1, <3>1, <3>2, <3>3
  <2>3. CASE ~ (j <= Len(c))
    <3>1. ~ (i + j - 1 <= Len(b)) /\ i + j - 1 - Len(b) = j - Len(c)
      BY <1>1, <1>3, <2>3
    <3>2. w[i + j - 1] = u[i + j - 1 - Len(b)]  BY <1>2, <2>1, <3>1
    <3>3. (c \o u)[j] = u[j - Len(c)]  BY <1>6, <2>3
    <3> QED  BY <2>1, <3>1, <3>2, <3>3
  <2> QED  BY <2>2, <2>3
<1>9. From(w, i) = c \o u  BY <1>5, <1>6, <1>7, <1>8, SameText
<1> QED  BY <1>9 DEF w, c

LEMMA FromEnd ==
  ASSUME NEW b \in Seq(Piece) PROVE From(b, Len(b) + 1) = <<>>
BY SubSeqEmpty, TextFacts DEF From

(* What follows b changes line endings at most in its last piece.          *)
LEMMA EndingJoin ==
  ASSUME NEW b \in Seq(Piece), NEW u \in Seq(Piece), NEW i \in 1 .. Len(b)
  PROVE  /\ EndingLen(b \o u, i) > 0 <=> EndingLen(b, i) > 0
         /\ i < Len(b) => EndingLen(b \o u, i) = EndingLen(b, i)
         /\ EndingLen(b \o u, i) # EndingLen(b, i) =>
              /\ i = Len(b) /\ EndingLen(b \o u, i) = 2 /\ EndingLen(b, i) = 1
              /\ Len(u) > 0 /\ u[1] = "lf"
<1> DEFINE w == b \o u
<1>1. Len(b) \in Nat /\ Len(u) \in Nat  BY TextFacts
<1>2. /\ w \in Seq(Piece) /\ Len(w) = Len(b) + Len(u)
      /\ \A j \in 1 .. Len(b) + Len(u) : w[j] = IF j <= Len(b) THEN b[j] ELSE u[j - Len(b)]
  BY JoinFacts
<1> HIDE DEF w
<1>3. w[i] = b[i]  BY <1>1, <1>2
<1>4. CASE i < Len(b)
  <2>1. w[i + 1] = b[i + 1]  BY <1>1, <1>2, <1>4
  <2> QED  BY <1>1, <1>2, <1>3, <1>4, <2>1 DEF EndingLen, w
<1>5. CASE i = Len(b)
  <2>1. Len(u) > 0 => w[i + 1] = u[1]
    BY <1>1, <1>2, <1>5, i + 1 - Len(b) = 1
  <2>2. EndingLen(b, i) = IF b[i] \in Ending THEN 1 ELSE 0
    BY <1>1, <1>5 DEF EndingLen
  <2>3. EndingLen(w, i) = IF b[i] \notin Ending THEN 0
                          ELSE IF Len(u) > 0 /\ b[i] = "cr" /\ w[i + 1] = "lf"
                                 THEN 2 ELSE 1
    BY <1>1, <1>2, <1>3, <1>5 DEF EndingLen
  <2> QED  BY <1>5, <2>1, <2>2, <2>3 DEF w
<1> QED  BY <1>1, <1>4, <1>5

(* A frame that is complete stays what it is, whatever follows; a line     *)
(* feed that belongs to its last carriage return is no event of its own.   *)
LEMMA FrameKept ==
  ASSUME NEW b \in Seq(Piece), NEW u \in Seq(Piece), NEW k, FrameAt(b, k)
  PROVE  Events[b \o u] = Yielded(Drain(b).frame) \o Events[Drain(b).rest \o u]
<1> SUFFICES Events[b \o u] =
               Yielded(SubSeq(b, 1, k - 1)) \o Events[From(b, After(b, k)) \o u]
  BY DrainFacts
<1> DEFINE w == b \o u
           e == EndingLen(b, k)
           f == EndingLen(b, k + e)
<1>1. /\ Len(b) \in Nat /\ Len(u) \in Nat /\ k \in 1 .. Len(b) /\ e > 0 /\ f > 0
  BY TextFacts DEF FrameAt, EndsAt
<1>2. w \in Seq(Piece) /\ Len(w) = Len(b) + Len(u)  BY JoinFacts
<1>3. e \in 1 .. 2  BY <1>1, EndingFacts
<1>4. k + e \in 1 .. Len(b) /\ f \in 1 .. 2
  BY <1>1, <1>3, EndingFacts, k + e \in Nat \ {0}
<1>5. EndingLen(w, k) = e  BY <1>1, <1>3, <1>4, EndingJoin
<1>6. /\ EndingLen(w, k + e) > 0
      /\ EndingLen(w, k + e) # f =>
           /\ k + e = Len(b) /\ EndingLen(w, k + e) = 2 /\ f = 1
           /\ Len(u) > 0 /\ u[1] = "lf"
  BY <1>1, <1>4, EndingJoin
<1> HIDE DEF w
<1>7. FrameAt(w, k)
  <2>1. k \in 1 .. Len(w) /\ EndsAt(w, k)  BY <1>1, <1>2, <1>3, <1>5, <1>6 DEF EndsAt
  <2>2. ASSUME NEW j \in 1 .. k - 1, EndsAt(w, j) PROVE FALSE
    <3>1. j \in 1 .. Len(b) /\ j < Len(b)  BY <1>1
    <3>2. EndingLen(w, j) = EndingLen(b, j)  BY <3>1, EndingJoin DEF w
    <3>3. EndingLen(b, j) \in 0 .. 2  BY <3>1, EndingFacts
    <3>4. j + EndingLen(b, j) \in 1 .. Len(b)  BY <1>1, <1>3, <1>4, <3>1, <3>3
    <3>5. EndingLen(b, j) > 0 /\ EndingLen(b, j + EndingLen(b, j)) > 0
      BY <2>2, <3>2, <3>4, EndingJoin DEF EndsAt, w
    <3>6. EndsAt(b, j)  BY <3>5 DEF EndsAt
    <3> QED  BY <3>6 DEF FrameAt
  <2> QED  BY <2>1, <2>2 DEF FrameAt
<1>8. Events[w] = Yielded(SubSeq(w, 1, k - 1)) \o Events[From(w, After(w, k))]
  BY <1>2, <1>7, EventsFrame
<1>9. SubSeq(w, 1, k - 1) = SubSeq(b, 1, k - 1)
  <2>1. /\ SubSeq(b, 1, k - 1) \in Seq(Piece) /\ Len(SubSeq(b, 1, k - 1)) = k - 1
        /\ \A j \in 1 .. k - 1 : SubSeq(b, 1, k - 1)[j] = b[j]
    BY <1>1, BeforeFacts
  <2>2. /\ SubSeq(w, 1, k - 1) \in Seq(Piece) /\ Len(SubSeq(w, 1, k - 1)) = k - 1
        /\ \A j \in 1 .. k - 1 : SubSeq(w, 1, k - 1)[j] = w[j]
    BY <1>1, <1>2, BeforeFacts
  <2>3. \A j \in 1 .. k - 1 : w[j] = b[j]  BY <1>1, JoinFacts DEF w
  <2> QED  BY <2>1, <2>2, <2>3, SameText
<1>10. After(b, k) = k + e + f /\ After(w, k) = k + e + EndingLen(w, k + e)
  BY <1>5 DEF After
<1>11. After(b, k) \in 1 .. Len(b) + 1  BY <1>1, AfterFacts
<1>12. CASE EndingLen(w, k + e) = f
  <2>1. PICK a \in 1 .. Len(b) + 1 : a = After(b, k) /\ a = After(w, k)
    BY <1>10, <1>11, <1>12
  <2>2. From(w, a) = From(b, a) \o u  BY FromJoin DEF w
  <2> QED  BY <1>8, <1>9, <2>1, <2>2 DEF w
<1>13. CASE EndingLen(w, k + e) # f
  <2>1. After(b, k) = Len(b) + 1 /\ After(w, k) = Len(b) + 2 /\ Len(u) > 0 /\ u[1] = "lf"
    BY <1>1, <1>4, <1>6, <1>10, <1>13
  <2>2. From(b, After(b, k)) \o u = u
    BY <2>1, FromEnd, JoinEmpty
  <2>3. From(w, Len(b) + 1) = u
    <3>1. PICK n \in 1 .. Len(b) + 1 : n = Len(b) + 1  BY <1>1
    <3>2. From(w, n) = From(b, n) \o u  BY FromJoin DEF w
    <3>3. From(b, n) = <<>>  BY <3>1, FromEnd
    <3> QED  BY <3>1, <3>2, <3>3, JoinEmpty
  <2>4. From(w, Len(b) + 2) = From(u, 2)
    BY <1>1, <1>2, <2>1, <2>3, FromFrom, Len(b) + 1 \in 1 .. Len(w) + 1,
       2 \in 1 .. Len(w) - (Len(b) + 1) + 2, Len(b) + 1 + 2 - 1 = Len(b) + 2
  <2>5. Events[u] = Events[From(u, 2)]  BY <2>1, SkipEnding DEF Ending
  <2> QED  BY <1>8, <1>9, <2>1, <2>2, <2>4, <2>5 DEF w
<1> QED  BY <1>12, <1>13
-------------------------------------------------------------------------------
LEMMA StyleFacts ==
  ASSUME NEW e \in Style
  PROVE  /\ e \in Seq(Piece)
         /\ \/ Len(e) = 1 /\ e[1] \in Ending
            \/ Len(e) = 2 /\ e[1] = "cr" /\ e[2] = "lf"
<1>1. "cr" \in Piece /\ "lf" \in Piece  BY DEF Piece, Ending
<1>2. CASE e = <<"cr">>  BY <1>1, <1>2 DEF Ending
<1>3. CASE e = <<"lf">>  BY <1>1, <1>3 DEF Ending
<1>4. CASE e = <<"cr", "lf">>  BY <1>1, <1>4
<1> QED  BY <1>2, <1>3, <1>4 DEF Style

(* An empty line more is no event.                                         *)
LEMMA SkipStyle ==
  ASSUME NEW e \in Style, NEW s \in Seq(Piece)
  PROVE  Events[e \o s] = Events[s]
<1> DEFINE w == e \o s
<1>1. /\ e \in Seq(Piece) /\ Len(e) \in 1 .. 2
      /\ \A i \in 1 .. Len(e) : e[i] \in Ending
  BY StyleFacts DEF Ending
<1>2. /\ w \in Seq(Piece) /\ Len(w) = Len(e) + Len(s) /\ Len(s) \in Nat
      /\ \A i \in 1 .. Len(e) : w[i] = e[i]
  BY <1>1, JoinFacts, TextFacts
<1>3. From(w, Len(e) + 1) = s
  <2>1. PICK n \in 1 .. Len(e) + 1 : n = Len(e) + 1  BY <1>1
  <2>2. From(w, n) = From(e, n) \o s  BY <1>1, FromJoin
  <2>3. From(e, n) = <<>>  BY <1>1, <2>1, FromEnd
  <2> QED  BY <2>1, <2>2, <2>3, JoinEmpty
<1> HIDE DEF w
<1>4. Events[w] = Events[From(w, 2)]
  BY <1>1, <1>2, SkipEnding, 1 \in 1 .. Len(e)
<1>5. CASE Len(e) = 1  BY <1>3, <1>4, <1>5 DEF w
<1>6. CASE Len(e) = 2
  <2> DEFINE c == From(w, 2)
  <2>1. 2 \in 1 .. Len(w) + 1 /\ 1 \in 1 .. Len(w) - 2 + 1 /\ 2 \in 1 .. Len(w) - 2 + 2
    BY <1>2, <1>6
  <2>2. c \in Seq(Piece) /\ Len(c) = Len(w) - 2 + 1 /\ c[1] = w[2 + 1 - 1]
    BY <1>2, <2>1, FromFacts
  <2>3. From(c, 2) = From(w, 2 + 2 - 1)  BY <1>2, <2>1, FromFrom
  <2> HIDE DEF c
  <2>4. Len(c) > 0 /\ c[1] \in Ending
    BY <1>1, <1>2, <1>6, <2>2, 2 \in 1 .. Len(e), 2 + 1 - 1 = 2
  <2>5. Events[c] = Events[From(c, 2)]  BY <2>2, <2>4, SkipEnding
  <2>6. From(c, 2) = s  BY <1>3, <1>6, <2>3, 2 + 2 - 1 = Len(e) + 1
  <2> QED  BY <1>4, <2>5, <2>6 DEF c, w
<1> QED  BY <1>1, <1>5, <1>6

(* The text of lines that no blank line has followed yet.                  *)
Block(t, open, e) ==
  /\ t \in Seq(Piece) /\ open \in Seq(Piece)
  /\ \A i \in 1 .. Len(t) : ~ EndsAt(t, i)
  /\ t # <<>> => /\ Len(t) > Len(e)
                 /\ t[Len(t) - Len(e)] \notin Ending
                 /\ \A i \in 1 .. Len(e) : t[Len(t) - Len(e) + i] = e[i]
  /\ \A p \in Piece \ Ending :
       (\E i \in 1 .. Len(t) : t[i] = p) <=> (\E i \in 1 .. Len(open) : open[i] = p)

LEMMA BlockLine ==
  ASSUME NEW e \in Style, NEW t, NEW open, Block(t, open, e), NEW x \in Piece \ Ending
  PROVE  Block(t \o (<<x>> \o e), Append(open, x), e)
<1> DEFINE l == <<x>> \o e
           w == t \o l
           o == Append(open, x)
<1>1. /\ e \in Seq(Piece)
      /\ \/ Len(e) = 1 /\ e[1] \in Ending
         \/ Len(e) = 2 /\ e[1] = "cr" /\ e[2] = "lf"
  BY StyleFacts
<1>2. t \in Seq(Piece) /\ Len(t) \in Nat /\ open \in Seq(Piece) /\ Len(open) \in Nat
  BY TextFacts DEF Block
<1>3. <<x>> \in Seq(Piece) /\ Len(<<x>>) = 1 /\ <<x>>[1] = x  OBVIOUS
<1>4. /\ l \in Seq(Piece) /\ Len(l) = 1 + Len(e) /\ l[1] = x
      /\ \A i \in 1 .. Len(e) : l[1 + i] = e[i]
  <2>1. /\ l \in Seq(Piece) /\ Len(l) = 1 + Len(e)
        /\ \A i \in 1 .. 1 + Len(e) : l[i] = IF i <= 1 THEN <<x>>[i] ELSE e[i - 1]
    BY <1>1, <1>3, JoinFacts
  <2> HIDE DEF l
  <2>2. l[1] = x  BY <1>1, <1>3, <2>1
  <2>3. ASSUME NEW i \in 1 .. Len(e) PROVE l[1 + i] = e[i]
    BY <1>1, <2>1, 1 + i \in 1 .. 1 + Len(e), ~ (1 + i <= 1), 1 + i - 1 = i
  <2> QED  BY <2>1, <2>2, <2>3
<1> HIDE DEF l
<1>5. /\ w \in Seq(Piece) /\ Len(w) = Len(t) + 1 + Len(e)
      /\ \A i \in 1 .. Len(t) : w[i] = t[i]
      /\ \A i \in 1 .. 1 + Len(e) : w[Len(t) + i] = l[i]
  <2>1. /\ w \in Seq(Piece) /\ Len(w) = Len(t) + Len(l)
        /\ \A i \in 1 .. Len(t) + Len(l) : w[i] = IF i <= Len(t) THEN t[i] ELSE l[i - Len(t)]
    BY <1>2, <1>4, JoinFacts
  <2> HIDE DEF w
  <2>2. ASSUME NEW i \in 1 .. 1 + Len(e) PROVE w[Len(t) + i] = l[i]
    <3>1. /\ Len(t) + i \in 1 .. Len(t) + Len(l) /\ ~ (Len(t) + i <= Len(t))
          /\ Len(t) + i - Len(t) = i
      BY <1>1, <1>2, <1>4
    <3> QED  BY <2>1, <3>1
  <2> QED  BY <1>1, <1>2, <1>4, <2>1, <2>2
<1>6. \A i \in 1 .. Len(t) : EndingLen(w, i) = EndingLen(t, i)
  <2>1. l[1] # "lf"  BY <1>4 DEF Ending
  <2> QED  BY <1>2, <1>4, <2>1, EndingJoin
<1> HIDE DEF w
<1>7. w[Len(t) + 1] = x  BY <1>1, <1>4, <1>5, 1 \in 1 .. 1 + Len(e)
<1>8. \A i \in 1 .. Len(e) : w[Len(t) + 1 + i] = e[i]
  <2> TAKE i \in 1 .. Len(e)
  <2>1. 1 + i \in 1 .. 1 + Len(e) /\ Len(t) + (1 + i) = Len(t) + 1 + i  BY <1>1, <1>2
  <2> QED  BY <1>4, <1>5, <2>1
<1>9. EndingLen(w, Len(t) + 1) = 0
  <2>1. PICK j \in Nat \ {0} : j = Len(t) + 1  BY <1>2
  <2>2. EndingLen(w, j) \in 0 .. 2 /\ (EndingLen(w, j) > 0 => w[j] \in Ending)
    BY <1>5, EndingFacts
  <2> QED  BY <1>7, <2>1, <2>2
<1>10. ASSUME NEW i \in 1 .. Len(w), EndsAt(w, i) PROVE FALSE
  <2> DEFINE j == i + EndingLen(w, i)
  <2>1. /\ EndingLen(w, i) \in 0 .. 2 /\ EndingLen(w, i) > 0
        /\ EndingLen(w, j) > 0
        /\ i + EndingLen(w, i) <= Len(w) + 1
    BY <1>5, <1>10, EndingFacts DEF EndsAt
  <2>2. j \in Nat \ {0} /\ j <= Len(w) /\ i \in Nat /\ i < j
    BY <1>5, <2>1, EndingFacts, j \in Nat \ {0}
  <2>3. CASE i <= Len(t)
    <3>1. i \in 1 .. Len(t) /\ EndingLen(t, i) = EndingLen(w, i)
      BY <1>2, <1>6, <2>3
    <3>2. j <= Len(t) + 1  BY <1>2, <3>1, EndingFacts
    <3>3. j # Len(t) + 1  BY <1>9, <2>1
    <3>4. j \in 1 .. Len(t)  BY <1>2, <2>2, <3>2, <3>3
    <3>5. EndingLen(t, j) > 0  BY <1>6, <2>1, <3>4
    <3>6. EndsAt(t, i)  BY <2>1, <3>1, <3>5 DEF EndsAt
    <3> QED  BY <3>1, <3>6 DEF Block
  <2>4. i # Len(t) + 1  BY <1>9, <2>1
  <2>5. CASE i > Len(t) + 1 /\ Len(e) = 1
    BY <1>2, <1>5, <2>2, <2>5
  <2>6. CASE i > Len(t) + 1 /\ Len(e) = 2
    <3>1. i = Len(t) + 2 /\ j = Len(t) + 3
      BY <1>2, <1>5, <2>2, <2>6
    <3>2. w[i] = "cr" /\ w[i + 1] = "lf" /\ i < Len(w)
      <4>1. w[Len(t) + 1 + 1] = e[1] /\ w[Len(t) + 1 + 2] = e[2]
        BY <1>8, <2>6, 1 \in 1 .. Len(e), 2 \in 1 .. Len(e)
      <4>2. i = Len(t) + 1 + 1 /\ i + 1 = Len(t) + 1 + 2 /\ i < Len(w)
        BY <1>2, <1>5, <2>6, <3>1
      <4> QED  BY <1>1, <2>6, <4>1, <4>2
    <3>3. EndingLen(w, i) = 2  BY <1>5, <2>2, <3>2, EndingFacts, i \in Nat \ {0}
    <3> QED  BY <1>2, <3>1, <3>3
  <2> QED  BY <1>1, <1>2, <2>2, <2>3, <2>4, <2>5, <2>6
<1>11. o \in Seq(Piece) /\ Len(o) = Len(open) + 1 /\ o[Len(open) + 1] = x
       /\ \A i \in 1 .. Len(open) : o[i] = open[i]
  BY <1>2
<1> HIDE DEF o
<1>12. ASSUME NEW p \in Piece \ Ending
       PROVE  (\E i \in 1 .. Len(w) : w[i] = p) <=> (\E i \in 1 .. Len(o) : o[i] = p)
  <2>1. ASSUME NEW i \in 1 .. Len(w), w[i] = p PROVE \E j \in 1 .. Len(o) : o[j] = p
    <3>1. CASE i <= Len(t)
      <4>1. i \in 1 .. Len(t) /\ t[i] = p  BY <1>2, <1>5, <2>1, <3>1
      <4>2. PICK j \in 1 .. Len(open) : open[j] = p  BY <4>1 DEF Block
      <4> QED  BY <1>2, <1>11, <4>2, j \in 1 .. Len(o)
    <3>2. CASE i = Len(t) + 1
      BY <1>2, <1>7, <1>11, <2>1, <3>2, Len(open) + 1 \in 1 .. Len(o)
    <3>3. CASE i > Len(t) + 1
      <4>1. PICK j \in 1 .. Len(e) : i = Len(t) + 1 + j
        BY <1>1, <1>2, <1>5, <3>3, i - Len(t) - 1 \in 1 .. Len(e),
           i = Len(t) + 1 + (i - Len(t) - 1)
      <4>2. e[j] \in Ending  BY <1>1 DEF Ending
      <4> QED  BY <1>8, <2>1, <4>1, <4>2
    <3> QED  BY <1>2, <3>1, <3>2, <3>3
  <2>2. ASSUME NEW i \in 1 .. Len(o), o[i] = p PROVE \E j \in 1 .. Len(w) : w[j] = p
    <3>1. CASE i = Len(open) + 1
      BY <1>1, <1>2, <1>5, <1>7, <1>11, <2>2, <3>1, Len(t) + 1 \in 1 .. Len(w)
    <3>2. CASE i # Len(open) + 1
      <4>1. i \in 1 .. Len(open) /\ open[i] = p  BY <1>2, <1>11, <2>2, <3>2
      <4>2. PICK j \in 1 .. Len(t) : t[j] = p  BY <4>1 DEF Block
      <4> QED  BY <1>1, <1>2, <1>5, <4>2, j \in 1 .. Len(w)
    <3> QED  BY <3>1, <3>2
  <2> QED  BY <2>1, <2>2
<1>13. /\ Len(w) > Len(e) /\ w[Len(w) - Len(e)] \notin Ending
       /\ \A i \in 1 .. Len(e) : w[Len(w) - Len(e) + i] = e[i]
  BY <1>1, <1>2, <1>5, <1>7, <1>8, Len(w) - Len(e) = Len(t) + 1
<1> QED  BY <1>5, <1>10, <1>11, <1>12, <1>13 DEF Block, w, l, o

LEMMA BlockBlank ==
  ASSUME NEW e \in Style, NEW t, NEW open, Block(t, open, e), NEW s \in Seq(Piece)
  PROVE  Events[t \o (e \o s)] = Yielded(open) \o Events[s]
<1>1. /\ e \in Seq(Piece)
      /\ \/ Len(e) = 1 /\ e[1] \in Ending
         \/ Len(e) = 2 /\ e[1] = "cr" /\ e[2] = "lf"
  BY StyleFacts
<1>2. t \in Seq(Piece) /\ Len(t) \in Nat /\ open \in Seq(Piece)
  BY TextFacts DEF Block
<1>3. Events[s] \in Seq(WorkerEvent)  BY EventsType
<1>4. e \o s \in Seq(Piece)  BY <1>1, JoinFacts
<1>5. CASE t = <<>>
  <2>1. t \o (e \o s) = e \o s  BY <1>4, <1>5, JoinEmpty
  <2>2. Yielded(open) = Yielded(t)
    BY <1>2, EventOfSame DEF Block
  <2>3. Yielded(<<>>) = <<>>  BY DEF Yielded, EventOf
  <2> QED  BY <1>3, <1>5, <2>1, <2>2, <2>3, SkipStyle, JoinEmpty
<1>6. CASE t # <<>>
  <2> DEFINE w == t \o e
             k == Len(t) - Len(e) + 1
  <2>1. /\ w \in Seq(Piece) /\ Len(w) = Len(t) + Len(e)
        /\ \A i \in 1 .. Len(t) : w[i] = t[i]
        /\ \A i \in 1 .. Len(e) : w[Len(t) + i] = e[i]
    <3>1. /\ w \in Seq(Piece) /\ Len(w) = Len(t) + Len(e)
          /\ \A i \in 1 .. Len(t) + Len(e) : w[i] = IF i <= Len(t) THEN t[i] ELSE e[i - Len(t)]
      BY <1>1, <1>2, JoinFacts
    <3> HIDE DEF w
    <3>2. ASSUME NEW i \in 1 .. Len(e) PROVE w[Len(t) + i] = e[i]
      <4>1. /\ Len(t) + i \in 1 .. Len(t) + Len(e) /\ ~ (Len(t) + i <= Len(t))
            /\ Len(t) + i - Len(t) = i
        BY <1>1, <1>2
      <4> QED  BY <3>1, <4>1
    <3> QED  BY <1>1, <1>2, <3>1, <3>2
  <2>2. /\ Len(t) > Len(e) /\ t[Len(t) - Len(e)] \notin Ending
        /\ \A i \in 1 .. Len(e) : t[Len(t) - Len(e) + i] = e[i]
    BY <1>6 DEF Block
  <2>3. /\ k \in 2 .. Len(t) /\ k + Len(e) = Len(t) + 1 /\ k - 1 = Len(t) - Len(e)
    BY <1>1, <1>2, <2>2
  <2>4. ASSUME NEW i \in 1 .. Len(t) PROVE EndingLen(w, i) > 0 <=> EndingLen(t, i) > 0
    BY <1>1, <1>2, EndingJoin
  <2>5. \A i \in 1 .. Len(t) : i < Len(t) => EndingLen(w, i) = EndingLen(t, i)
    BY <1>1, <1>2, EndingJoin
  <2> HIDE DEF w, k
  <2>6. EndingLen(w, k) = Len(e) /\ EndingLen(w, k + Len(e)) = Len(e)
    <3>1. w[Len(t) + 1] = e[1] /\ w[k] = e[1]
      <4>1. 1 \in 1 .. Len(e) /\ k \in 1 .. Len(t) /\ Len(t) - Len(e) + 1 = k
        BY <1>1, <2>3 DEF k
      <4> QED  BY <2>1, <2>2, <4>1
    <3>2. CASE Len(e) = 1
      <4>1. k = Len(t) /\ Len(w) = Len(t) + 1  BY <1>2, <2>1, <2>3, <3>2
      <4>2. EndingLen(w, k) = 1
        <5>1. w[k + 1] = w[k] /\ w[k] \in Ending /\ k \in 1 .. Len(w) /\ k \in Nat \ {0}
          BY <1>1, <1>2, <2>3, <3>1, <3>2, <4>1
        <5>2. EndingLen(w, k) # 2 /\ EndingLen(w, k) > 0 /\ EndingLen(w, k) \in 0 .. 2
          BY <2>1, <5>1, EndingFacts
        <5> QED  BY <5>2
      <4>3. EndingLen(w, Len(t) + 1) = 1
        BY <1>1, <1>2, <2>1, <3>1, <3>2, <4>1 DEF EndingLen
      <4> QED  BY <2>3, <3>2, <4>2, <4>3
    <3>3. CASE Len(e) = 2
      <4>1. 2 \in 1 .. Len(e) /\ k + 1 \in 1 .. Len(t) /\ Len(t) - Len(e) + 2 = k + 1
        BY <1>2, <2>3, <3>3
      <4>2. w[k + 1] = "lf" /\ w[Len(t) + 2] = "lf"
        BY <1>1, <2>1, <2>2, <3>3, <4>1
      <4>3. w[k] = "cr" /\ w[Len(t) + 1] = "cr"  BY <1>1, <3>1, <3>3
      <4>4. k < Len(w) /\ Len(t) + 1 < Len(w) /\ k \in Nat \ {0} /\ Len(t) + 1 \in Nat \ {0}
        BY <1>2, <2>1, <2>3, <3>3
      <4>5. EndingLen(w, k) = 2  BY <2>1, <4>2, <4>3, <4>4, EndingFacts
      <4>6. EndingLen(w, Len(t) + 1) = 2
        BY <2>1, <4>2, <4>3, <4>4, EndingFacts, Len(t) + 1 + 1 = Len(t) + 2
      <4> QED  BY <2>3, <3>3, <4>5, <4>6
    <3> QED  BY <1>1, <3>2, <3>3
  <2>7. FrameAt(w, k)
    <3>1. k \in 1 .. Len(w) /\ EndsAt(w, k)
      BY <1>1, <1>2, <2>1, <2>3, <2>6 DEF EndsAt
    <3>2. ASSUME NEW j \in 1 .. k - 1, EndsAt(w, j) PROVE FALSE
      <4>1. j \in 1 .. Len(t) /\ j < Len(t)  BY <1>2, <2>3
      <4>2. EndingLen(w, j) = EndingLen(t, j) /\ EndingLen(t, j) \in 0 .. 2
        BY <1>2, <2>5, <4>1, EndingFacts
      <4>3. j # k - 1
        <5>1. EndingLen(t, j) > 0 /\ t[j] \in Ending
          BY <1>2, <3>2, <4>1, <4>2, EndingFacts DEF EndsAt
        <5> QED  BY <2>2, <2>3, <5>1
      <4>4. j + EndingLen(t, j) \in 1 .. Len(t)  BY <1>2, <2>3, <4>1, <4>2, <4>3
      <4>5. EndsAt(t, j)  BY <2>4, <3>2, <4>2, <4>4 DEF EndsAt
      <4> QED  BY <4>1, <4>5 DEF Block
    <3> QED  BY <3>1, <3>2 DEF FrameAt
  <2>8. After(w, k) = Len(w) + 1
    <3>1. After(w, k) = k + Len(e) + Len(e)  BY <2>6 DEF After
    <3>2. Len(e) \in Nat  BY <1>1
    <3>3. PICK n \in Nat, m \in Nat : n = Len(e) /\ m = Len(t)  BY <1>2, <3>2
    <3>4. k \in Nat /\ k + n = m + 1 /\ Len(w) = m + n /\ After(w, k) = k + n + n
      BY <2>1, <2>3, <3>1, <3>3
    <3> QED  BY <3>4
  <2>9. Events[w \o s] = Yielded(SubSeq(w, 1, k - 1)) \o Events[From(w, Len(w) + 1) \o s]
    <3>1. Events[w \o s] = Yielded(Drain(w).frame) \o Events[Drain(w).rest \o s]
      BY <2>1, <2>7, FrameKept
    <3>2. Drain(w).frame = SubSeq(w, 1, k - 1) /\ Drain(w).rest = From(w, After(w, k))
      BY <2>1, <2>7, DrainFacts
    <3> QED  BY <2>8, <3>1, <3>2
  <2>10. From(w, Len(w) + 1) \o s = s  BY <2>1, FromEnd, JoinEmpty
  <2>11. w \o s = t \o (e \o s)  BY <1>1, <1>2, JoinAssociative DEF w
  <2>12. Yielded(SubSeq(w, 1, k - 1)) = Yielded(open)
    <3> DEFINE f == SubSeq(w, 1, k - 1)
    <3>1. f \in Seq(Piece) /\ Len(f) = k - 1 /\ \A j \in 1 .. k - 1 : f[j] = t[j]
      BY <1>1, <1>2, <2>1, <2>3, BeforeFacts
    <3> HIDE DEF f
    <3>2. ASSUME NEW p \in Piece \ Ending
          PROVE  (\E i \in 1 .. Len(f) : f[i] = p) <=> (\E i \in 1 .. Len(open) : open[i] = p)
      <4>1. ASSUME NEW i \in 1 .. Len(t), t[i] = p PROVE \E j \in 1 .. Len(f) : f[j] = p
        <5>1. CASE i <= k - 1  BY <2>3, <3>1, <4>1, <5>1, i \in 1 .. k - 1
        <5>2. CASE i > k - 1
          <6>1. PICK j \in 1 .. Len(e) : i = Len(t) - Len(e) + j
            BY <1>1, <1>2, <2>3, <5>2, i - (Len(t) - Len(e)) \in 1 .. Len(e),
               i = Len(t) - Len(e) + (i - (Len(t) - Len(e)))
          <6>2. e[j] \in Ending  BY <1>1 DEF Ending
          <6> QED  BY <2>2, <4>1, <6>1, <6>2
        <5> QED  BY <1>2, <2>3, <5>1, <5>2
      <4>2. (\E i \in 1 .. Len(f) : f[i] = p) => \E i \in 1 .. Len(t) : t[i] = p
        <5> SUFFICES ASSUME NEW i \in 1 .. Len(f), f[i] = p
                     PROVE  \E j \in 1 .. Len(t) : t[j] = p
          OBVIOUS
        <5>1. i \in 1 .. k - 1 /\ i \in 1 .. Len(t)  BY <1>2, <2>3, <3>1
        <5> QED  BY <3>1, <5>1
      <4>3. (\E i \in 1 .. Len(t) : t[i] = p) <=> (\E i \in 1 .. Len(open) : open[i] = p)
        BY DEF Block
      <4> QED  BY <4>1, <4>2, <4>3
    <3>3. Yielded(f) = Yielded(open)  BY <1>2, <3>1, <3>2, EventOfSame
    <3> QED  BY <3>3 DEF f
  <2> QED  BY <2>9, <2>10, <2>11, <2>12
<1> QED  BY <1>5, <1>6
-------------------------------------------------------------------------------
(* A function defined by primitive recursion up to N exists.               *)
Recursive(f, D, b, N, G) ==
  /\ f \in [0 .. N -> D]
  /\ f[0] = b
  /\ \A k \in 1 .. N : f[k] = G[k][f[k - 1]]

LEMMA RecursionExists ==
  ASSUME NEW D, NEW b \in D, NEW N \in Nat, NEW G \in [1 .. N -> [D -> D]]
  PROVE  \E f : Recursive(f, D, b, N, G)
<1> DEFINE T == {m \in 0 .. N : \E f : Recursive(f, D, b, m, G)}
<1>1. 0 \in T
  <2> DEFINE g == [k \in 0 .. 0 |-> b]
  <2>1. g \in [0 .. 0 -> D] /\ g[0] = b /\ \A k \in 1 .. 0 : g[k] = G[k][g[k - 1]]
    OBVIOUS
  <2>2. Recursive(g, D, b, 0, G)  BY <2>1 DEF Recursive
  <2> QED  BY <2>2
<1>2. ASSUME NEW m \in 1 .. N, m - 1 \in T PROVE m \in T
  <2>1. PICK f : Recursive(f, D, b, m - 1, G)  BY <1>2
  <2>2. /\ f \in [0 .. m - 1 -> D]
        /\ f[0] = b /\ \A k \in 1 .. m - 1 : f[k] = G[k][f[k - 1]]
    BY <2>1 DEF Recursive
  <2> DEFINE g == [k \in 0 .. m |-> IF k = m THEN G[m][f[m - 1]] ELSE f[k]]
  <2>3. g \in [0 .. m -> D]  BY <2>2
  <2>4. g[0] = b  BY <2>2
  <2>5. ASSUME NEW k \in 1 .. m PROVE g[k] = G[k][g[k - 1]]
    <3>1. g[k - 1] = f[k - 1]  OBVIOUS
    <3>2. CASE k = m  BY <3>1, <3>2
    <3>3. CASE k # m  BY <2>2, <3>1, <3>3
    <3> QED  BY <3>2, <3>3
  <2> HIDE DEF g
  <2>6. Recursive(g, D, b, m, G)  BY <2>3, <2>4, <2>5 DEF Recursive
  <2> QED  BY <2>6
<1> HIDE DEF T
<1>3. 0 .. N \subseteq T  BY <1>1, <1>2, BoundedInduction
<1>4. N \in T  BY <1>3
<1> QED  BY <1>4 DEF T

(* What has been written up to some line.                                  *)
Wrote == [text : Seq(Piece), open : Seq(Piece), events : Seq(WorkerEvent)]
Blank == [text |-> <<>>, open |-> <<>>, events |-> <<>>]

(* Whatever follows, the text yields the events written and then those of  *)
(* the lines that are open, with what follows.                             *)
Faithful(w, t, e) ==
  /\ w \in Wrote
  /\ Block(t, w.open, e)
  /\ \A u \in Seq(Piece) : Events[w.text \o u] = w.events \o Events[t \o u]

LEMMA WriteLineType ==
  ASSUME NEW e \in Style, NEW w \in Wrote, NEW x \in Line
  PROVE  WriteLine(w, x, e) \in Wrote
<1>1. e \in Seq(Piece)  BY StyleFacts
<1>2. w.text \in Seq(Piece) /\ w.open \in Seq(Piece) /\ w.events \in Seq(WorkerEvent)
  BY DEF Wrote
<1>3. CASE x = "blank"
  <2>1. WriteLine(w, x, e) = [text |-> w.text \o e, open |-> <<>>,
                              events |-> w.events \o Yielded(w.open)]
    BY <1>3 DEF WriteLine
  <2>2. w.text \o e \in Seq(Piece)  BY <1>1, <1>2, JoinFacts
  <2>3. w.events \o Yielded(w.open) \in Seq(WorkerEvent)
    BY <1>2, YieldedType, ConcatProperties
  <2> QED  BY <2>1, <2>2, <2>3, EmptySeq DEF Wrote
<1>4. CASE x # "blank"
  <2>1. WriteLine(w, x, e) = [text |-> w.text \o (<<x>> \o e), open |-> Append(w.open, x),
                              events |-> w.events]
    BY <1>4 DEF WriteLine
  <2>2. x \in Piece  BY <1>4 DEF Line
  <2>3. <<x>> \o e \in Seq(Piece)  BY <1>1, <2>2, JoinFacts, <<x>> \in Seq(Piece)
  <2>4. w.text \o (<<x>> \o e) \in Seq(Piece)  BY <1>2, <2>3, JoinFacts
  <2>5. Append(w.open, x) \in Seq(Piece)  BY <1>2, <2>2
  <2> QED  BY <1>2, <2>1, <2>4, <2>5 DEF Wrote
<1> QED  BY <1>3, <1>4

LEMMA EmptyBlock == ASSUME NEW e PROVE Block(<<>>, <<>>, e)
BY EmptySeq DEF Block

LEMMA WriteLineFaithful ==
  ASSUME NEW e \in Style, NEW w, NEW t, Faithful(w, t, e), NEW x \in Line
  PROVE  \E t2 : Faithful(WriteLine(w, x, e), t2, e) /\ (x = "blank" => t2 = <<>>)
<1> DEFINE v == WriteLine(w, x, e)
<1>1. e \in Seq(Piece) /\ t \in Seq(Piece)  BY StyleFacts DEF Faithful, Block
<1>2. /\ w.text \in Seq(Piece) /\ w.open \in Seq(Piece) /\ w.events \in Seq(WorkerEvent)
      /\ w \in Wrote
  BY DEF Faithful, Wrote
<1>3. v \in Wrote  BY <1>2, WriteLineType
<1>4. CASE x = "blank"
  <2>1. v.text = w.text \o e /\ v.open = <<>> /\ v.events = w.events \o Yielded(w.open)
    BY <1>4 DEF WriteLine
  <2> HIDE DEF v
  <2>2. ASSUME NEW u \in Seq(Piece) PROVE Events[v.text \o u] = v.events \o Events[<<>> \o u]
    <3>1. e \o u \in Seq(Piece)  BY <1>1, JoinFacts
    <3>2. v.text \o u = w.text \o (e \o u)
      <4>1. PICK b \in Seq(Piece), c \in Seq(Piece) : b = w.text /\ c = e  BY <1>1, <1>2
      <4>2. (b \o c) \o u = b \o (c \o u)  BY JoinAssociative
      <4> QED  BY <2>1, <4>1, <4>2
    <3>3. Events[w.text \o (e \o u)] = w.events \o Events[t \o (e \o u)]
      BY <3>1 DEF Faithful
    <3>4. Events[t \o (e \o u)] = Yielded(w.open) \o Events[u]
      <4>1. PICK open : open = w.open /\ Block(t, open, e)  BY DEF Faithful
      <4>2. Events[t \o (e \o u)] = Yielded(open) \o Events[u]  BY <4>1, BlockBlank
      <4> QED  BY <4>1, <4>2
    <3>5. Yielded(w.open) \in Seq(WorkerEvent) /\ Events[u] \in Seq(WorkerEvent)
      BY YieldedType, EventsType
    <3>6. w.events \o (Yielded(w.open) \o Events[u]) = v.events \o Events[u]
      <4>1. PICK x1 \in Seq(WorkerEvent), x2 \in Seq(WorkerEvent), x3 \in Seq(WorkerEvent) :
              x1 = w.events /\ x2 = Yielded(w.open) /\ x3 = Events[u]
        BY <1>2, <3>5
      <4>2. (x1 \o x2) \o x3 = x1 \o (x2 \o x3)  BY JoinAssociative
      <4> QED  BY <2>1, <4>1, <4>2
    <3> QED  BY <3>2, <3>3, <3>4, <3>6, JoinEmpty
  <2>3. Faithful(v, <<>>, e)  BY <1>3, <2>1, <2>2, EmptyBlock DEF Faithful
  <2> QED  BY <2>3 DEF v
<1>5. CASE x # "blank"
  <2> DEFINE l == <<x>> \o e
  <2>1. x \in Piece \ Ending  BY <1>5 DEF Line
  <2>2. l \in Seq(Piece)  BY <1>1, <2>1, JoinFacts, <<x>> \in Seq(Piece)
  <2>3. v.text = w.text \o l /\ v.open = Append(w.open, x) /\ v.events = w.events
    BY <1>5 DEF WriteLine
  <2>4. Block(t \o l, v.open, e)  BY <2>1, <2>3, BlockLine DEF Faithful
  <2> HIDE DEF v, l
  <2>5. ASSUME NEW u \in Seq(Piece) PROVE Events[v.text \o u] = v.events \o Events[(t \o l) \o u]
    <3>1. l \o u \in Seq(Piece)  BY <2>2, JoinFacts
    <3>2. v.text \o u = w.text \o (l \o u)
      <4>1. PICK b \in Seq(Piece) : b = w.text  BY <1>2
      <4>2. (b \o l) \o u = b \o (l \o u)  BY <2>2, JoinAssociative
      <4> QED  BY <2>3, <4>1, <4>2
    <3>3. (t \o l) \o u = t \o (l \o u)  BY <1>1, <2>2, JoinAssociative
    <3>4. Events[w.text \o (l \o u)] = w.events \o Events[t \o (l \o u)]
      BY <3>1 DEF Faithful
    <3> QED  BY <2>3, <3>2, <3>3, <3>4
  <2>6. Faithful(v, t \o l, e)  BY <1>3, <2>4, <2>5 DEF Faithful
  <2> QED  BY <1>5, <2>6 DEF v
<1> QED  BY <1>4, <1>5

LEMMA BlankFaithful == ASSUME NEW e PROVE Faithful(Blank, <<>>, e)
<1>1. Blank \in Wrote  BY EmptySeq DEF Blank, Wrote
<1>2. ASSUME NEW u \in Seq(Piece) PROVE Events[<<>> \o u] = <<>> \o Events[<<>> \o u]
  <2>1. <<>> \o u = u  BY JoinEmpty
  <2>2. Events[u] \in Seq(WorkerEvent)  BY EventsType
  <2>3. <<>> \o Events[u] = Events[u]  BY <2>2, JoinEmpty
  <2> QED  BY <2>1, <2>3
<1> QED  BY <1>1, <1>2, EmptyBlock DEF Faithful, Blank

(* Written follows its recursion.                                          *)
Writes(f, N, lines, e) ==
  /\ f[0] = Blank
  /\ \A k \in 1 .. N : f[k] = WriteLine(f[k - 1], lines[k], e)

LEMMA WrittenScan ==
  ASSUME NEW a, a.end \in Style, a.lines \in Seq(Line)
  PROVE  \E f : /\ Writes(f, Len(a.lines), a.lines, a.end)
                /\ Written(a) = f[Len(a.lines)]
<1> DEFINE G(N) == [k \in 1 .. N |-> [w \in Wrote |-> WriteLine(w, a.lines[k], a.end)]]
           after[n \in 0 .. Len(a.lines)] ==
             IF n = 0 THEN [text |-> <<>>, open |-> <<>>, events |-> <<>>]
             ELSE WriteLine(after[n - 1], a.lines[n], a.end)
<1>1. PICK N \in Nat : N = Len(a.lines) /\ \A k \in 1 .. N : a.lines[k] \in Line
  BY LenProperties, ElementOfSeq
<1>2. Blank \in Wrote  BY EmptySeq DEF Blank, Wrote
<1>3. G(N) \in [1 .. N -> [Wrote -> Wrote]]  BY <1>1, WriteLineType
<1>4. PICK f : Recursive(f, Wrote, Blank, N, G(N))
  <2> HIDE DEF G, after
  <2> QED  BY <1>1, <1>2, <1>3, RecursionExists
<1>5. /\ f \in [0 .. N -> Wrote] /\ f[0] = Blank
      /\ \A k \in 1 .. N : f[k] = WriteLine(f[k - 1], a.lines[k], a.end)
  <2>1. f \in [0 .. N -> Wrote] /\ f[0] = Blank  BY <1>4 DEF Recursive
  <2>2. ASSUME NEW k \in 1 .. N PROVE f[k] = WriteLine(f[k - 1], a.lines[k], a.end)
    <3>1. f[k] = G(N)[k][f[k - 1]]  BY <1>4 DEF Recursive
    <3>2. f[k - 1] \in Wrote  BY <2>1
    <3> QED  BY <3>1, <3>2
  <2> QED  BY <2>1, <2>2
<1> HIDE DEF G
<1>6. f = [n \in 0 .. N |-> IF n = 0 THEN [text |-> <<>>, open |-> <<>>, events |-> <<>>]
                            ELSE WriteLine(f[n - 1], a.lines[n], a.end)]
  BY <1>5 DEF Blank
<1>7. after = [n \in 0 .. N |-> IF n = 0 THEN [text |-> <<>>, open |-> <<>>, events |-> <<>>]
                                ELSE WriteLine(after[n - 1], a.lines[n], a.end)]
  BY <1>1, <1>6
<1>8. Written(a) = after[N]  BY <1>1 DEF Written
<1> HIDE DEF after
<1>9. after[0] = Blank /\ \A k \in 1 .. N : after[k] = WriteLine(after[k - 1], a.lines[k], a.end)
  BY <1>7 DEF Blank
<1>10. Writes(after, N, a.lines, a.end)  BY <1>9 DEF Writes
<1> QED  BY <1>1, <1>8, <1>10

(* Parsing finds what was written: in an answer as a whole, and when text  *)
(* follows an answer whose frames are complete.                            *)
LEMMA WrittenFaithful ==
  ASSUME NEW a, a.end \in Style, a.lines \in Seq(Line)
  PROVE  /\ Written(a).text \in Seq(Piece)
         /\ Written(a).events \in Seq(WorkerEvent)
         /\ Events[Written(a).text] = Written(a).events
         /\ (a.lines = <<>> \/ a.lines[Len(a.lines)] = "blank") =>
              \A u \in Seq(Piece) :
                Events[Written(a).text \o u] = Written(a).events \o Events[u]
<1>1. PICK f : Writes(f, Len(a.lines), a.lines, a.end) /\ Written(a) = f[Len(a.lines)]
  BY WrittenScan
<1>2. PICK N \in Nat : /\ N = Len(a.lines) /\ \A k \in 1 .. N : a.lines[k] \in Line
                       /\ N = 0 <=> a.lines = <<>>
  BY LenProperties, ElementOfSeq, EmptySeq
<1> DEFINE e == a.end
           Good(n) == \E t : /\ Faithful(f[n], t, e)
                             /\ n = 0 \/ a.lines[n] = "blank" => t = <<>>
           T == {n \in 0 .. N : Good(n)}
<1>3. 0 \in T
  <2>1. f[0] = Blank  BY <1>1 DEF Writes
  <2> QED  BY <2>1, BlankFaithful
<1>4. ASSUME NEW k \in 1 .. N, k - 1 \in T PROVE k \in T
  <2>1. PICK t : Faithful(f[k - 1], t, e)  BY <1>4
  <2>2. f[k] = WriteLine(f[k - 1], a.lines[k], e) /\ a.lines[k] \in Line
    BY <1>1, <1>2 DEF Writes
  <2>3. PICK w, x : w = f[k - 1] /\ x = a.lines[k]  OBVIOUS
  <2>4. PICK t2 : Faithful(WriteLine(w, x, e), t2, e) /\ (x = "blank" => t2 = <<>>)
    BY <2>1, <2>2, <2>3, WriteLineFaithful
  <2>5. k # 0  OBVIOUS
  <2> QED  BY <2>2, <2>3, <2>4, <2>5
<1> HIDE DEF T
<1>5. 0 .. N \subseteq T  BY <1>3, <1>4, BoundedInduction
<1>6. N \in T  BY <1>5
<1>7. PICK t : /\ Faithful(Written(a), t, e)
               /\ (a.lines = <<>> \/ a.lines[Len(a.lines)] = "blank") => t = <<>>
  BY <1>1, <1>2, <1>6 DEF T
<1> DEFINE w == Written(a)
<1>8. w.text \in Seq(Piece) /\ w.events \in Seq(WorkerEvent)
  BY <1>7 DEF Faithful, Wrote
<1> HIDE DEF w, e
<1>9. Events[w.text] = w.events
  <2>1. Events[w.text \o <<>>] = w.events \o Events[t \o <<>>]
    BY <1>7, EmptySeq DEF Faithful, w
  <2>2. t \in Seq(Piece) /\ ~ HasFrame(t)  BY <1>7 DEF Faithful, Block, HasFrame
  <2>3. Events[t] = <<>>  BY <2>2, EventsNone
  <2> QED  BY <1>8, <2>1, <2>2, <2>3, JoinEmpty
<1>10. ASSUME a.lines = <<>> \/ a.lines[Len(a.lines)] = "blank", NEW u \in Seq(Piece)
       PROVE  Events[w.text \o u] = w.events \o Events[u]
  <2>1. t = <<>>  BY <1>7, <1>10
  <2>2. Events[w.text \o u] = w.events \o Events[t \o u]
    BY <1>7 DEF Faithful, w
  <2> QED  BY <2>1, <2>2, JoinEmpty
<1> QED  BY <1>8, <1>9, <1>10 DEF w
-------------------------------------------------------------------------------
(* Every frame of b is complete: what follows is parsed as if it came      *)
(* first.                                                                  *)
Ended(b) ==
  \A u \in Seq(Piece) : Events[b \o u] = Events[b] \o Events[u]

(* What a transport with b in its buffer and u unread still yields is o.   *)
Exact(r, b, u, o) ==
  /\ Events[b \o u] = o
  /\ r \in Endless => Ended(b \o u)

LEMMA TakeExact ==
  ASSUME NEW r \in Req, NEW b \in Seq(Piece), NEW u \in Seq(Piece),
         NEW o \in Seq(WorkerEvent), Exact(r, b, u, o), HasFrame(b)
  PROVE  \E f \in Seq(Piece), c \in Seq(Piece) :
           /\ f = Drain(b).frame /\ c = Drain(b).rest
           /\ o = Yielded(f) \o Events[c \o u]
           /\ r \in Endless => Ended(c \o u)
<1>1. PICK k : FrameAt(b, k)  BY FrameFacts
<1>2. PICK f \in Seq(Piece), c \in Seq(Piece) : f = Drain(b).frame /\ c = Drain(b).rest
  BY <1>1, DrainFacts
<1>3. ASSUME NEW v \in Seq(Piece) PROVE Events[b \o v] = Yielded(f) \o Events[c \o v]
  <2>1. Events[b \o v] = Yielded(Drain(b).frame) \o Events[Drain(b).rest \o v]
    BY <1>1, FrameKept
  <2> QED  BY <1>2, <2>1
<1>4. ASSUME r \in Endless PROVE Ended(c \o u)
  <2> SUFFICES ASSUME NEW x \in Seq(Piece)
               PROVE  Events[(c \o u) \o x] = Events[c \o u] \o Events[x]
    BY DEF Ended
  <2>1. u \o x \in Seq(Piece) /\ c \o u \in Seq(Piece) /\ c \o (u \o x) \in Seq(Piece)
    BY JoinFacts
  <2>2. (b \o u) \o x = b \o (u \o x) /\ (c \o u) \o x = c \o (u \o x)
    BY JoinAssociative
  <2>3. PICK y \in Seq(WorkerEvent), e1 \in Seq(WorkerEvent), e2 \in Seq(WorkerEvent),
             e3 \in Seq(WorkerEvent) :
          /\ y = Yielded(f) /\ e1 = Events[c \o u] /\ e2 = Events[x]
          /\ e3 = Events[c \o (u \o x)]
    BY <2>1, YieldedType, EventsType
  <2>4. Events[(b \o u) \o x] = Events[b \o u] \o Events[x]
    BY <1>4 DEF Exact, Ended
  <2>5. y \o e3 = (y \o e1) \o e2
    <3>1. Events[b \o (u \o x)] = y \o e3  BY <1>3, <2>1, <2>3
    <3>2. Events[b \o u] = y \o e1  BY <1>3, <2>3
    <3> QED  BY <2>2, <2>3, <2>4, <3>1, <3>2
  <2>6. y \o e3 = y \o (e1 \o e2)  BY <2>5, JoinAssociative
  <2>7. e1 \o e2 \in Seq(WorkerEvent)  BY ConcatProperties
  <2>8. e3 = e1 \o e2  BY <2>6, <2>7, JoinCancel
  <2> QED  BY <2>2, <2>3, <2>8
<1> QED  BY <1>2, <1>3, <1>4 DEF Exact

(* The frame that WriteOn writes.                                          *)
TokenFrame == <<"token", "lf", "lf">>

LEMMA TokenFrameFacts ==
  /\ TokenFrame \in Seq(Piece)
  /\ \A u \in Seq(Piece) : Events[TokenFrame \o u] = <<"token">> \o Events[u]
<1> DEFINE T == TokenFrame
<1>1. "token" \in Piece /\ "lf" \in Piece /\ "token" \notin Ending /\ "lf" \in Ending
  BY DEF Piece, Ending
<1>2. T \in Seq(Piece) /\ Len(T) = 3 /\ T[1] = "token" /\ T[2] = "lf" /\ T[3] = "lf"
  BY <1>1 DEF TokenFrame
<1> HIDE DEF T
<1>3. EndingLen(T, 1) = 0 /\ EndingLen(T, 2) = 1 /\ EndingLen(T, 3) = 1
  BY <1>1, <1>2 DEF EndingLen
<1>4. EndsAt(T, 2) /\ ~ EndsAt(T, 1) /\ After(T, 2) = 4
  BY <1>3 DEF EndsAt, After
<1>5. FrameAt(T, 2)
  BY <1>2, <1>4, \A j \in 1 .. 2 - 1 : j = 1 DEF FrameAt
<1>6. From(T, 4) = <<>>  BY <1>2, FromEnd, Len(T) + 1 = 4
<1>7. Yielded(SubSeq(T, 1, 2 - 1)) = <<"token">>
  <2> DEFINE f == SubSeq(T, 1, 2 - 1)
  <2>1. Len(f) = 2 - 1 /\ \A j \in 1 .. 2 - 1 : f[j] = T[j]
    BY <1>2, BeforeFacts, 2 \in 1 .. Len(T) + 1
  <2> HIDE DEF f
  <2>2. Len(f) = 1 /\ f[1] = "token"  BY <1>2, <2>1
  <2>3. EventOf(f) = "token"  BY <2>2 DEF EventOf
  <2> QED  BY <2>3 DEF Yielded, f
<1>8. ASSUME NEW u \in Seq(Piece) PROVE Events[T \o u] = <<"token">> \o Events[u]
  <2>1. Events[T \o u] = Yielded(Drain(T).frame) \o Events[Drain(T).rest \o u]
    BY <1>2, <1>5, FrameKept
  <2>2. Drain(T).frame = SubSeq(T, 1, 2 - 1) /\ Drain(T).rest = From(T, After(T, 2))
    BY <1>2, <1>5, DrainFacts
  <2>3. Drain(T).rest \o u = u  BY <1>4, <1>6, <2>2, JoinEmpty
  <2> QED  BY <1>7, <2>1, <2>2, <2>3
<1> QED  BY <1>2, <1>8 DEF T

LEMMA WriteExact ==
  ASSUME NEW r \in Endless, NEW b \in Seq(Piece), NEW o, Exact(r, b, <<>>, o)
  PROVE  Exact(r, b, TokenFrame, Append(o, "token"))
<1>1. Events[b] = o /\ Ended(b) /\ o \in Seq(WorkerEvent)
  BY JoinEmpty, EventsType DEF Exact
<1> DEFINE T == TokenFrame
<1>2. T \in Seq(Piece) /\ T \o <<>> = T /\ Events[<<>>] = <<>>
  <2>1. <<>> \in Seq(Piece) /\ ~ HasFrame(<<>>)  BY EmptySeq DEF HasFrame
  <2> QED  BY <2>1, TokenFrameFacts, JoinEmpty, EventsNone
<1>3. <<"token">> \in Seq(WorkerEvent)  BY DEF WorkerEvent
<1>4. Events[T] = <<"token">>
  <2>1. Events[T \o <<>>] = <<"token">> \o Events[<<>>]  BY TokenFrameFacts, EmptySeq
  <2> QED  BY <1>2, <1>3, <2>1, JoinEmpty
<1>5. Events[b \o T] = o \o <<"token">>  BY <1>1, <1>2, <1>4 DEF Ended
<1>6. o \o <<"token">> = Append(o, "token")  BY <1>1, <1>3
<1>7. ASSUME NEW u \in Seq(Piece) PROVE Events[(b \o T) \o u] = Events[b \o T] \o Events[u]
  <2>1. T \o u \in Seq(Piece)  BY <1>2, JoinFacts
  <2>2. (b \o T) \o u = b \o (T \o u)
    <3>1. PICK t \in Seq(Piece) : t = T  BY <1>2
    <3>2. (b \o t) \o u = b \o (t \o u)  BY JoinAssociative
    <3> QED  BY <3>1, <3>2
  <2>3. Events[b \o (T \o u)] = o \o (<<"token">> \o Events[u])
    BY <1>1, <2>1, TokenFrameFacts DEF Ended
  <2>4. o \o (<<"token">> \o Events[u]) = (o \o <<"token">>) \o Events[u]
    <3>1. PICK x1 \in Seq(WorkerEvent), x2 \in Seq(WorkerEvent), x3 \in Seq(WorkerEvent) :
            x1 = o /\ x2 = <<"token">> /\ x3 = Events[u]
      BY <1>1, <1>3, EventsType
    <3>2. (x1 \o x2) \o x3 = x1 \o (x2 \o x3)  BY JoinAssociative
    <3> QED  BY <3>1, <3>2
  <2> QED  BY <1>5, <2>2, <2>3, <2>4
<1> QED  BY <1>5, <1>6, <1>7 DEF Exact, Ended

(* A chunk moves text from the body to the buffer.                         *)
LEMMA ChunkExact ==
  ASSUME NEW b \in Seq(Piece), NEW u \in Seq(Piece), NEW n \in 1 .. Len(u)
  PROVE  /\ b \o SubSeq(u, 1, n) \in Seq(Piece)
         /\ SubSeq(u, n + 1, Len(u)) \in Seq(Piece)
         /\ (b \o SubSeq(u, 1, n)) \o SubSeq(u, n + 1, Len(u)) = b \o u
<1>1. Len(u) \in Nat  BY TextFacts
<1>2. PICK c \in Seq(Piece) : c = SubSeq(u, 1, n)
  <2>1. PICK k \in 1 .. Len(u) + 1 : k = n + 1 /\ k - 1 = n
    BY <1>1, n + 1 \in 1 .. Len(u) + 1, n + 1 - 1 = n
  <2>2. SubSeq(u, 1, k - 1) \in Seq(Piece)  BY BeforeFacts
  <2> QED  BY <2>1, <2>2
<1>3. PICK d \in Seq(Piece) : d = SubSeq(u, n + 1, Len(u))
  BY <1>1, FromFacts, n + 1 \in 1 .. Len(u) + 1 DEF From
<1>4. c \o d = u
  <2>1. SubSeq(u, 1, n) \o SubSeq(u, n + 1, Len(u)) = SubSeq(u, 1, Len(u))
    BY <1>1, ConcatAdjacentSubSeq, 1 \in 1 .. Len(u) + 1, n \in 1 - 1 .. Len(u),
       Len(u) \in n .. Len(u)
  <2> QED  BY <1>2, <1>3, <2>1, SubSeqFull
<1>5. (b \o c) \o d = b \o (c \o d)  BY JoinAssociative
<1>6. b \o c \in Seq(Piece)  BY JoinFacts
<1> QED  BY <1>2, <1>3, <1>4, <1>5, <1>6
-------------------------------------------------------------------------------
(***************************************************************************)
(* The inductive invariant of the transports.  What a stream that was not  *)
(* cancelled has in its buffer and has not read yet parses to the events   *)
(* it is owed; the answer of an endless worker so far consists of complete *)
(* frames; and nothing is buffered before there is an answer.              *)
(***************************************************************************)
WireTypeOK ==
  /\ posted \in [Req -> SUBSET Field]
  /\ unread \in [Req -> Seq(Piece)]
  /\ buffered \in [Req -> Seq(Piece)]
  /\ owed \in [Req -> Seq(WorkerEvent)]

Unanswered == {"idle", "sending", "refused"}

Wired(r) ==
  /\ stream[r].cancels = 0 => Exact(r, buffered[r], unread[r], owed[r])
  /\ phase[r] \in Unanswered => buffered[r] = <<>>

WireInv == WireTypeOK /\ \A r \in Req : Wired(r)

(* It is enough to look at the one request that a step is about.           *)
LEMMA WireStep ==
  ASSUME WireInv, NEW r \in Req,
         NEW b \in Seq(Piece), buffered' = [buffered EXCEPT ![r] = b],
         NEW u \in Seq(Piece), unread' = [unread EXCEPT ![r] = u],
         NEW o \in Seq(WorkerEvent), owed' = [owed EXCEPT ![r] = o],
         posted' \in [Req -> SUBSET Field],
         \A q \in Req : q # r => stream'[q] = stream[q] /\ phase'[q] = phase[q],
         stream'[r].cancels = 0 => Exact(r, b, u, o),
         phase'[r] \in Unanswered => b = <<>>
  PROVE  WireInv'
<1>1. WireTypeOK'  BY DEF WireInv, WireTypeOK
<1>2. ASSUME NEW q \in Req PROVE Wired(q)'
  <2>1. CASE q = r
    <3>1. buffered'[q] = b /\ unread'[q] = u /\ owed'[q] = o
      BY <2>1 DEF WireInv, WireTypeOK
    <3> QED  BY <2>1, <3>1 DEF Wired
  <2>2. CASE q # r
    <3>1. /\ buffered'[q] = buffered[q] /\ unread'[q] = unread[q] /\ owed'[q] = owed[q]
          /\ stream'[q] = stream[q] /\ phase'[q] = phase[q]
      BY <2>2 DEF WireInv, WireTypeOK
    <3>2. Wired(q)  BY DEF WireInv
    <3> QED  BY <3>1, <3>2 DEF Wired
  <2> QED  BY <2>1, <2>2
<1> QED  BY <1>1, <1>2 DEF WireInv

(* A poll, an event and a drop are about one live stream.                  *)
LEMMA OneStream ==
  ASSUME IInv, NEW r \in Req, NEW ev, Poll(r) \/ Abandon(r) \/ Receive(r, ev)
  PROVE  /\ Live(r)
         /\ phase'[r] \notin Unanswered
         /\ \A q \in Req : q # r => stream'[q] = stream[q] /\ phase'[q] = phase[q]
<1>1. /\ phase \in [Req -> Phase] /\ stream \in [Req -> StreamState]
  BY DEF IInv, TypeOK
<1>2. ASSUME NEW s, Close(r, s)
      PROVE  /\ phase'[r] \notin Unanswered
             /\ \A q \in Req : q # r => stream'[q] = stream[q] /\ phase'[q] = phase[q]
  BY <1>1, <1>2 DEF Close, Unanswered
<1>3. ASSUME NEW s, NEW out, Yield(r, s, out)
      PROVE  /\ phase'[r] \notin Unanswered
             /\ \A q \in Req : q # r => stream'[q] = stream[q] /\ phase'[q] = phase[q]
  BY <1>1, <1>2, <1>3 DEF Yield, Unanswered
<1>4. CASE PollStopped(r) \/ Receive(r, ev)
  BY <1>3, <1>4 DEF PollStopped, Receive, Live
<1>5. CASE PollEnded(r) \/ Abandon(r)
  BY <1>2, <1>5 DEF PollEnded, Abandon, Live
<1>6. CASE PollBegin(r)
  BY <1>1, <1>6 DEF PollBegin, Live, Unanswered
<1> QED  BY <1>4, <1>5, <1>6 DEF Poll

(* What was cancelled stays cancelled while the stream is alive.           *)
LEMMA StillWhole ==
  ASSUME IInv, [Next]_vars, NEW r \in Req, Live(r), stream'[r].cancels = 0
  PROVE  stream[r].cancels = 0
<1>1. StreamOK(stream[r]) /\ Unspent(stream[r])
  BY DEF IInv, StreamInv, Live
<1>2. stream[r].terminal => stream'[r].cancels = stream[r].cancels
  BY NextSettles DEF Settled
<1> QED  BY <1>1, <1>2 DEF StreamOK, Unspent

(* HttpTransport::cancel, or what the step leaves in the buffer.           *)
LEMMA CancelStep ==
  ASSUME IInv, [Next]_vars, WireInv, NEW r \in Req, NEW ev,
         Poll(r) \/ Abandon(r) \/ Receive(r, ev),
         NEW left \in Seq(Piece), CancelHttp(r, left),
         NEW o \in Seq(WorkerEvent), owed' = [owed EXCEPT ![r] = o],
         UNCHANGED posted,
         stream'[r].cancels = 0 => Exact(r, left, unread[r], o)
  PROVE  WireInv'
<1>1. WireTypeOK /\ unread[r] \in Seq(Piece) /\ <<>> \in Seq(Piece)
  BY EmptySeq DEF WireInv, WireTypeOK
<1>2. /\ Live(r) /\ phase'[r] \notin Unanswered
      /\ \A q \in Req : q # r => stream'[q] = stream[q] /\ phase'[q] = phase[q]
  BY OneStream
<1> DEFINE cancelled == stream'[r].cancels # stream[r].cancels
           b == IF cancelled THEN <<>> ELSE left
           u == IF cancelled THEN <<>> ELSE unread[r]
<1>3. b \in Seq(Piece) /\ u \in Seq(Piece)  BY <1>1
<1>4. buffered' = [buffered EXCEPT ![r] = b] /\ unread' = [unread EXCEPT ![r] = u]
  BY DEF CancelHttp
<1>5. stream'[r].cancels = 0 => Exact(r, b, u, o)
  <2> SUFFICES ASSUME stream'[r].cancels = 0 PROVE Exact(r, b, u, o)  OBVIOUS
  <2>1. ~ cancelled  BY <1>2, StillWhole
  <2> QED  BY <2>1
<1>6. posted' \in [Req -> SUBSET Field]  BY <1>1 DEF WireTypeOK
<1> HIDE DEF b, u
<1> QED  BY <1>2, <1>3, <1>4, <1>5, <1>6, WireStep

(* A failure cancels: nothing is owed by a stream that has failed.         *)
LEMMA FailureCancels ==
  ASSUME IInv, NEW r \in Req, Receive(r, "failure")
  PROVE  stream'[r].cancels # 0
<1> DEFINE s == stream[r]
<1>1. phase[r] = "awaiting" /\ StreamOK(s) /\ ~ s.terminal /\ ~ s.cleaned_up
  BY DEF Receive, IInv, StreamInv, Unspent
<1>2. NextAt(s, "failure") = Fail(s) /\ NextAtOutput(s, "failure") = "error"
  BY <1>1 DEF NextAt, NextAtOutput
<1>3. stream'[r] = Fail(s)
  BY <1>2 DEF Receive, Yield, IInv, TypeOK
<1>4. Fail(s).cancels = s.cancels + 1 /\ s.cancels \in Nat
  BY <1>1 DEF StreamOK, StreamState, Fail, Cleanup
<1> QED  BY <1>3, <1>4

(* next_event hands out the first event owed.                              *)
LEMMA HeadOwed ==
  ASSUME NEW ev, NEW e \in Seq(WorkerEvent), ev \in WorkerEvent, NEW o, o = <<ev>> \o e
  PROVE  o # <<>> /\ Head(o) = ev /\ Tail(o) = e
<1>1. <<ev>> \in Seq(WorkerEvent) /\ Len(<<ev>>) = 1 /\ <<ev>>[1] = ev  OBVIOUS
<1>2. /\ o \in Seq(WorkerEvent) /\ Len(o) = 1 + Len(e) /\ o[1] = ev
      /\ \A i \in 1 .. Len(e) : o[i + 1] = e[i]
  <2> DEFINE x == <<ev>>
  <2>1. x \in Seq(WorkerEvent) /\ Len(x) = 1 /\ x[1] = ev  BY <1>1
  <2> HIDE DEF x
  <2>2. o = x \o e  BY DEF x
  <2>3. Len(e) \in Nat  BY LenProperties
  <2>4. /\ o \in Seq(WorkerEvent) /\ Len(o) = Len(x) + Len(e)
        /\ \A i \in 1 .. Len(x) + Len(e) : o[i] = IF i <= Len(x) THEN x[i] ELSE e[i - Len(x)]
    BY <2>1, <2>2, ConcatProperties
  <2>5. o[1] = ev  BY <2>1, <2>3, <2>4
  <2>6. ASSUME NEW i \in 1 .. Len(e) PROVE o[i + 1] = e[i]
    BY <2>1, <2>3, <2>4, i + 1 \in 1 .. Len(x) + Len(e), ~ (i + 1 <= 1), i + 1 - 1 = i
  <2> QED  BY <2>1, <2>4, <2>5, <2>6
<1>3. Len(e) \in Nat /\ Len(o) # 0  BY <1>2, LenProperties
<1>4. o # <<>>  BY <1>2, <1>3
<1>5. Head(o) = ev  BY <1>2, <1>4
<1>6. Tail(o) \in Seq(WorkerEvent) /\ Len(Tail(o)) = Len(e)
  BY <1>2, <1>3, <1>4, HeadTailProperties
<1>7. \A i \in 1 .. Len(e) : Tail(o)[i] = e[i]
  BY <1>2, <1>4, <1>6, HeadTailProperties
<1>8. Tail(o) = e
  BY <1>6, <1>7, SeqEqual
<1> QED  BY <1>4, <1>5, <1>8

LEMMA TakeFrameStep ==
  ASSUME IInv, [Next]_vars, WireInv, NEW r \in Req, TakeFrame(r)
  PROVE  WireInv'
<1>1. PICK b \in Seq(Piece), u \in Seq(Piece), o \in Seq(WorkerEvent) :
        b = buffered[r] /\ u = unread[r] /\ o = owed[r]
  BY DEF WireInv, WireTypeOK
<1>2. HasFrame(b) /\ Wired(r) /\ phase[r] = "awaiting" /\ Live(r)
  BY <1>1 DEF TakeFrame, WireInv, Live
<1>3. PICK k : FrameAt(b, k)  BY <1>2, FrameFacts
<1>4. PICK f \in Seq(Piece), c \in Seq(Piece) : f = Drain(b).frame /\ c = Drain(b).rest
  BY <1>3, DrainFacts
<1>5. stream[r].cancels = 0 =>
        /\ o = Yielded(f) \o Events[c \o u]
        /\ r \in Endless => Ended(c \o u)
  <2> SUFFICES ASSUME stream[r].cancels = 0
               PROVE  o = Yielded(f) \o Events[c \o u] /\ (r \in Endless => Ended(c \o u))
    OBVIOUS
  <2>1. Exact(r, b, u, o)  BY <1>1, <1>2 DEF Wired
  <2>2. PICK g \in Seq(Piece), d \in Seq(Piece) :
          /\ g = Drain(b).frame /\ d = Drain(b).rest
          /\ o = Yielded(g) \o Events[d \o u]
          /\ r \in Endless => Ended(d \o u)
    BY <1>2, <2>1, TakeExact
  <2> QED  BY <1>4, <2>2
<1>6. c \o u \in Seq(Piece) /\ Events[c \o u] \in Seq(WorkerEvent)
  BY JoinFacts, EventsType
<1>7. CASE EventOf(f) # "none" /\ Returns(r, EventOf(f), c)
  <2>1. PICK ev \in WorkerEvent : ev = EventOf(f)  BY <1>7, EventOfType
  <2>2. PICK o2 : o2 = IF o # <<>> /\ Head(o) = ev THEN Tail(o) ELSE o  OBVIOUS
  <2>3. o2 \in Seq(WorkerEvent)  BY <2>2, HeadTailProperties
  <2>4. /\ Receive(r, ev) /\ CancelHttp(r, c) /\ UNCHANGED posted
        /\ owed' = [owed EXCEPT ![r] = o2]
    BY <1>1, <1>7, <2>1, <2>2 DEF Returns
  <2>5. ASSUME stream'[r].cancels = 0 PROVE Exact(r, c, u, o2)
    <3>1. stream[r].cancels = 0  BY <1>2, <2>5, StillWhole
    <3>2. o = <<ev>> \o Events[c \o u]  BY <1>5, <1>7, <2>1, <3>1 DEF Yielded
    <3>3. o # <<>> /\ Head(o) = ev /\ Tail(o) = Events[c \o u]
      BY <1>6, <3>2, HeadOwed
    <3> QED  BY <1>5, <2>2, <3>1, <3>3 DEF Exact
  <2> QED  BY <1>1, <2>3, <2>4, <2>5, CancelStep
<1>8. CASE /\ EventOf(f) = "none"
           /\ buffered' = [buffered EXCEPT ![r] = c]
           /\ UNCHANGED <<vars, posted, unread, owed>>
  <2>1. stream' = stream /\ phase' = phase  BY <1>8 DEF vars
  <2>2. unread' = [unread EXCEPT ![r] = u] /\ owed' = [owed EXCEPT ![r] = o]
    BY <1>1, <1>8 DEF WireInv, WireTypeOK
  <2>3. posted' \in [Req -> SUBSET Field]  BY <1>8 DEF WireInv, WireTypeOK
  <2>4. ASSUME stream[r].cancels = 0 PROVE Exact(r, c, u, o)
    BY <1>5, <1>6, <1>8, <2>4, JoinEmpty DEF Yielded, Exact
  <2>5. phase[r] \notin Unanswered  BY <1>2 DEF Unanswered
  <2> QED  BY <1>8, <2>1, <2>2, <2>3, <2>4, <2>5, WireStep
<1> QED  BY <1>1, <1>4, <1>7, <1>8 DEF TakeFrame

LEMMA TakeChunkStep ==
  ASSUME WireInv, NEW r \in Req, TakeChunk(r)
  PROVE  WireInv'
<1>1. PICK b \in Seq(Piece), u \in Seq(Piece), o \in Seq(WorkerEvent) :
        b = buffered[r] /\ u = unread[r] /\ o = owed[r]
  BY DEF WireInv, WireTypeOK
<1>2. PICK n \in 1 .. Len(u) :
        /\ buffered' = [buffered EXCEPT ![r] = b \o SubSeq(u, 1, n)]
        /\ unread' = [unread EXCEPT ![r] = SubSeq(u, n + 1, Len(u))]
  BY <1>1 DEF TakeChunk
<1>3. PICK c \in Seq(Piece), d \in Seq(Piece) :
        /\ c = b \o SubSeq(u, 1, n) /\ d = SubSeq(u, n + 1, Len(u))
        /\ c \o d = b \o u
  BY ChunkExact
<1>4. /\ stream' = stream /\ phase' = phase /\ posted' = posted /\ owed' = owed
      /\ phase[r] = "awaiting"
  BY DEF TakeChunk, vars
<1>5. owed' = [owed EXCEPT ![r] = o] /\ posted' \in [Req -> SUBSET Field]
  BY <1>1, <1>4 DEF WireInv, WireTypeOK
<1>6. stream'[r].cancels = 0 => Exact(r, c, d, o)
  BY <1>1, <1>3, <1>4 DEF WireInv, Wired, Exact
<1>7. phase'[r] \notin Unanswered  BY <1>4 DEF Unanswered
<1> QED  BY <1>2, <1>3, <1>4, <1>5, <1>6, <1>7, WireStep

LEMMA WriteOnStep ==
  ASSUME WireInv, NEW r \in Req, WriteOn(r)
  PROVE  WireInv'
<1>1. PICK b \in Seq(Piece), o \in Seq(WorkerEvent) : b = buffered[r] /\ o = owed[r]
  BY DEF WireInv, WireTypeOK
<1>2. PICK t \in Seq(Piece), o2 \in Seq(WorkerEvent) : t = TokenFrame /\ o2 = Append(o, "token")
  <2>1. "token" \in WorkerEvent  BY DEF WorkerEvent
  <2>2. Append(o, "token") \in Seq(WorkerEvent)  BY <2>1, AppendProperties
  <2> QED  BY <2>2, TokenFrameFacts
<1>3. /\ unread' = [unread EXCEPT ![r] = t] /\ owed' = [owed EXCEPT ![r] = o2]
      /\ stream' = stream /\ phase' = phase /\ posted' = posted /\ buffered' = buffered
      /\ r \in Endless /\ stream[r].cancels = 0 /\ unread[r] = <<>>
      /\ phase[r] \notin Unanswered
  BY <1>1, <1>2 DEF WriteOn, vars, TokenFrame, Live, Unanswered
<1>4. /\ buffered' = [buffered EXCEPT ![r] = b] /\ posted' \in [Req -> SUBSET Field]
  BY <1>1, <1>3 DEF WireInv, WireTypeOK
<1>5. Exact(r, b, <<>>, o)  BY <1>1, <1>3 DEF WireInv, Wired
<1>6. Exact(r, b, t, o2)  BY <1>2, <1>3, <1>5, WriteExact
<1> QED  BY <1>3, <1>4, <1>6, WireStep

LEMMA AnsweredStep ==
  ASSUME IInv, WireInv, NEW r \in Req, Answered(r)
  PROVE  WireInv'
<1>1. PICK a \in Answers[r] :
        /\ owed' = [owed EXCEPT ![r] = Written(a).events]
        /\ unread' = [unread EXCEPT ![r] = Written(a).text]
  BY DEF Answered
<1>2. /\ a.end \in Style /\ a.lines \in Seq(Line)
      /\ r \in Endless => a.lines = <<>> \/ a.lines[Len(a.lines)] = "blank"
  BY AnswersAssumption
<1>3. PICK u \in Seq(Piece), o \in Seq(WorkerEvent) :
        /\ u = Written(a).text /\ o = Written(a).events
        /\ Events[u] = o
        /\ r \in Endless => \A v \in Seq(Piece) : Events[u \o v] = o \o Events[v]
  BY <1>2, WrittenFaithful
<1>4. phase[r] = "sending" /\ stream' = stream /\ posted' = posted /\ buffered' = buffered
      /\ phase' = [phase EXCEPT ![r] = "open"]
  BY DEF Answered, SendSucceeds
<1>5. buffered[r] = <<>>  BY <1>4 DEF WireInv, Wired, Unanswered
<1>6. <<>> \in Seq(Piece) /\ <<>> \o u = u  BY EmptySeq, JoinEmpty
<1>7. Exact(r, <<>>, u, o)  BY <1>3, <1>6 DEF Exact, Ended
<1>8. buffered' = [buffered EXCEPT ![r] = <<>>] /\ posted' \in [Req -> SUBSET Field]
  BY <1>4, <1>5 DEF WireInv, WireTypeOK
<1>9. \A q \in Req : q # r => stream'[q] = stream[q] /\ phase'[q] = phase[q]
  BY <1>4 DEF IInv, TypeOK
<1> QED  BY <1>1, <1>3, <1>6, <1>7, <1>8, <1>9, WireStep

(* The body ends, or breaks: the stream fails and owes nothing.            *)
LEMMA BodyStep ==
  ASSUME IInv, [Next]_vars, WireInv, NEW r \in Req, BodyEnds(r) \/ BodyBreaks(r)
  PROVE  WireInv'
<1>1. PICK b \in Seq(Piece), o \in Seq(WorkerEvent) : b = buffered[r] /\ o = owed[r]
  BY DEF WireInv, WireTypeOK
<1>2. PICK o2 : o2 = IF o # <<>> /\ Head(o) = "failure" THEN Tail(o) ELSE o  OBVIOUS
<1>3. o2 \in Seq(WorkerEvent)  BY <1>2, HeadTailProperties
<1>4. /\ Receive(r, "failure") /\ CancelHttp(r, b) /\ UNCHANGED posted
      /\ owed' = [owed EXCEPT ![r] = o2]
  BY <1>1, <1>2 DEF BodyEnds, BodyBreaks, Returns
<1>5. stream'[r].cancels # 0  BY <1>4, FailureCancels
<1> QED  BY <1>1, <1>3, <1>4, <1>5, CancelStep

(* A poll that ends without an event, and a stream that is dropped.        *)
LEMMA PollStep ==
  ASSUME IInv, [Next]_vars, WireInv, NEW r \in Req, HttpPoll(r) \/ Forget(r)
  PROVE  WireInv'
<1>1. PICK b \in Seq(Piece), o \in Seq(WorkerEvent) : b = buffered[r] /\ o = owed[r]
  BY DEF WireInv, WireTypeOK
<1>2. /\ Poll(r) \/ Abandon(r)
      /\ CancelHttp(r, b) /\ UNCHANGED posted
      /\ owed' = [owed EXCEPT ![r] = o]
  BY <1>1 DEF HttpPoll, Forget, WireInv, WireTypeOK
<1>3. Live(r)
  BY <1>2 DEF Poll, PollStopped, PollEnded, PollBegin, Abandon, Live
<1>4. ASSUME stream'[r].cancels = 0 PROVE Exact(r, b, unread[r], o)
  <2>1. stream[r].cancels = 0  BY <1>3, <1>4, StillWhole
  <2> QED  BY <1>1, <2>1 DEF WireInv, Wired
<1> QED  BY <1>1, <1>2, <1>4, CancelStep

(* Before there is an answer, and with the engine's own state.             *)
LEMMA QuietStep ==
  ASSUME IInv, WireInv, UNCHANGED <<stream, wire>>,
         posted' \in [Req -> SUBSET Field],
         \A r \in Req : phase'[r] \in Unanswered => phase[r] \in Unanswered
  PROVE  WireInv'
BY DEF WireInv, WireTypeOK, Wired, wire

LEMMA PostStep ==
  ASSUME IInv, WireInv, NEW r \in Req, Post(r)
  PROVE  WireInv'
<1>1. /\ phase \in [Req -> Phase] /\ posted \in [Req -> SUBSET Field]
  BY DEF IInv, TypeOK, WireInv, WireTypeOK
<1>2. /\ phase[r] = "idle" /\ UNCHANGED <<stream, wire>>
      /\ phase' = [phase EXCEPT ![r] = IF started /\ Converts(r) THEN "sending" ELSE "refused"]
      /\ posted' = [posted EXCEPT ![r] = IF phase'[r] = "sending" THEN Forwarded(r) ELSE {}]
  BY DEF Post, Generate
<1>3. phase'[r] = "sending" => Converts(r)  BY <1>1, <1>2
<1>4. WorkerFields \subseteq Field  BY DEF Field
<1>5. PICK x \in SUBSET Field : x = IF phase'[r] = "sending" THEN Forwarded(r) ELSE {}
  BY <1>3, <1>4, ForwardedKnown
<1>6. posted' \in [Req -> SUBSET Field]  BY <1>1, <1>2, <1>5
<1>7. \A q \in Req : phase'[q] \in Unanswered => phase[q] \in Unanswered
  BY <1>1, <1>2 DEF Unanswered
<1> QED  BY <1>2, <1>6, <1>7, QuietStep

LEMMA IdleStep ==
  ASSUME IInv, WireInv,
         \/ UNCHANGED httpVars
         \/ (Start \/ EngineCleanup) /\ WireIdle
         \/ \E r \in Req : (SendFails(r) \/ StopContext(r)) /\ WireIdle
  PROVE  WireInv'
<1>1. /\ phase \in [Req -> Phase] /\ posted \in [Req -> SUBSET Field]
  BY DEF IInv, TypeOK, WireInv, WireTypeOK
<1>2. UNCHANGED <<stream, wire, posted>>
  BY DEF httpVars, vars, Start, EngineCleanup, SendFails, StopContext, WireIdle
<1>3. \/ phase' = phase
      \/ \E r \in Req : phase[r] = "sending" /\ phase' = [phase EXCEPT ![r] = "refused"]
  BY DEF httpVars, vars, Start, EngineCleanup, SendFails, StopContext
<1>4. \A q \in Req : phase'[q] \in Unanswered => phase[q] \in Unanswered
  BY <1>1, <1>3 DEF Unanswered
<1> QED  BY <1>1, <1>2, <1>4, QuietStep

LEMMA InitWireInv == HttpInit => WireInv
<1> SUFFICES ASSUME HttpInit PROVE WireInv  OBVIOUS
<1>1. <<>> \in Seq(Piece) /\ <<>> \in Seq(WorkerEvent) /\ ~ HasFrame(<<>>)
  BY EmptySeq DEF HasFrame
<1>2. Events[<<>>] = <<>>  BY <1>1, EventsNone
<1>3. ASSUME NEW u \in Seq(Piece) PROVE Events[<<>> \o u] = Events[<<>>] \o Events[u]
  <2>1. Events[u] \in Seq(WorkerEvent)  BY EventsType
  <2> QED  BY <1>2, <2>1, JoinEmpty
<1>4. <<>> \o <<>> = <<>>  BY <1>1, JoinEmpty
<1>5. \A r \in Req : Exact(r, <<>>, <<>>, <<>>)
  BY <1>2, <1>3, <1>4 DEF Exact, Ended
<1>6. WireTypeOK  BY <1>1 DEF HttpInit, WireTypeOK
<1>7. \A r \in Req : buffered[r] = <<>> /\ unread[r] = <<>> /\ owed[r] = <<>>
  BY DEF HttpInit
<1> QED  BY <1>5, <1>6, <1>7 DEF WireInv, Wired

LEMMA NextWireInv == IInv /\ WireInv /\ [HttpNext]_httpVars => WireInv'
<1> SUFFICES ASSUME IInv, WireInv, [HttpNext]_httpVars PROVE WireInv'  OBVIOUS
<1>1. [Next]_vars  BY HttpStep
<1>2. ASSUME NEW r \in Req, Post(r) PROVE WireInv'  BY <1>2, PostStep
<1>3. ASSUME NEW r \in Req, Answered(r) PROVE WireInv'  BY <1>3, AnsweredStep
<1>4. ASSUME NEW r \in Req, HttpPoll(r) \/ Forget(r) PROVE WireInv'
  BY <1>1, <1>4, PollStep
<1>5. ASSUME NEW r \in Req, TakeFrame(r) PROVE WireInv'
  BY <1>1, <1>5, TakeFrameStep
<1>6. ASSUME NEW r \in Req, TakeChunk(r) PROVE WireInv'  BY <1>6, TakeChunkStep
<1>7. ASSUME NEW r \in Req, WriteOn(r) PROVE WireInv'  BY <1>7, WriteOnStep
<1>8. ASSUME NEW r \in Req, BodyEnds(r) \/ BodyBreaks(r) PROVE WireInv'
  BY <1>1, <1>8, BodyStep
<1>9. CASE \/ UNCHANGED httpVars
           \/ (Start \/ EngineCleanup) /\ WireIdle
           \/ \E r \in Req : (SendFails(r) \/ StopContext(r)) /\ WireIdle
  BY <1>9, IdleStep
<1> QED
  BY <1>2, <1>3, <1>4, <1>5, <1>6, <1>7, <1>8, <1>9 DEF HttpNext, NextEvent

(***************************************************************************)
(* HttpTransport::next_event returns the events the worker wrote, in their *)
(* order, none twice and none lost, for every answer and every way the     *)
(* network cuts it, between the two bytes of a CR LF included.             *)
(***************************************************************************)
THEOREM WireExactTheorem == HttpSpec => []WireExact
<1>1. HttpSpec => []IInv
  BY HttpImplementsEngine, InductiveInvariant, PTL
<1>2. IInv /\ WireInv => WireExact
  BY DEF IInv, WireInv, WireTypeOK, Wired, Exact, WireExact, HttpTypeOK, EventsAsWritten
<1> QED  BY <1>1, <1>2, InitWireInv, NextWireInv, PTL DEF HttpSpec
===============================================================================
