---------------------------- MODULE RequestStream ----------------------------
(***************************************************************************)
(* The request-granularity stream of crates/wire/src/transport.rs.         *)
(*                                                                         *)
(* A RequestStream owns one transport and hands its owner the events the   *)
(* worker sends back.  It promises "exactly-once terminal and cleanup      *)
(* state".  The stream is a record and each method of the source is an     *)
(* operator on it, so that the modules that own streams (DynamoEngine,     *)
(* ServingDeployment) share this one translation.                          *)
(***************************************************************************)
EXTENDS Naturals

(***************************************************************************)
(* What transport.next_event() followed by decode_event() can yield: a     *)
(* token, the worker's own terminal event, or one of the failures that     *)
(* next_at treats alike (end of stream before a terminal event, a          *)
(* transport error, a payload that does not decode, an error payload).     *)
(***************************************************************************)
WorkerEvent == {"token", "finish", "failure"}

(* What a method hands to the owner: Ok(Some(Token)), Ok(Some(Terminal)),  *)
(* Err(_) or Ok(None).                                                     *)
Output == {"token", "terminal", "error", "none"}

(***************************************************************************)
(* cancels counts the calls of Transport::cancel, and finished records     *)
(* that the worker's own terminal event was read; neither is a field of    *)
(* the source.                                                             *)
(***************************************************************************)
StreamState ==
  [terminal : BOOLEAN, cleaned_up : BOOLEAN, outcome : BOOLEAN,
   cancels : Nat, finished : BOOLEAN]

(* The stream DynamoAdapter::start returns once the request is sent.       *)
NewStream ==
  [terminal |-> FALSE, cleaned_up |-> FALSE, outcome |-> FALSE,
   cancels |-> 0, finished |-> FALSE]

(* Mutant of Cleanup: the latch is never consulted.                        *)
CleanupUnlatched(s) == [s EXCEPT !.cancels = @ + 1, !.cleaned_up = TRUE]

(* cleanup(): cancel the transport, but only the first time.               *)
Cleanup(s) ==
  [s EXCEPT !.cancels = IF s.cleaned_up THEN @ ELSE @ + 1,
            !.cleaned_up = TRUE]

(* Mutants of Fail: the stream stays readable; an outcome is recorded.     *)
FailNotTerminal(s) == Cleanup(s)
FailWithOutcome(s) == [Cleanup(s) EXCEPT !.terminal = TRUE, !.outcome = TRUE]

(* fail(): no outcome is recorded for a stream that failed.                *)
Fail(s) == [Cleanup(s) EXCEPT !.terminal = TRUE]

(* The Terminal arm of next_at: nothing is left to cancel.                 *)
Finish(s) ==
  [s EXCEPT !.terminal = TRUE, !.cleaned_up = TRUE, !.outcome = TRUE,
            !.finished = TRUE]

(* next_at() once the transport has yielded ev (ev is not consumed, and    *)
(* irrelevant, when the stream is already terminal).                       *)
NextAt(s, ev) ==
  CASE s.terminal     -> s
    [] ~ s.terminal /\ ev = "token"   -> s
    [] ~ s.terminal /\ ev = "finish"  -> Finish(s)
    [] ~ s.terminal /\ ev = "failure" -> Fail(s)

NextAtOutput(s, ev) ==
  CASE s.terminal     -> "none"
    [] ~ s.terminal /\ ev = "token"   -> "token"
    [] ~ s.terminal /\ ev = "finish"  -> "terminal"
    [] ~ s.terminal /\ ev = "failure" -> "error"

(* cancel_at(); ok is whether Transport::cancel succeeded.  The state is   *)
(* settled before the result of the cancel is looked at.                   *)
CancelAt(s) ==
  IF s.terminal THEN s
  ELSE [Cleanup(s) EXCEPT !.terminal = TRUE, !.outcome = TRUE]

CancelAtOutput(s, ok) ==
  IF s.terminal THEN "none"
  ELSE IF ok \/ s.cleaned_up THEN "terminal" ELSE "error"

(* Drop for RequestStream.                                                 *)
DropStream(s) == Cleanup(s)
=============================================================================
