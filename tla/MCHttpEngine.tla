----------------------------- MODULE MCHttpEngine -----------------------------
(* Two requests of the kind the adapter passes on and one it refuses.  The *)
(* first answer is in CR LF, or ends inside a frame, or is not UTF-8; the  *)
(* second never ends, unless it is an error payload.                       *)
EXTENDS HttpEngine, TLC

CONSTANTS r1, r2, r3

MCControls ==
  r1 :> {"stop", "stop_token_ids_hidden", "max_thinking_tokens", "min_p"}
    @@ r2 :> {"seed"} @@ r3 :> {"use_beam_search"}

MCAnswers ==
  r1 :> {[end |-> <<"cr", "lf">>,
          lines |-> <<"other", "token", "blank", "finish", "blank">>],
         [end |-> <<"cr", "lf">>, lines |-> <<"token", "blank", "finish">>],
         [end |-> <<"lf">>, lines |-> <<"other", "blank", "bad", "blank">>]}
    @@ r2 :> {[end |-> <<"cr">>, lines |-> <<"token", "blank">>],
              [end |-> <<"lf">>, lines |-> <<"error", "blank">>]}
    @@ r3 :> {}
===============================================================================
