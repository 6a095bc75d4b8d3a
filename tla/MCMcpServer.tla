---------------------------- MODULE MCMcpServer -----------------------------
(***************************************************************************)
(* An instance of McpServer: messages of every kind, and texts that are    *)
(* clean, become so after one or two corrections, cannot be corrected, or  *)
(* are corrected in circles.                                               *)
(***************************************************************************)
EXTENDS McpServer, TLC

CONSTANTS clean, one, two, stuck, flip, flop, red, gap

MCViolations == clean :> 0 @@ one :> 1 @@ two :> 2 @@ stuck :> 1 @@ flip :> 1 @@ flop :> 1
MCCorrected ==
  clean :> clean @@ one :> clean @@ two :> one @@ stuck :> stuck @@ flip :> flop @@ flop :> flip
MCTokens == {red, gap}
MCWords == red :> {"color"} @@ gap :> {"size", "spacing"}

Request(id, method, params) ==
  [form |-> "request", id |-> id, method |-> method, params |-> params]
Call(name, args) == Request(7, "tools/call", [name |-> name, args |-> args])
Snippet(code, depth) == [code |-> code, depth |-> depth, version |-> None]

MCMessages == {
  [form |-> "text"], [form |-> "other"],
  Request(None, "initialized", None), Request(None, "other", None),
  Request(7, "initialize", None), Request(7, "tools/call", None),
  Call("other", None), Call("lint_snippet", None),
  Call("lint_snippet", [Snippet(one, 1) EXCEPT !.version = "2"]),
  Call("lint_snippet", Snippet(two, None)), Call("lint_snippet", Snippet(two, 1)),
  Call("lint_snippet", Snippet(flip, 2)), Call("lint_snippet", Snippet(stuck, 2)),
  Call("lint_snippet", Snippet(one, 0)),
  Call("validate_component_usage", [code |-> one]),
  Call("get_token_completions", [words |-> {"size", "space"}, partial |-> None]),
  Call("explain_diagnostic", [rule |-> "colors"]) }
MCHeaders == {<<"right">>, <<"other", "right">>, <<"short">>, <<"long">>, <<"unreadable", "right">>}
=============================================================================
