---------------------------- MODULE MCLspServer ----------------------------
(***************************************************************************)
(* Instances of LspServer: a text whose diagnostics name the token red, a  *)
(* clean one, and one about both tokens.                                   *)
(***************************************************************************)
EXTENDS LspServer

CONSTANTS t1, t2, t3, red, blue

MCReported == t1 :> {red} @@ t2 :> {} @@ t3 :> {red, blue}
============================================================================
