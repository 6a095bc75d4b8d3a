---------------------------- MODULE MCTokenUsage ----------------------------
(***************************************************************************)
(* Small instances of TokenUsage.  "t1" and "t2" have one value in common, *)
(* so a text that uses the value refers to both; "old" refers to t1 by     *)
(* name and its fix replaces that by t3; the option ignores the value of   *)
(* t4 and has the name of t2, which its page allows and the code passes    *)
(* over.                                                                   *)
(***************************************************************************)
EXTENDS TokenUsage, TLC

CONSTANTS t1, t2, t3, t4, old, new, plain, both

IdentitiesFour ==
  t1 :> {"n1", "v12"} @@ t2 :> {"n2", "v12"} @@ t3 :> {"n3"} @@ t4 :> {"n4"}
ValueFour == t1 :> "v12" @@ t2 :> "v12" @@ t3 :> "v3" @@ t4 :> "v4"
IgnoredTwo == {"v4", "n2"}

RefsFour == old :> {"n1"} @@ new :> {"n3"} @@ plain :> {} @@ both :> {"v12"}
FixedFour == old :> new @@ new :> new @@ plain :> plain @@ both :> both

Symmetry == Permutations(Docs)
=============================================================================
