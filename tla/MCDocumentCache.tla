-------------------------- MODULE MCDocumentCache --------------------------
(***************************************************************************)
(* "b" is a clean text and "a" is fixed to "b": they have the same size,   *)
(* so only the mtime tells them apart.  The instance of watch mode adds    *)
(* "c", which is fixed to "a".                                             *)
(***************************************************************************)
EXTENDS DocumentCache, TLC

CONSTANTS a, b, c

FixedTwo == a :> b @@ b :> b
SizeTwo == a :> 1 @@ b :> 1

FixedThree == a :> b @@ b :> b @@ c :> a
SizeThree == a :> 1 @@ b :> 1 @@ c :> 2

RunSymmetry == Permutations(Runs)
=============================================================================
