---------------------------- MODULE MCTokenGraph ----------------------------
(***************************************************************************)
(* Two themes, of which the second defines "y" too; the pointer is written *)
(* as the documentation spells it.                                         *)
(***************************************************************************)
EXTENDS TokenGraph, TLC

CONSTANTS x, y

TwoThemes == <<{x}, {x, y}>>
AsDocumented == {[prefix |-> "#/", name |-> x], [prefix |-> "", name |-> x]}

CommandSymmetry == Permutations(Commands)
=============================================================================
