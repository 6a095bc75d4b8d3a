----------------------------- MODULE MCWatchMode -----------------------------
(***************************************************************************)
(* Small instances of WatchMode: every other configuration enables a rule  *)
(* of the run level.  --fix leaves version 0 alone and takes one pass to   *)
(* make version 1 of version 2, and another to make version 0 of that.     *)
(***************************************************************************)
EXTENDS WatchMode, TLC

RunLevelOdd == {n \in 0..MaxChanges : n % 2 = 1}
FixDown == [n \in 0..MaxChanges |-> IF n \in {1, 2} THEN n - 1 ELSE n]
=============================================================================
