------------------------------ MODULE MCPolicy ------------------------------
(***************************************************************************)
(* Policy with three policy files, two directories, two rules (one built   *)
(* in, one from a plugin) and two plugins.                                 *)
(***************************************************************************)
EXTENDS Policy, TLC

CONSTANTS p1, p2, p3, r1, r2, g1, g2, t1, t2, a1, a2

\* A bare configuration, two that turn rules on, one that turns one off, and
\* one without rules of its own.
Configs ==
    {[rules |-> r1 :> "error", plugins |-> <<>>],
     [rules |-> r1 :> "1" @@ r2 :> "2", plugins |-> <<g1>>],
     [rules |-> r1 :> "warn" @@ r2 :> "0", plugins |-> <<g2>>],
     [rules |-> None, plugins |-> <<g1, g2>>]}

Floor(low, high) == [r \in Rules |-> IF r = r1 THEN low ELSE high]

Lenient == [rate |-> 200, convergence |-> FALSE, trusted |-> {a1}]
Strict == [rate |-> 100, convergence |-> TRUE, trusted |-> {}]

Bodies ==
    {[required |-> {r1}, floor |-> Floor(1, 2), coverage |-> {t2}, agent |-> None,
      ratchet |-> [mode |-> "metric", limit |-> 0]],
     [required |-> {}, floor |-> Floor(2, 0), coverage |-> {t1}, agent |-> Lenient,
      ratchet |-> [mode |-> "entropy", limit |-> 90]],
     [required |-> {r2}, floor |-> Floor(0, 0), coverage |-> {}, agent |-> Strict,
      ratchet |-> [mode |-> "entropy", limit |-> 0]]}

Extensions == {<<>>, <<p1>>, <<p2>>, <<p2, p3>>, <<p3, p2>>}

PolicyFiles == [extends : Extensions, policy : Bodies]

TypeOfRule == r1 :> t1 @@ r2 :> t2

BuiltinRules == {r1}

AllContexts == {[baseline |-> None, agent |-> None], [baseline |-> 1, agent |-> a1]}

=============================================================================
