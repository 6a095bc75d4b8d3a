------------------------- MODULE MCKernelLifecycle -------------------------
(***************************************************************************)
(* Small instances of KernelLifecycle: daemons and commands are model      *)
(* values and may be exchanged for one another.                            *)
(***************************************************************************)
EXTENDS KernelLifecycle, TLC

ProcessSymmetry == Permutations(Kernels) \cup Permutations(Commands)
=============================================================================
