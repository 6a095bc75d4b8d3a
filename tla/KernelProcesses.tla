--------------------------- MODULE KernelProcesses ---------------------------
(***************************************************************************)
(* The processes that KernelLifecycle and TokenGraph are about: daemons of *)
(* the DSR kernel (cli/kernel-daemon.ts) and design-lint commands.         *)
(***************************************************************************)

CONSTANTS
  Kernels,   \* kernel processes, each started at most once (a bound)
  Commands,  \* the commands that are run
  None       \* no kernel

ASSUME NoneAssumption == None \notin Kernels
=============================================================================
