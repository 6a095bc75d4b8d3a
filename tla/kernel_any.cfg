\* Starts, lints and stops in any order, with every mishap.
SPECIFICATION FairLife
CONSTANTS
  None = None
  Kernels = {k1, k2}
  Commands = {c1, c2}
INVARIANTS LifeTypeOK SingleKernel
PROPERTIES StartMeansLoaded CommandsReturn
