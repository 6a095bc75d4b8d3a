\* Two commands of any kind beside a kernel that fills its graph, is written
\* to by others, stops or dies, and a second one that follows it.
SPECIFICATION Spec
CONSTANTS
  x = x
  y = y
  None = None
  Kernels = {k1, k2}
  Commands = {c1, c2}
  Names = {x, y}
  Themes <- TwoThemes
  Written <- AsDocumented
  WithHttp = {k1}
SYMMETRY CommandSymmetry
INVARIANTS TypeOK ViewComplete EndsWell
CHECK_DEADLOCK FALSE
