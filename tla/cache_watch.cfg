\* Watch mode: two overlapping runs over one document.
SPECIFICATION Spec
CONSTANTS
  a = a
  b = b
  c = c
  None = None
  Failed = Failed
  Docs = {d1}
  Contents = {a, b, c}
  Runs = {r1, r2}
  Fixed <- FixedThree
  Size <- SizeThree
  Writable = {d1}
  Concurrency = 1
  Watch = TRUE
  MaxClock = 3
SYMMETRY RunSymmetry
INVARIANTS CacheSound ResultSound
PROPERTY PromiseKept
