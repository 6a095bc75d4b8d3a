\* One command-line run at a time over two documents; --concurrency rounds to 0.
SPECIFICATION FairSpec
CONSTANTS
  a = a
  b = b
  c = c
  None = None
  Failed = Failed
  Docs = {d1, d2}
  Contents = {a, b}
  Runs = {r1}
  Fixed <- FixedTwo
  Size <- SizeTwo
  Writable = {d1}
  Concurrency = 0
  Watch = FALSE
  MaxClock = 3
INVARIANTS TypeOK EntryUsable
PROPERTIES SaveExact RunTerminates
