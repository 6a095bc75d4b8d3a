\* Two messages of every kind behind every header.
SPECIFICATION FairSpec
CONSTANTS
  clean = clean
  one = one
  two = two
  stuck = stuck
  flip = flip
  flop = flop
  red = red
  gap = gap
  Messages <- MCMessages
  Headers <- MCHeaders
  BodySize = 2
  Violations <- MCViolations
  Corrected <- MCCorrected
  Tokens <- MCTokens
  Words <- MCWords
  BuiltInRules = {"colors"}
  MaxMessages = 2
  Snapshot = Snapshot
  None = None
\* The process exits.
CHECK_DEADLOCK FALSE
INVARIANT TypeOK
PROPERTY PromiseKept
