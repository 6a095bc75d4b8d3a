\* Two documents; lints end in any order, closes and token changes at any time.
\* The server stops at exit.
SPECIFICATION FairSpec
CONSTANTS
  t1 = t1
  t2 = t2
  t3 = t3
  red = red
  blue = blue
  None = None
  Uris = {u1, u2}
  Texts = {t1, t2, t3}
  Pointers = {red, blue}
  Reported <- MCReported
  MaxLints = 2
CHECK_DEADLOCK FALSE
INVARIANTS TypeOK OneLint Settled RelintsAffected
PROPERTY CatchesUp
