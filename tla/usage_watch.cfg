\* Two runs in watch mode, overlapping or not, with --cache.
SPECIFICATION Spec
CONSTANTS
  t1 = t1
  t2 = t2
  t3 = t3
  t4 = t4
  old = old
  new = new
  plain = plain
  both = both
  None = None
  Tokens = {t1, t2, t3, t4}
  Identities <- IdentitiesFour
  Refs <- RefsFour
  Value <- ValueFour
  Ignored <- IgnoredTwo
  Contents = {old, new, plain, both}
  Fixed <- FixedFour
  Docs = {d1, d2}
  Runs = {r1, r2}
  Cached = TRUE
  MaxEdits = 1
SYMMETRY Symmetry
INVARIANTS TypeOK ReportExact LastRunSound
