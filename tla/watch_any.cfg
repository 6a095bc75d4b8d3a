\* Two files, two handlers, two changes by the user.
SPECIFICATION FairSpec
CONSTANTS
  Files = {f1, f2}
  IgnoreFiles = {i1}
  AtStart = {i1}
  Config = Config
  CacheFile = CacheFile
  Handlers = {h1, h2}
  RunLevel <- RunLevelOdd
  FixTo <- FixDown
  MaxChanges = 2
  None = None
\* Quiet for good once the changes are used up.
CHECK_DEADLOCK FALSE
INVARIANTS TypeOK CacheOfConfig EditsReported CalmIsCurrent
PROPERTY SettlesDown
