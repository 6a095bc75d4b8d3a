\* Every document of the catalogue, fixed until nothing changes.
SPECIFICATION Spec
CONSTANTS
  Jobs <- AllJobs
  MayThrow = {"plugin"}
  Width = 12
  MaxPasses = 2
  Tokens <- MCTokens
  Strict = TRUE
  Base = 4
  Units = {"px", "rem", "em"}
  IconFor <- MCIconFor
  InsteadOf <- MCInsteadOf
  Packages = {"@ds"}
  Components = {"Icon", "Button"}
  Origins = {"@ds"}
  Variants <- MCVariants
  HasProgram = FALSE
  Colors = {"red", "blue"}
  Easings = {"steps(2)", "steps(4)"}
  Pascal = {"Icon", "Button", "Glyph", "Picture", "DSIcon", "DSButton", "DSGlyph"}
  Dashed = {}
  Dotted <- MCDotted
  Prefixed <- MCPrefixed
  HasPrefix = {"DSIcon", "DSButton", "DSGlyph"}
\* A text that needs no more fixes is the end.
CHECK_DEADLOCK FALSE
INVARIANTS TypeOK PassExact FixesSettle
PROPERTIES FixesExact PairsKept
