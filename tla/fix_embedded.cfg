\* CSS inside a template literal of TypeScript.
SPECIFICATION Spec
CONSTANTS
  Jobs <- Embedded
  MayThrow = {"plugin"}
  Width = 12
  MaxPasses = 2
  Tokens <- MCTokens
  Strict = TRUE
  Base = 4
  Units = {"px", "rem", "em"}
  IconFor <- MCIconFor
  InsteadOf <- MCInsteadOf
  Packages = {"@ds"}
  Components = {"Icon", "Button"}
  Origins = {"@ds"}
  Variants <- MCVariants
  HasProgram = FALSE
  Colors = {"red", "blue"}
  Easings = {"steps(2)", "steps(4)"}
  Pascal = {"Icon", "Button", "Glyph", "Picture", "DSIcon", "DSButton", "DSGlyph"}
  Dashed = {}
  Dotted <- MCDotted
  Prefixed <- MCPrefixed
  HasPrefix = {"DSIcon", "DSButton", "DSGlyph"}
CHECK_DEADLOCK FALSE
PROPERTY FixesMatched
