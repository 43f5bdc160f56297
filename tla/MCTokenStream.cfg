SPECIFICATION Spec
CONSTANTS
  Files = {"root", "a", "b"}
  Root = "root"
  Macros = {"m", "n"}
  MaxIncludes = 2
  MaxPhrases = 4
  MaxDepth = 3
  Texts <- MCTexts
INVARIANTS
  BuildsExpansion
  IncludedOnce
PROPERTY Ends
CHECK_DEADLOCK FALSE
