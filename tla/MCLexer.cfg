SPECIFICATION Spec
CONSTANTS
  MaxComment = 9
  MaxQuoted = 5
  MaxRun = 5
  MaxSymbols = 2
  Letters = {"a", "i", "f"}
  Digits = {"1"}
  Spaces <- MCSpaces
  Keywords <- MCKeywords
  Texts <- MCTexts
INVARIANT TokensAsWritten
PROPERTY LexingEnds
CHECK_DEADLOCK FALSE
