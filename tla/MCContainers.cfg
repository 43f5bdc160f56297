SPECIFICATION Spec
CONSTANTS
  Half = 8
  Values = {"a", "b"}
  Fresh = Fresh
  Texts <- MCTexts
  Sizes = {0, 1, 3, 12}
  Formats <- MCFormats
  Arguments <- MCArguments
  Keys <- MCKeys
  MapValues = {1, 2}
  Missing = Missing
  Code <- MCCode
  P = 53
  M = 97
  Size = 2
INVARIANTS
  LenWithinBlock
  ActsAsSequence
  ReferenceStays
  InTableForLetters
PROPERTIES
  LeavesBlockExactlyWhen
  ImplementsMap
  CallsReturn
CHECK_DEADLOCK FALSE
