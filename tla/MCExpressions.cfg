SPECIFICATION Spec
CONSTANTS
  MaxTokens = 4
  Names <- MCNames
  Numbers <- MCNumbers
  Trees <- MCTrees
  Sources <- MCSources
  Width <- MCWidth
  Numeral <- MCNumeral
  Structs <- MCStructs
  Enums <- MCEnums
  Functions <- MCFunctions
  Vars <- MCVars
  Memory <- MCMemory
  RetType <- MCRetType
INVARIANTS
  RoundTrip
  KeepsOrder
  ComputesMeaning
  NeverSilentlyWrong
CHECK_DEADLOCK FALSE
