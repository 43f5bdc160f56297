SPECIFICATION Spec
CONSTANTS
  MaxItems = 8
  MaxDepth = 4
  Simples = {"stmt", "break", "return", "returnv"}
  Openers = {"if", "for", "closure"}
  VoidFns = {TRUE, FALSE}
INVARIANTS
  TypeOK
  ReturnsFlagExact
  BranchTargetsAttached
  WellFormedIffClean
  BreakLeavesInnermostLoop
  ReturnsReachRet
CHECK_DEADLOCK FALSE
