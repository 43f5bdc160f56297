SPECIFICATION Spec
CONSTANTS
  Names = {"A", "B", "C"}
  Base = "i32"
  Used = {"path", "ptr"}
  MaxDepth = 6
  Programs <- MCPrograms
INVARIANTS
  BodiesComplete
  OverflowsOnlyOnAliasCycles
CHECK_DEADLOCK FALSE
