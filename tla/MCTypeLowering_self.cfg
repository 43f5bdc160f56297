SPECIFICATION Spec
CONSTANTS
  Names = {"A", "B", "C"}
  Base = "i32"
  Used = {"path", "array", "ptr"}
  MaxDepth = 6
  Programs <- MCPrograms
INVARIANT SelfReferenceReported
CHECK_DEADLOCK FALSE
