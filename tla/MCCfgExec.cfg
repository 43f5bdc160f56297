SPECIFICATION ExecSpec
CONSTANTS
  MaxItems = 10
  MaxDepth = 4
  Simples = {"stmt", "break", "return"}
  Openers = {"if", "for"}
  VoidFns = {TRUE}
INVARIANT WellFormedIffClean
PROPERTY ExecutesSource
CHECK_DEADLOCK FALSE
