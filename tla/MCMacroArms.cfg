SPECIFICATION Spec
CONSTANTS
  MaxBody = 3
  MaxArms = 3
  MaxArgs = 3
  MacroChoices <- MCMacros
  CallChoices <- MCCalls
INVARIANTS
  RightArm
  ExpandsExactly
CHECK_DEADLOCK FALSE
