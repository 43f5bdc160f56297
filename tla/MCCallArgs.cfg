SPECIFICATION Spec
CONSTANTS
  Types <- MCTypes
  MaxArgs = 3
INVARIANT ExactForNames
CHECK_DEADLOCK FALSE
