SPECIFICATION Spec
CONSTANTS
  Names <- MCNames
  Items <- MCItems
  MaxItems = 3
INVARIANTS
  TypeOK
  CollectsInAnyOrder
  CallsReachDefinition
  CompilesIffResolvable
CHECK_DEADLOCK FALSE
