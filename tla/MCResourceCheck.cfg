\* every list of up to 6 resources with every set of overloaded ones
CONSTANTS
  MaxLen = 6
  Lists <- MCLists
SPECIFICATION Spec
INVARIANTS
  SuccessTakesFirstFree
  BusyPointsAtExhausted
CHECK_DEADLOCK FALSE
