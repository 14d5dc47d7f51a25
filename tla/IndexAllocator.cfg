SPECIFICATION Spec
CONSTANTS
  MaxIndex = 4
  Carried <- Around
  MaxNeed = 4
INVARIANTS LowestFree ErrorOnlyWhenExhausted
CHECK_DEADLOCK FALSE
