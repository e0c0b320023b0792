SPECIFICATION Spec
CONSTANTS
  MaxBlocks = 2
  Capacity = 1
CHECK_DEADLOCK FALSE
INVARIANT CancelledJobAlive
