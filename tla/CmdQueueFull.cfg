SPECIFICATION Spec
CONSTANTS
  Size = 10
  Radix = 16
  MaxBlock = 3
  MaxCommands = 12
INVARIANT EmptyMeansDone
CHECK_DEADLOCK FALSE
