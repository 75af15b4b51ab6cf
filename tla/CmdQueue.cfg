SPECIFICATION FairSpec
CONSTANTS
  Size = 12
  Radix = 4
  MaxBlock = 3
  MaxCommands = 24
INVARIANTS TypeOK BlockIsFree IdleMeansDone
PROPERTIES ExecutesInOrder CallerReturns AllExecuted
CHECK_DEADLOCK FALSE
