SPECIFICATION Spec
CONSTANTS
  NumZones = 1
  Physical = 4
  Logical = 2
  PerBlock = 2
  CisBlock = 0
  MaxSpan = 1
  Restarts = FALSE
  Faults <- NoFaults
  CrashAt <- InAWrite
  MaxWrites = 3
  MaxFaults = 0
  MaxCrashes = 1
INVARIANT CompletedWriteSurvives
CHECK_DEADLOCK TRUE
