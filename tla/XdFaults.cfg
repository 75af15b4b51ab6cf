SPECIFICATION Spec
CONSTANTS
  NumZones = 1
  Physical = 4
  Logical = 2
  PerBlock = 2
  CisBlock = 0
  MaxSpan = 2
  Restarts = FALSE
  Faults <- Timeouts
  CrashAt <- Never
  MaxWrites = 3
  MaxFaults = 2
  MaxCrashes = 0
INVARIANT ReadsWhatWasWritten
CHECK_DEADLOCK TRUE
