SPECIFICATION Spec
CONSTANTS
  NumZones = 1
  Physical = 4
  Logical = 2
  PerBlock = 2
  CisBlock = 0
  MaxSpan = 1
  Restarts = FALSE
  Faults <- AllFaults
  CrashAt <- Anywhere
  MaxWrites = 2
  MaxFaults = 1
  MaxCrashes = 2
INVARIANT OneOwner
INVARIANT FreeIsVacant
PROPERTY ErasesOnlyDuplicates
CHECK_DEADLOCK TRUE
