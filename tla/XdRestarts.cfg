SPECIFICATION FairSpec
CONSTANTS
  NumZones = 2
  Physical = 4
  Logical = 2
  PerBlock = 2
  CisBlock = 0
  MaxSpan = 2
  Restarts = TRUE
  Faults <- NoFaults
  CrashAt <- NotInAWrite
  MaxWrites = 2
  MaxFaults = 0
  MaxCrashes = 1
INVARIANT TypeOK
INVARIANT ReadsWhatWasWritten
INVARIANT NoBlockLost
PROPERTY RequestEnds
CHECK_DEADLOCK TRUE
