SPECIFICATION FairSpec
CONSTANTS
  NumPages = 2
  SectorsPerPage = 2
  NumSectors = 6
  MaxSpan = 1
  AppSectors <- FittingSectors
  AppOps <- FileSystem
  IdleFlush = TRUE
  ReadFaults = TRUE
  MaxWrites = 2
  MaxFaults = 1
  MaxCrashes = 0
INVARIANTS CacheHoldsLatest
PROPERTIES RequestEnds
