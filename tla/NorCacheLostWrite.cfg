SPECIFICATION Spec
CONSTANTS
  NumPages = 2
  SectorsPerPage = 2
  NumSectors = 6
  MaxSpan = 1
  AppSectors <- CachedSectors
  AppOps <- FileSystem
  IdleFlush = TRUE
  ReadFaults = FALSE
  MaxWrites = 2
  MaxFaults = 0
  MaxCrashes = 0
PROPERTY FlushIsDurable
