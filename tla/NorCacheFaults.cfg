SPECIFICATION Spec
CONSTANTS
  NumPages = 2
  SectorsPerPage = 2
  NumSectors = 6
  MaxSpan = 2
  AppSectors <- CachedSectors
  AppOps <- Ops
  IdleFlush = FALSE
  ReadFaults = FALSE
  MaxWrites = 2
  MaxFaults = 1
  MaxCrashes = 1
INVARIANTS TypeOK CacheHoldsLatest OnlyDirtyPagesAreAtRisk NoAlias NeverWrittenIsUntouched
PROPERTIES FlushIsDurable KeepsPromise
