SPECIFICATION FairSpec
CONSTANTS
  Package <- SmallPackage
  Cuts <- AnyCut
  NumPartitions = 2
  Names <- Paths
  Root = "root"
  RawBlocks = {0, 1, 2}
  Modes <- AllModes
  FailModes <- ForcedModes
  CrashModes <- NandOrForced
  FaultKinds <- AllFaults
  MaxFaults = 2
  MaxCrashes = 2
INVARIANTS TypeOK SuccessIsInstalled RightPartition
PROPERTIES UserDataKept Installs
CHECK_DEADLOCK FALSE
