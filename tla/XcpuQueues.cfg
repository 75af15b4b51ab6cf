SPECIFICATION FairSpec
CONSTANTS
  Size <- SameSize
  Services <- OneService
  ServiceSize <- SmallQueues
  Periods = 1
  MaxSends = 5
  MaxRestarts = 1
INVARIANTS TypeOK RoutedInOrder NothingTwice
PROPERTY SlaveGetsToRun
CHECK_DEADLOCK FALSE
