SPECIFICATION FairSpec
CONSTANTS
  Callers = {c1, c2}
  Servers = {s1}
  Terminator = t
  NoOne = none
  Slots = 3
  Kinds <- AllKinds
  Races <- NoRaces
  CallsBack = TRUE
  MaxRequests = 4
INVARIANTS TypeOK AnsweredInOrder OwnArgument DrainedBeforeExit NoUseAfterFree
PROPERTIES CallReturns AcceptedIsAnswered
CHECK_DEADLOCK FALSE
