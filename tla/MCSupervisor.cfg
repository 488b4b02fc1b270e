SPECIFICATION HostFairSpec
CONSTANTS
  Stoppers = {s1}
  MaxFaults = 2
CHECK_DEADLOCK FALSE
INVARIANTS
  TreeIsAccountedFor
  AnswersAreTrue
PROPERTIES
  StopReturns
  ExitIsNoticed
