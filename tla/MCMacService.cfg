SPECIFICATION FairSpec
CONSTANTS
  Pids = {1, 2}
  Conns = {c1, c2}
  Slots = 2
  MaxConnects = 1
  MaxFaults = 2
INVARIANTS
  CoreIsJournaled
  SignalsOwnOnly
  StoppedLeavesNothing
PROPERTIES
  CoreGoneFirst
  
