SPECIFICATION TraceSpec
CONSTANTS
  MemoryCapacity = 2
  MaxFileBytes = 3
  RetainFiles = 1
  BatchLimit = 2
  MaxTimeline = 3
  MaxSequence = 5
  MaxLeases = 2
  MaxGeneration = 1
  MaxFaults = 1
CHECK_DEADLOCK FALSE
INVARIANTS
  TraceIsComplete
  LossIsReported
PROPERTIES
  EventsReachClient
