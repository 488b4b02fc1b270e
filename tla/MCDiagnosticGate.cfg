SPECIFICATION Spec
CONSTANTS
  Streams = {stdout}
  Durations <- MCDurations
  MaxLag = 1
  MaxTime = 5
  MaxEpoch = 7
  MaxDetail = 2
CHECK_DEADLOCK FALSE
INVARIANTS
  LeaseIsKept
  WholeLines
PROPERTIES
  LeaseEnds
