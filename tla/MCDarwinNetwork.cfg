SPECIFICATION FairSpec
CONSTANTS
  Networks = {n1, n2}
  Resolvers = {d1, d2}
  TUNDNS = TUNDNS
  Absent = Absent
  Foreign = Foreign
  MaxTUN = 2
  MaxFaults = 3
  UserRaces = FALSE
INVARIANTS
  WriteAhead
  UserDNSReturns
PROPERTIES
  KeepsContract
  RecoveryCompletes
  DriftIsReported
