SPECIFICATION Spec
CONSTANTS
  Adapters = {lan, wifi}
  Configured = {lan}
  Static = {s1}
  MaxFaults = 2
INVARIANTS
  TUNIsWithdrawn
  NoFalseAlarm
PROPERTIES
  LastingDriftIsReported
  CallsReturn
