SPECIFICATION Spec
CONSTANTS
  Targets = {google, claude}
  Callers = {m1}
  Slots = {s1, s2}
  MaxGen = 2
CHECK_DEADLOCK FALSE
INVARIANTS
  QualityIsOfThisConnection
PROPERTIES
  RoundsGoOn
