SPECIFICATION Spec
CONSTANTS
  Requests = {r1, r2, r3}
  MaxGen = 4
  MonitorStartMayFail = TRUE
SYMMETRY RequestSymmetry
INVARIANTS
  ReleasedOwnsNothing
  ConnectedIsGuarded
  CoreIsOwned
  OneOwner
PROPERTIES
  RestoredOnlyWithoutCore
  ImplementsLifecycle
