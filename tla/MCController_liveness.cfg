SPECIFICATION FairSpec
CONSTANTS
  Requests = {r1, r2}
  MaxGen = 3
  MonitorStartMayFail = FALSE
PROPERTIES
  RequestsReturn
  LostCoreIsNoticed
