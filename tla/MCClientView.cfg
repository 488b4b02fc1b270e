SPECIFICATION FairClientSpec
CONSTANTS
  Callers = {"poll", "click1", "click2"}
  Clicks = {"click1", "click2"}
  Proxies = {"clash"}
  MaxClicks = 2
  MaxLaunches = 1
  MaxFailures = 1
INVARIANTS
  ProxyIsReturned
PROPERTIES
  ViewCatchesUp
CHECK_DEADLOCK FALSE
