SPECIFICATION InstallSpec
CONSTANTS
  Installers = {i1, i2}
  MaxRuns = 3
  MaxFailures = 3
INVARIANTS
  CertificateIsOwned
PROPERTIES
  SwapsAreQuiet
CHECK_DEADLOCK FALSE
