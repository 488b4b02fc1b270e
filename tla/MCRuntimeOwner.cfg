SPECIFICATION Spec
CONSTANTS
  p1 = p1
  p2 = p2
  Procs = {p1, p2}
  MaxPublish = 4
  MaxFaults = 4
  Installer = "script"
SYMMETRY ProcSymmetry
CHECK_DEADLOCK FALSE
INVARIANTS
  LedgerOwnsFiles
  PublishIsAtomic
