CONSTANTS
  Procs = {p1, p2, p3}
  ReclaimAttempts = 2
  MaxContenders = 3
  Disruptions = {"crash"}
SPECIFICATION Spec
SYMMETRY ProcSymmetry
PROPERTIES LiveLockIsNeverStolen
CHECK_DEADLOCK FALSE
