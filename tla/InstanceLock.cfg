CONSTANTS
  Procs = {p1, p2, p3}
  ReclaimAttempts = 2
  MaxContenders = 3
  Disruptions = {"crash", "release", "slow", "leftover", "io"}
SPECIFICATION FairSpec
INVARIANTS AtMostOneHolder AloneGetsTheLock
PROPERTIES StartDecides
CHECK_DEADLOCK FALSE
