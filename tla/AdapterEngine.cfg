CONSTANTS
  t1 = t1
  t2 = t2
  Threads <- MCThreads
  Contents = {"c1", "c2"}
  MaxTimes = 2
  MaxCalls = 2
  MaxObjects = 2
  MaxEvents = 1
SYMMETRY MCSymmetry
SPECIFICATION Spec
INVARIANTS VerifiedIsGenuine ManifestFollows NoCircularWait
CHECK_DEADLOCK FALSE
