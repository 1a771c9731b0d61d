CONSTANTS
  Threads = {t1, t2}
  MaxSavers = 1
  MaxChanges = 4
SPECIFICATION StoreSpec
INVARIANTS StoreTypeOK AcknowledgedSurvives
PROPERTIES SavesAtomically
CHECK_DEADLOCK FALSE
