CONSTANTS
  Apis = {a1, a2}
  Workers = {w1, w2}
  MaxInFlight = 2
  MaxAge = 1
  MaxTime = 3
  MaxTests = 2
  Handlers = {"create", "test", "verify", "publish", "disable", "demote", "restart"}
SPECIFICATION Spec
SYMMETRY MCSymmetry
INVARIANTS TypeOK EvidenceIsGenuine WithdrawalSticks
PROPERTIES VerifiedIsEarned
CHECK_DEADLOCK FALSE
