CONSTANTS
  root = root
  user = user
  n1 = n1
  n2 = n2
  w1 = w1
  w2 = w2
  Keys <- MCKeys
  Apps = {"app"}
  Workers <- MCWorkers
  Lists <- MCLists
  Placeholders = {}
  MaxCalls = 3
  MaxSessions = 2
  MaxRestarts = 1
SYMMETRY MCSymmetry
SPECIFICATION Spec
INVARIANTS AtMostOneLateEffect RotationIsSound
PROPERTIES SettingsKeyStaysRevoked
CHECK_DEADLOCK FALSE
