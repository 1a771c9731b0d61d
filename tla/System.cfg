CONSTANTS
  Versions <- MCVersions
  First = "1.0.0"
  Files = {"kept", "dropped", "added"}
  Has <- MCHas
  MaxUpdates = 3
  MaxErrors = 1
  MaxCrashes = 1
  t1 = t1
  t2 = t2
  p2 = p2
  p3 = p3
  p4 = p4
  Workers <- MCWorkers
  Numbers <- MCNumbers
  Strangers = {2}
  MaxBirths = 3
  MaxHunts = 2
  Keys = {1}
  MaxCommands = 5
  Payloads = {"good", "other"}
  Names <- MCWorkers
  ReleaseKeys = {"key"}
  MaxEvents = 2
  MaxFaults = 1
  ServiceNames = {"s1"}
  MaxControls = 2
  MaxSeen = 2
  MaxFileOps = 3
  MaxMoves = 2
SPECIFICATION SystemSpec
SYMMETRY MCSymmetry
INVARIANTS AllOrNothing UndoAlwaysPossible   ControlIsHonest
PROPERTIES OutcomeIsHonest
CHECK_DEADLOCK FALSE
