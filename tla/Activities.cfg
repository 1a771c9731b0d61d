CONSTANTS
  t1 = t1
  t2 = t2
  Workers <- MCWorkers
  HookEvents = {"e1"}
  Destinations = {"d1", "d2"}
  MaxAttempts = 2
  MaxPublishes = 2
  MaxChanges = 3
  Principals = {"u1", "root"}
  Admins = {"root"}
  MaxWorkflows = 2
  MaxSteps = 2
  MaxRequests = 3
  EnvSettings <- MCEnvSettings
  MaxSettings = 3
  MaxCalls = 3
  Apis <- MCApis
  AppOf <- MCAppOf
  ActionOf <- MCActionOf
  PathOf <- MCPathOf
  Bound <- MCApis
  Given = {"PARTIAL", "VERIFIED", "DISABLED"}
  MaxLooks = 5
  Windows = {"w1"}
  MaxInputs = 2
  MaxFaults = 2
  Outputs = {"o1", "o2"}
  MaxAsks = 2
  MaxEvents = 2
SPECIFICATION ActivitiesSpec
SYMMETRY MCSymmetry
INVARIANTS    SettingsAreFaithful 
CHECK_DEADLOCK FALSE
