CONSTANTS
  Threads = {"a", "b"}
  EnvSettings <- MCEnv
  MaxSettings = 4
  MaxCalls = 4
SPECIFICATION Spec
INVARIANTS NoCircularWait
CHECK_DEADLOCK FALSE
