CONSTANTS
  Procs = {server, cli}
  MaxEntries = 2
  MaxIds = 4
  MaxFaults = 2
SPECIFICATION Spec
SYMMETRY Symmetry
INVARIANTS TypeOK ChainVerifies FileBounded RetentionKeepsNewest
CHECK_DEADLOCK FALSE
