SPECIFICATION FairSpec
CONSTANTS
  Workers = {w1, w2, w3, w4}
INVARIANTS
  NodesAreWorkers
  DropMissesNone
PROPERTIES
  NoBusyLoop
  DropTerminates
