SPECIFICATION Spec
CONSTANTS
  n1 = n1
  n2 = n2
  NoBeat = NoBeat
  Node <- Nodes
  Lease = 1
  MaxTime = 2
  MaxQueued = 2
SYMMETRY Symmetry
INVARIANTS TypeOK OneSyncingNode
PROPERTIES TakeoverAfterSilence
CHECK_DEADLOCK FALSE
