\* Two threads, a chain that grows to height 3, one fault, one exit, one restart.
SPECIFICATION Spec
CONSTANTS
  Threads = 2
  FirstHeight = 0
  FirstBest = 2
  MaxBest = 3
  Pad = 0
  MaxFaults = 1
  MaxExits = 1
  MaxRestarts = 1
INVARIANTS TypeOK Accounted CounterExact NoGapWhenDone
PROPERTY SyncEnds
CHECK_DEADLOCK FALSE
