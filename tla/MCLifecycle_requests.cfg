CONSTANTS
  r1 = r1
  r2 = r2
  x1 = x1
  x2 = x2
  NoInstance = NoInstance
  Requests <- TwoRequests
  Instances <- TwoInstances
  AutoStart = TRUE
  MaxUpdates = 1
  MaxErrors = 1
  MaxRestarts = 1
SPECIFICATION Spec
SYMMETRY Symmetry
CHECK_DEADLOCK FALSE
INVARIANTS TypeOK ListedLoopLives NoOrphanLoop RunningIffListed CurrentConfig
