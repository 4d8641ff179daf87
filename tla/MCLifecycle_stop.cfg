CONSTANTS
  r1 = r1
  r2 = r2
  x1 = x1
  x2 = x2
  NoInstance = NoInstance
  Requests <- OneRequest
  Instances <- TwoInstances
  AutoStart = TRUE
  MaxUpdates = 1
  MaxErrors = 1
  MaxRestarts = 1
SPECIFICATION FairSpec
CHECK_DEADLOCK FALSE
PROPERTIES StopSilences
