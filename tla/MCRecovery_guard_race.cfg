CONSTANTS
  e1 = e1
  e2 = e2
  s1 = s1
  s2 = s2
  Executors <- TwoExecutors
  Sessions <- OneSession
  Owner <- OwnOne
  NoSession = NoSession
  MaxAttempts = 2
  MaxOpenTries = 1
  RateLimit = FALSE
  WatchdogOn = TRUE
  Dismissable <- NoDismissals
  LostConfirm = FALSE
  DiskErrors = FALSE
  MaxFailures = 0
  MaxCrashes = 0
SPECIFICATION Spec
INVARIANT AtMostOneOpen
