CONSTANTS
  e1 = e1
  e2 = e2
  s1 = s1
  s2 = s2
  Executors <- OneExecutor
  Sessions <- TwoSessions
  Owner <- OwnBoth
  NoSession = NoSession
  MaxAttempts = 1
  MaxOpenTries = 1
  RateLimit = FALSE
  WatchdogOn = TRUE
  Dismissable <- OneSession
  LostConfirm = FALSE
  DiskErrors = FALSE
  MaxFailures = 2
  MaxCrashes = 1
SPECIFICATION FairSpec
INVARIANT ReopenOnlyClosed
PROPERTY StrandedReopened
