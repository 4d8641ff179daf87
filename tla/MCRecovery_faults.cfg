CONSTANTS
  e1 = e1
  e2 = e2
  s1 = s1
  s2 = s2
  Executors <- TwoExecutors
  Sessions <- TwoSessions
  Owner <- OwnEach
  NoSession = NoSession
  MaxAttempts = 2
  MaxOpenTries = 2
  RateLimit = TRUE
  WatchdogOn = FALSE
  Dismissable <- NoDismissals
  LostConfirm = TRUE
  DiskErrors = TRUE
  MaxFailures = 2
  MaxCrashes = 1
SPECIFICATION Spec
INVARIANTS TypeOK ClaimsExact ReservationExact ReopenOnlyClosed DuplicateNeedsFault
