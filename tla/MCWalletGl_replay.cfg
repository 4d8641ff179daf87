CONSTANTS
  a = a
  b = b
  s1 = s1
  s2 = s2
  w1 = w1
  w2 = w2
  NoRow = NoRow
  Posters <- OnePoster
  Mints <- TwoMints
  Wsol = a
  Sessions <- TwoSessions
  N = 2
  Session <- FirstOpenSession
  Opens <- FirstRow
  Deltas <- FirstOpen
  Fee <- NoFees
  Journal <- NoJournal
  MaxPasses = 3
  MaxFaults = 0
SPECIFICATION Spec
CHECK_DEADLOCK FALSE
PROPERTIES IdempotentOnEventId
