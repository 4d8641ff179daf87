CONSTANTS
  a = a
  b = b
  s1 = s1
  s2 = s2
  w1 = w1
  w2 = w2
  NoRow = NoRow
  Posters <- TwoPosters
  Mints <- TwoMints
  Wsol = a
  Sessions <- TwoSessions
  N = 2
  Session <- HarvestSession
  Opens <- HarvestOpens
  Deltas <- Harvest
  Fee <- HarvestFee
  Journal <- HarvestJournal
  MaxPasses = 3
  MaxFaults = 1
SPECIFICATION Spec
SYMMETRY Symmetry
CHECK_DEADLOCK FALSE
INVARIANTS TypeOK BalanceIsSumOfPostings PostedAtMostOnce PostedIsStored CapsAreInventory
PROPERTIES OpenNeverOverdraws
