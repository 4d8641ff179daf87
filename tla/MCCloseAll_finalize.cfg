CONSTANTS
  b1 = b1
  b2 = b2
  p1 = p1
  p2 = p2
  q1 = q1
  s1 = s1
  s2 = s2
  w1 = w1
  NoWallet = NoWallet
  NoPos = NoPos
  NoStrategy = NoStrategy
  Batches <- OneBatch
  Pos <- TwoOld
  Fresh = {}
  Strategies <- OneStrategy
  Owner <- OldManaged
  Links0 <- AllLinked
  Scopes <- AllScopes
  Viewed <- OldOnes
  Modes = {"send_first", "confirm_each"}
  Pause = TRUE
  SlippageBps = 200
  MaxAttempts = 2
  Faults = {}
SPECIFICATION Spec
CHECK_DEADLOCK FALSE
INVARIANTS LandedIsNotFailed
