SPECIFICATION FairSpec
CONSTANTS
  p1 = p1
  p2 = p2
  p3 = p3
  NoProc = NoProc
  Proc = {p1, p2, p3}
  Size = 3
  Modes <- TwoReadersOneWriter
  MaxCount = 2
  MaxSent = 4
  Interruptible = {}
  Faulty = {}
INVARIANTS NoLostWakeup
PROPERTIES ReadReturns WriteReturns
CHECK_DEADLOCK FALSE
