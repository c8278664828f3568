SPECIFICATION Spec
CONSTANTS
  p1 = p1
  p2 = p2
  p3 = p3
  NoProc = NoProc
  Proc = {p1, p2}
  Size = 3
  Modes <- OneReaderOneWriter
  MaxCount = 2
  MaxSent = 4
  Interruptible = {p1}
  Faulty = {}
INVARIANT MutualExclusion
CHECK_DEADLOCK FALSE
