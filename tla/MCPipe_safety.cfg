SPECIFICATION Spec
CONSTANTS
  p1 = p1
  p2 = p2
  p3 = p3
  NoProc = NoProc
  Proc = {p1, p2, p3}
  Size = 3
  Modes <- MixedModes
  MaxCount = 2
  MaxSent = 4
  Interruptible = {}
  Faulty = {p1, p2, p3}
SYMMETRY OthersSymmetry
INVARIANTS TypeOK MutualExclusion Fifo BugOnNeverFires
PROPERTIES ChunksOfOneCall EofMeansNoWriter ImplementsChannel
CHECK_DEADLOCK FALSE
