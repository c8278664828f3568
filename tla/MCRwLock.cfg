SPECIFICATION FairSpec
CONSTANTS
  r1 = r1
  r2 = r2
  w1 = w1
  w2 = w2
  Reader = {r1, r2}
  Writer = {w1, w2}
  Variants <- AllVariants
  Loops = 2
INVARIANTS TypeOK WriterAlone AssertionsHold UnlockKnowsItsCaller NobodyLeftAsleep
PROPERTY AllJoined
