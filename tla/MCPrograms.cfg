SPECIFICATION Spec
\* The programs end, or serve a bounded number of requests.
CHECK_DEADLOCK FALSE
CONSTANTS
  Party = {p1, p2, p3}
  Rounds = 2
  NoOne = NoOne
  CpuNums = {1, 2, 3, 4}
  Count = 2
  MaxSize = 1
  Readers = {r1}
  Writers = {w1, w2}
  MAX_FD = 2
  Loops = 2
  PoolThread = {t1, t2, t3}
  Messages = 2
  Nobody = Nobody
  Repeats = 2
  Faults = {"hang"}
  MaxFaults = 3
  Period = 2
  Timeout = 5
  Size = 4
  Last = 9
INVARIANTS
  TypeOK
  ExchangeIsSwap
  WakeupsCoverQueue
  EventfdExclusion
  OneLeader
  ChecksHold
  OnlySilentKilled
  ConsumerNotForgotten
PROPERTIES
  AllMeet
  QueueDrained
  EventfdAllEnd
  PoolServes
  ScriptsEnd
  Respawned
  ImplementsChannel
  AllGot
