SPECIFICATION MCSpec
\* The pipe and the clients stop at their bounds.
CHECK_DEADLOCK FALSE
CONSTANTS
  Reader = {u1, u2}
  Writer = {u2, u3}
  Size = 4
  MaxItems = 12
  Loads = {{"myzero"}, {"aaa"}, {"use_count"}, {"myempty"}, {"markveltzer"},
           {"mynull", "chrdev"}, {"sleep_wakeup", "cant_kill"}, {"irqcatch"}, {"clipboard"},
           {"clipboard_basic"}, {"netdev"}, {"register_dev"}, {"kmem_cache"}, {"netfilter"},
           {"hrtimer"}}
  Poller = {p1, p2}
  Caller = {k1, k2}
  Client = {c1, c2}
  Solutions = {"write", "full"}
  BufSize = 3
  SockSize = 2
  MaxBytes = 3
  Nobody = Nobody
  Quiet = {c2}
INVARIANTS
  TypeOK
  NothingLeft
  EchoedInOrder
PROPERTIES
  RingIsChannel
  PollReturns
  EchoedAll
