SPECIFICATION EchoSpec
\* The clients stop at their bound.
CHECK_DEADLOCK FALSE
CONSTANTS
  Client = {c1, c2}
  Solutions = {"full"}
  BufSize = 3
  SockSize = 2
  MaxBytes = 1
  Nobody = Nobody
PROPERTY ClosedForCause
