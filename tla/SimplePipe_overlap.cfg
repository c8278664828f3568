SPECIFICATION Spec
\* The pipe stops at its bound.
CHECK_DEADLOCK FALSE
CONSTANTS
  Reader = {r1}
  Writer = {w1}
  Size = 3
  MaxItems = 6
INVARIANT ReadAsWritten
