SPECIFICATION MqSpec
CONSTANTS
  Size = 10
  Last = 25
INVARIANT ProducerNotForgotten
CHECK_DEADLOCK FALSE
