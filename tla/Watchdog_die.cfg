SPECIFICATION WatchSpec
\* The watchdog ends when it is told to, or in a failed check.
CHECK_DEADLOCK FALSE
CONSTANTS
  Faults = {"die"}
  MaxFaults = 1
  Period = 2
  Timeout = 5
PROPERTY Respawned
