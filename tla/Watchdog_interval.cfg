SPECIFICATION Spec
CONSTANTS
  Interval = 4
  Timeout = 1
  Hour = 12
  MinCalls = 2
  ShutdownDelay = 2
  KillDelay = 1
  CloseLimit = 1
  Startup = 1
  MaxBroken = 0
  None = None
INVARIANTS EveryInterval
