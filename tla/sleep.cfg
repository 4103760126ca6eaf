\* Sleepers of equal and of different lengths, and processes that come and go.
CONSTANTS
  PCB_TABLE_SIZE = 4
  PID_MAX = 4
  SIGNAL_TABLE_SIZE = 2
  Calls = {"CREATE", "STOP", "SLEEP"}
  AnyReceive = FALSE
  StalePids = FALSE
  SleepMs = {10, 15, 25}
  HeapWords = {"NULL"}
  MaxFrames = 0
SPECIFICATION Spec
PROPERTIES ImplementsTimers SleepReturnsZero SleepersWake
