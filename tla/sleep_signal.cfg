\* A signal takes a sleeping process out of the delta queue.
CONSTANTS
  PCB_TABLE_SIZE = 3
  PID_MAX = 3
  SIGNAL_TABLE_SIZE = 2
  Calls = {"CREATE", "SLEEP", "KILL"}
  AnyReceive = FALSE
  StalePids = FALSE
  SleepMs = {10, 20}
  HeapWords = {"NULL"}
  MaxFrames = 1
SPECIFICATION Spec
PROPERTIES ImplementsTimers
