\* A receiver from any process, and a sender to a third process.
CONSTANTS
  PCB_TABLE_SIZE = 3
  PID_MAX = 3
  SIGNAL_TABLE_SIZE = 2
  Calls = {"CREATE", "SEND", "RECV"}
  AnyReceive = TRUE
  StalePids = FALSE
  SleepMs = {}
  HeapWords = {"NULL"}
  MaxFrames = 0
SPECIFICATION Spec
INVARIANTS NeverCorrupt
