\* Processes that come and go, send to, receive from and wait for one another.
CONSTANTS
  PCB_TABLE_SIZE = 3
  PID_MAX = 6
  SIGNAL_TABLE_SIZE = 2
  Calls = {"CREATE", "YIELD", "STOP", "SEND", "RECV", "WAIT"}
  AnyReceive = FALSE
  StalePids = FALSE
  SleepMs = {}
  HeapWords = {"NULL"}
  MaxFrames = 0
SPECIFICATION Spec
INVARIANTS TypeOK PlacedOnce NeverCorrupt PidNamesSlot WaitsForTheLiving NoMissedRendezvous BlockedResult
PROPERTIES ReadyRuns WaitReleasedByTarget
