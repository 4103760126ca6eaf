\* Signals that interrupt one another's handlers, in processes that change their handlers; signal tables hold what the heap held.
CONSTANTS
  PCB_TABLE_SIZE = 2
  PID_MAX = 2
  SIGNAL_TABLE_SIZE = 3
  Calls = {"CREATE", "KILL", "SIGHANDLER", "SIGRETURN"}
  AnyReceive = FALSE
  StalePids = FALSE
  SleepMs = {}
  HeapWords = {"NULL", "junk"}
  MaxFrames = 2
SPECIFICATION Spec
INVARIANTS EnabledAreInProgress
PROPERTIES HandlersKeepBits
