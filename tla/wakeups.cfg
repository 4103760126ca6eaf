\* Signals to processes that are blocked in system calls or on a device, also when they made the call in a handler, among the calls that only return a value.
CONSTANTS
  PCB_TABLE_SIZE = 2
  PID_MAX = 2
  SIGNAL_TABLE_SIZE = 2
  Calls = {"CREATE", "STOP", "GETPID", "PUTS", "CPUTIMES", "KILL", "SIGRETURN", "SIGHANDLER", "SEND", "RECV", "WAIT", "SLEEP", "OPEN", "CLOSE", "WRITE", "READ", "IOCTL"}
  AnyReceive = FALSE
  StalePids = FALSE
  SleepMs = {10}
  HeapWords = {"NULL"}
  MaxFrames = 1
SPECIFICATION Spec
INVARIANTS NoSignalStranded
PROPERTIES AssertsOnlyForReaders KillEnds
