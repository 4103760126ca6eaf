\* Two processes that share the keyboard, end and come back; no line ends.
CONSTANTS
  PCB_TABLE_SIZE = 2
  PCB_MAX_FDS = 2
  KEYBOARD_BUFFER_SIZE = 3
  Keys = {"D", "CTRL"}
  Lengths = {1, 2}
  MaxTaskRefs = 2
SPECIFICATION Spec
INVARIANTS DriverInv WritesContained ReadersServed
PROPERTIES TypeAheadFifo ZeroMeansEof
