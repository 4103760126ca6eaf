\* A line that is typed before it is read.
CONSTANTS
  PCB_TABLE_SIZE = 2
  PCB_MAX_FDS = 2
  KEYBOARD_BUFFER_SIZE = 3
  Keys = {"D", "ENTER"}
  Lengths = {1, 2}
  MaxTaskRefs = 2
SPECIFICATION Spec
INVARIANTS ReadersServed
