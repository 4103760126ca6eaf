\* Memory for two processes and a half, in two regions; stacks of three sizes.
CONSTANTS
  PARAGRAPH_SIZE = 2
  HEADER = 2
  freemem = 5
  HOLESTART = 20
  HOLEEND = 24
  maxaddr = 41
  KERNEL_STACK = 3
  PCB_TABLE_SIZE = 2
  DEFAULT_STACK_SIZE = 2
  SignalTableBytes = 1
  BootSizes <- Boot
  StackSizes = {0, 3, 5}
SPECIFICATION Spec
INVARIANTS HeapInv BlocksReturned BlocksAreValid
PROPERTIES CallsReturn ImplementsAllocator
