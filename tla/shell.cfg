\* Five processes in all, four at a time.
CONSTANTS
  MaxPid = 5
  PCB_TABLE_SIZE = 4
  Lines <- SomeLines
  Names <- SomeNames
  valid_user <- User
  valid_pass <- User
  LineSize = 6
SPECIFICATION Spec
INVARIANTS SessionInv EchoRight ArgumentsIntact CommandsParsed
PROPERTY ConsoleAttended
