CONSTANTS
  Tvs = {2, 7, 9}
  MaxQueue = 2
  RESET_POLLS = 3
  Tvch = 7
  BUFFER = 2
  MaxDump = 5
SPECIFICATION Spec
CHECK_DEADLOCK FALSE
INVARIANTS
  TypeOK
  DumpKept
  ScanChannelFirst
PROPERTIES
  GetsGoing
