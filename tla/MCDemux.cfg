CONSTANTS
  Pids = {1, 2}
  SecLen <- MCSecLen
  Room = 5
  MaxSlen = 9
  max_pkt_len = 10
  Skips = {0, 3}
  MaxFaults = 2
SPECIFICATION Spec
CHECK_DEADLOCK FALSE
INVARIANTS
  FitsBuffer
  HoldsIncomplete
  CollectsAllocated
  CleanSectionIsParsed
PROPERTY ParsesNothingElse
