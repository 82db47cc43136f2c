CONSTANTS
  Tvs = {2, 7, 9}
  MaxQueue = 1
  RESET_POLLS = 2
  Strong <- MCStrong
  POLLS = 2
SPECIFICATION Spec
CHECK_DEADLOCK FALSE
INVARIANT OwnVct
