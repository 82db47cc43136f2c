SPECIFICATION Spec
CONSTANTS
  Tuners = {t1, t2}
  MaxAnswers = 3
  LIST_GROW = 2
  Interfaces <- MCInterfaces
  ChLists <- MCChLists
  TUNE_TIME = 3
  MaxCall = 1
INVARIANTS TypeOK Accounted ListFits
PROPERTIES NotGivenUpEarly UnaskedOnlyBehind ProbeEnds
CHECK_DEADLOCK FALSE
