SPECIFICATION FairSpec
CONSTANTS
  v1 = v1
  v2 = v2
  Values <- MCValues
  MaxOwed = 3
INVARIANT TypeOK
PROPERTY Remote
PROPERTY CallReturns
CHECK_DEADLOCK FALSE
