CONSTANTS
  TVCH_MIN = 2
  TVCH_MAX = 4
  ch_freq <- MCFreq
  WildFreq = {57}
  Asked <- NoneAsked
  AskedAntenna = {}
  MaxLost = 0
SPECIFICATION ScanSpec
INVARIANT FindFits
