CONSTANTS
  TVCH_MIN = 2
  TVCH_MAX = 4
  ch_freq <- MCFreq
  WildFreq = {57}
  Asked <- NoneAsked
  AskedAntenna = {0}
  MaxLost = 1
SPECIFICATION ScanSpec
INVARIANTS
  ScanTypeOK
  PassCoversTable
  Restored12a
  ListIsWhatLocked
  ListOfLastAntenna
PROPERTIES
  ScanAdvances
  ScanReturns
