CONSTANTS
  TVCH_MIN = 2
  TVCH_MAX = 51
  ch_freq <- RealFreq
  WildFreq = {}
  Asked <- SevenAsked
  AskedAntenna = {1}
  MaxLost = 0
SPECIFICATION Spec
INVARIANT TunesTheNamedChannel
