CONSTANTS
  TVCH_MIN = 1
  TVCH_MAX = 3
  ch_freq <- MCFreq
  WildFreq = {900}
  Asked <- MCAsked
  AskedAntenna = {0, 2, 3}
  MaxLost = 1
SPECIFICATION Spec
INVARIANTS
  TypeOK
  HardwareFollowsRecord
  TunedToRecord
  InputFollowsAntenna
  NoBacklog
PROPERTY OneChannelAtATime
