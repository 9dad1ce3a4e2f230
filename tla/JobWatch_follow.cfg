CONSTANTS
  v1 = v1
  v2 = v2
  Viewer = {v1}
  MaxLines = 2
  PageSize = 2
  ChanCap = 1
  WireCap = 1
  MaxMissed = 1
  MaxBoots = 1
  MaxLosses = 1
SPECIFICATION FairSpec
INVARIANTS TypeOK NoPanic ChannelInv LinesInOrder FinalIsWhole
PROPERTY SeesTheEnd
CHECK_DEADLOCK FALSE
