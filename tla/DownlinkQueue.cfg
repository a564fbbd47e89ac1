SPECIFICATION FairSpec
CONSTANTS
  MaxFrames = 2
  MaxAge = 1
  MaxTime = 3
  LastFrame = 4
CHECK_DEADLOCK FALSE
INVARIANTS
  NoLostWakeup
PROPERTIES
  DeliveredFresh
  ChannelImplemented
