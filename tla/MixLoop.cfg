SPECIFICATION Spec
CONSTANTS
  Frame = 2
  MaxCatchUp = 2
  Prebuffer = 2
  MaxQueued = 3
  MaxAge = 3
  MaxTime = 7
  LastFrame = 5
CHECK_DEADLOCK FALSE
INVARIANTS
  SequenceTellsTime
  EveryFrameAccounted
PROPERTIES
  DeadlineAhead
  PlayedOnceInOrder
  PlayedFresh
