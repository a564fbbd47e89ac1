SPECIFICATION FairSpec
CONSTANTS
  MaxJoins = 1
  MaxRestarts = 1
CHECK_DEADLOCK FALSE
INVARIANTS
  TrackOfPeer
  WaitersHaveReason
  SenderFollows
  InactiveIsAlone
PROPERTIES
  JoinedHears
