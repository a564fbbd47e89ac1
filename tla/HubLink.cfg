SPECIFICATION FairSpec
CONSTANTS
  Call = {c1, c2, c3}
  None = None
CHECK_DEADLOCK FALSE
INVARIANTS
  ConnectedMeansGreeted
  NothingWaitsOnNoLink
PROPERTIES
  GreetedLinkKept
  EveryCallReturns
