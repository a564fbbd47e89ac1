SPECIFICATION Spec
CONSTANTS
  Tab = {t1}
  Channel = {a}
  Call = {k1, k2}
  None = None
  MaxMuted = 0
  Sites <- OneSource
CHECK_DEADLOCK FALSE
INVARIANT CapturedIsLive
