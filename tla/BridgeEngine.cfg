SPECIFICATION Spec
CONSTANTS
  Tab = {t1, t2, t3}
  Channel = {a, b}
  Call = {k1, k2}
  None = None
  MaxMuted = 1
  Sites <- SiteMixes
SYMMETRY Symmetry
CHECK_DEADLOCK FALSE
INVARIANTS
  MutedMeansSilent
  MatrixIsNMinusOne
  StaleIsToBlame
  ChannelsIsolated
CONSTRAINT Few
