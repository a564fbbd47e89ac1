SPECIFICATION FairSpec
CONSTANTS
  Tab = {t1}
  Channel = {a, b}
  MaxUnderWay = 3
  Popup = popup
  None = None
CHECK_DEADLOCK FALSE
INVARIANTS
  ClosedIsLocal
  OnOwnChannel

  
