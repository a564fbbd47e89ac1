SPECIFICATION Spec
CONSTANTS
  Tab = {t1}
  Channel = {a}
  MaxUnderWay = 2
  Popup = popup
  None = None
CHECK_DEADLOCK FALSE
INVARIANT DisabledIsLocal
