SPECIFICATION FairSpec
CONSTANTS
  Channel = {c1, c2}
  First = c1
  Call = {h1, h2}
  Device = {d0, d1}
  Default = d0
  Other = d1
  None = None
  Loading = Loading
  MaxActions = 2
CHECK_DEADLOCK FALSE
INVARIANTS
  SwitchesAgree
  MicrophoneIsStored
  PopupShowsStore
PROPERTIES
  PopupGivenBack
