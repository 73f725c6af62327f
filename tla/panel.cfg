SPECIFICATION Spec
CONSTANTS
  StablePolls = 2
  FullRead = 2
  FirstSupply = "Powered"
  None = None
  Point <- MCPoint
  PanelAction = {"Shutdown"}
  Texts = {"sent"}
  Locked = "rejected"
  SleepTimeout = 1
  ToastTtl = 1
  DayMinutes = 2
  MaxNow = 2
  MaxEvents = 3
INVARIANTS ShownIsCurrent OneTouchOnePress
PROPERTIES PowerNoticeSteady
