SPECIFICATION Spec
CONSTANTS
  None = None
  Unreadable = Unreadable
  NotText = NotText
  Missing = Missing
  MaxOps = 4
  MaxCalls = 2
  MaxPages = 3
  MaxMtime = 2
INVARIANTS
  PagesMakeDocument
  StaleOnlyIfRacedOrQuiet
PROPERTY ChangeIsLoaded
CHECK_DEADLOCK FALSE
