SPECIFICATION Spec
CONSTANTS
  MaxItem = 1
  Commands = 0
  Addrs = {1, 2}
  Regions = 1
  MaxFloating = 1
  TaskChoices <- AnalyzeOnly
  UserEvents = {"switch", "close"}
  MayFail = FALSE
INVARIANT ClosedIsCancelled
CHECK_DEADLOCK FALSE
