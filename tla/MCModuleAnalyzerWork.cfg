SPECIFICATION Spec
CONSTANTS
  MaxItem = 1
  Commands = 1
  Addrs = {1}
  Regions = 2
  MaxFloating = 1
  TaskChoices <- AnalyzeOnly
  UserEvents = {"close", "cancel"}
  MayFail = TRUE
INVARIANTS FloatingServed
PROPERTIES PassesEnd ClosedIsFreed
CHECK_DEADLOCK FALSE
