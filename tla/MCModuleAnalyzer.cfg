SPECIFICATION Spec
CONSTANTS
  MaxItem = 2
  Commands = 0
  Addrs = {1, 2}
  Regions = 1
  MaxFloating = 1
  TaskChoices <- AnalyzeOnly
  UserEvents = {"ask", "switch", "close", "exit"}
  MayFail = FALSE
INVARIANTS TypeOK ActiveExists MarkIsOwn
CHECK_DEADLOCK FALSE
