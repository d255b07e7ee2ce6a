SPECIFICATION ConsoleSpec
CONSTANTS
  MaxItem = 1
  Commands = 2
  Addrs = {1}
  Regions = 0
  MaxFloating = 1
  TaskChoices <- BothTasks
  UserEvents = {"exit"}
  MayFail = TRUE
  TargetLists <- OneTarget
INVARIANTS Settled ExitTells
 
