SPECIFICATION Spec
CONSTANTS
  Procs = {1, 2}
  NamesOf <- TwoNames
  Plain = "plain"
  Openers = {1}
  Known = {FALSE, TRUE}
  MaxOpens = 2
  MaxJobs = 1
  MaxAnswers = 1
  MaxCrashes = 1
  Overwrites = {FALSE}
INVARIANTS TypeOK   
 
CHECK_DEADLOCK FALSE
