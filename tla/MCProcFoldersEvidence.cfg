SPECIFICATION Spec
CONSTANTS
  Procs = {1}
  NamesOf <- OneName
  Plain = "plain"
  Openers = {1}
  Known = {FALSE, TRUE}
  MaxOpens = 2
  MaxJobs = 1
  MaxAnswers = 1
  MaxCrashes = 0
  Overwrites = {FALSE, TRUE}
PROPERTY EvidenceKept
CHECK_DEADLOCK FALSE
