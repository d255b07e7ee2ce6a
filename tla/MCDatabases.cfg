SPECIFICATION MCSpec
CONSTANTS
  Addrs = {1, 2, 3}
  Builds = {"m", "a", "b", "c"}
  Main = "m"
  Targets = {"a", "b"}
  BaseOf <- MCBase
  SizeOf <- MCSize
  FileOf <- MCFile
  Comments = {"x"}
  NoInfo = NoInfo
  NoBuild = NoBuild
  MaxCrashes = 1
  MaxLoads = 1
  MaxTasks = 2
  MaxReloads = 1
  Regions = {1, 2}
  Entries = {1, 2}
  Source = Source
  SourceLeads <- MCSourceLeads
  Leads <- MCLeads
  MaxBytes = 2
  NoRegion = NoRegion
  MaxKTasks = 2
  MaxTroubles = 2
  FMain = 1
  FDeps = {2}
  NoRecord = NoRecord
  Raw = {TRUE, FALSE}
  MaxFTasks = 3
  MaxFEnds = 2
  Openers = {"p", "q"}
  NoOpener = "none"
  Versions = {0, 2, 4, 5, 6}
  Forces = {TRUE, FALSE}
  Keeps = {TRUE, FALSE}
  MaxEnds = 1
  Images <- MCImages
  MaxSeeds = 2
  NoCode = NoCode
INVARIANTS ItemTypeOK    SchemaTells   OwnerTells RootsFound
PROPERTIES CommentsStay SavedStays DatabasesRest
CHECK_DEADLOCK FALSE
