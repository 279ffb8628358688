\* Two packers of one week share its staging directory.
SPECIFICATION FairSpec
CONSTANTS
  Objects = {"f", "x"}
  Jobs = {"week"}
  Rows = {1}
  Type <- SmallType
  RowOf <- SmallRow
  Window <- SmallWindow
  Compressed = {"week"}
  Scanners = {"k"}
  Packers = {"k", "l"}
  JobsOf <- AnyJob
  Reapers = {}
  MaxVersion = 1
  MaxCrashes = 0
  Rescans = TRUE
  AllowUncovered = TRUE
  Faults = {}
  Early = {"f", "x"}
  ExternalDelete = TRUE
  NoJob = NoJob
  NoRow = NoRow
  NoObject = NoObject
PROPERTIES
  CommandsEnd
CHECK_DEADLOCK FALSE
