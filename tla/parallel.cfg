\* A scanner that is also the weekly packer, a daily packer and a reaper at once;
\* a process dies once, and the client hides failed HEADs and refused DELETEs.
SPECIFICATION Spec
CONSTANTS
  Objects = {"f", "d", "x"}
  Jobs = {"week", "day"}
  Rows = {1, 2}
  Type <- WeekAndDayType
  RowOf <- WeekAndDayRow
  Window <- WeekAndDayWindow
  Compressed = {"week", "day"}
  Scanners = {"k"}
  Packers = {"k", "l"}
  JobsOf <- OwnJob
  Reapers = {"r"}
  MaxVersion = 1
  MaxCrashes = 1
  Rescans = FALSE
  AllowUncovered = TRUE
  Faults = {"head", "delete"}
  Early = {"f", "d"}
  ExternalDelete = FALSE
  NoJob = NoJob
  NoRow = NoRow
  NoObject = NoObject
INVARIANTS
  AttachedIsArchived
  CarriedIntoArchive
  RowMatchesFile
  DeleteIsSafe
  DeletedIsKept
PROPERTIES
  KeepsCustody
CHECK_DEADLOCK FALSE
