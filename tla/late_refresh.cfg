\* A key written again is also scanned again.
SPECIFICATION Spec
CONSTANTS
  Objects = {"f", "d", "x"}
  Jobs = {"week", "day"}
  Rows = {1, 2}
  Type <- WeekAndDayType
  RowOf <- WeekAndDayRow
  Window <- WeekAndDayWindow
  Compressed = {"week", "day"}
  Scanners = {"p"}
  Packers = {"p"}
  JobsOf <- AnyJob
  Reapers = {"p"}
  MaxVersion = 2
  MaxCrashes = 0
  Rescans = TRUE
  AllowUncovered = TRUE
  Faults = {}
  Early = {"f", "d"}
  ExternalDelete = FALSE
  NoJob = NoJob
  NoRow = NoRow
  NoObject = NoObject
INVARIANTS
  ApprovedIsKept
CHECK_DEADLOCK FALSE
