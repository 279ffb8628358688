\* A key is written a second time, or deleted by somebody else, at any moment;
\* no object is scanned twice.
SPECIFICATION Spec
CONSTANTS
  Objects = {"f", "x"}
  Jobs = {"week", "day"}
  Rows = {1, 2}
  Type <- SmallType
  RowOf <- SmallDayRow
  Window <- SmallDayWindow
  Compressed = {"week", "day"}
  Scanners = {"k"}
  Packers = {"k"}
  JobsOf <- AnyJob
  Reapers = {"r"}
  MaxVersion = 2
  MaxCrashes = 1
  Rescans = FALSE
  AllowUncovered = TRUE
  Faults = {}
  Early = {"f", "x"}
  ExternalDelete = TRUE
  NoJob = NoJob
  NoRow = NoRow
  NoObject = NoObject
INVARIANTS
  ApprovedIsKept
CHECK_DEADLOCK FALSE
