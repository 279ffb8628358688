\* One command at a time on one host, killed up to twice; the day is a directory
\* archive, and the OBS client may hide that a HEAD or a DELETE failed.
SPECIFICATION Spec
CONSTANTS
  Objects = {"f", "d", "x"}
  Jobs = {"week", "day"}
  Rows = {1, 2}
  Type <- WeekAndDayType
  RowOf <- WeekAndDayRow
  Window <- WeekAndDayWindow
  Compressed = {"week"}
  Scanners = {"p"}
  Packers = {"p"}
  JobsOf <- AnyJob
  Reapers = {"p"}
  MaxVersion = 1
  MaxCrashes = 2
  Rescans = TRUE
  AllowUncovered = TRUE
  Faults = {"head", "delete"}
  Early = {"f", "d"}
  ExternalDelete = FALSE
  NoJob = NoJob
  NoRow = NoRow
  NoObject = NoObject
INVARIANTS
  TypeOK
  ReapOrder
  AttachedIsArchived
PROPERTIES
  StatusMovesForward
CHECK_DEADLOCK FALSE
