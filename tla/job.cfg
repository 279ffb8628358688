\* The weekly job over two weeks, killed once, beside a reaper, which may start
\* while objects are being attached; one full is there before the job first runs.
SPECIFICATION SchedulerSpec
CONSTANTS
  Objects = {"f", "d", "x", "m"}
  Jobs = {"w1", "w2"}
  Rows = {1, 2}
  Type <- TwoWeeksType
  RowOf <- TwoWeeksRow
  Window <- TwoWeeksWindow
  Compressed = {"w1", "w2"}
  Scanners = {"cron"}
  Packers = {"cron"}
  JobsOf <- AnyJob
  Reapers = {"r"}
  MaxVersion = 1
  MaxCrashes = 1
  Rescans = TRUE
  AllowUncovered = TRUE
  Faults = {}
  Early = {"f", "m"}
  ExternalDelete = FALSE
  NoJob = NoJob
  NoRow = NoRow
  NoObject = NoObject
  WeekOf <- TwoWeeksDate
  Worker = "cron"
  PackAll = TRUE
INVARIANTS
  SchedulerTypeOK
  DeletedIsGone
PROPERTIES
  StatusMovesForward
  PendingWeekIsPacked
  EarlyIsArchived
