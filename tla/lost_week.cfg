\* The weekly job, killed once.
SPECIFICATION SchedulerSpec
CONSTANTS
  Objects = {"f", "d", "x", "m"}
  Jobs = {"w1", "w2"}
  Rows = {1, 2}
  Type <- TwoWeeksType
  RowOf <- TwoWeeksRow
  Window <- TwoWeeksWindow
  Compressed = {"w1", "w2"}
  Scanners = {"cron"}
  Packers = {"cron"}
  JobsOf <- AnyJob
  Reapers = {}
  MaxVersion = 1
  MaxCrashes = 1
  Rescans = TRUE
  AllowUncovered = TRUE
  Faults = {}
  Early = {"f", "d", "x", "m"}
  ExternalDelete = FALSE
  NoJob = NoJob
  NoRow = NoRow
  NoObject = NoObject
  WeekOf <- TwoWeeksDate
  Worker = "cron"
  PackAll = TRUE
PROPERTIES
  QueuedIsArchived
