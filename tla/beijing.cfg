\* The same backups, a target given in Beijing time.
SPECIFICATION Spec
CONSTANTS
  Objects = {"f", "g", "d", "x"}
  Folder <- Folders4
  Type <- Types4
  Stamp <- Stamps4
  Instants <- FromFriday
  Policies <- TwoPolicies
  ForwardHours = 6
  MaxPuts <- Puts4
  Early = {"f", "x"}
  MaxScans = 1
  MaxArchives = 0
  Never = Never
  NoRow = NoRow
  Open = Open
INVARIANTS
  PlanStartsBeforeTarget
CHECK_DEADLOCK FALSE
