\* A listing of two keys where a page holds one, beside a delete.
SPECIFICATION Spec
CONSTANTS
  Procs = {"p", "q"}
  Keys = {1, 2}
  Values = {"a"}
  Requests <- Listing
  MaxRetry = 1
  MaxRedirect = 2
  PageSize = 1
  MaxCalls = 1
  MaxStray = 1
  Absent = Absent
  NoCall = NoCall
INVARIANTS
  ListsEveryKey
CHECK_DEADLOCK FALSE
