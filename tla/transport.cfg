\* Two commands with a call each on one key, one retry and one redirect, and one
\* abandoned copy of a request.
SPECIFICATION FairSpec
CONSTANTS
  Procs = {"p", "q"}
  Keys = {1}
  Values = {"a"}
  Requests <- OneKey
  MaxRetry = 1
  MaxRedirect = 2
  PageSize = 1
  MaxCalls = 1
  MaxStray = 1
  Absent = Absent
  NoCall = NoCall
INVARIANTS
  TypeOK
  AttemptsBounded
  SolePutIsThere
PROPERTIES
  KeepsPromise
  CallsEnd
CHECK_DEADLOCK FALSE
