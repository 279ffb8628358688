\* Two sessions over archives that share an object, one command at a time, killed
\* once, beside the reaper.
SPECIFICATION Spec
CONSTANTS
  Objects = {"x", "y"}
  Manifest = "m"
  Archives = {"a1", "a2"}
  Members <- SharedMembers
  Unreadable = {"a2"}
  Sessions = {"s1", "s2"}
  Plan <- OneArchiveEach
  Operators = {"p"}
  Faults = {}
  MaxExecutes = 1
  MaxCrashes = 1
  NoKey = NoKey
  NoSession = NoSession
INVARIANTS
  TypeOK
  BackupsUntouched
  CleansOwnUploads
  CleanedIsComplete
  RestoredIsUsable
  UploadInv
  CleanInv
PROPERTIES
  KeepsTenancy
CHECK_DEADLOCK FALSE
