\* A full on either side of the midnight at which a week starts, a diff of that very
\* instant and an xlog written twice; two scans, two archives, a policy that changes.
SPECIFICATION Spec
CONSTANTS
  Objects = {"f", "g", "d", "x"}
  Folder <- Folders4
  Type <- Types4
  Stamp <- Stamps4
  Instants <- FromFriday
  Policies <- TwoPolicies
  ForwardHours = 6
  MaxPuts <- Puts4
  Early = {"f", "x"}
  MaxScans = 2
  MaxArchives = 2
  Never = Never
  NoRow = NoRow
  Open = Open
INVARIANTS
  TypeOK
  PendingIsSelected
  CarriedOnce
  ChainsCover
  PlanUsesLatestBase
  PlanCarriesWhatIsArchived
CHECK_DEADLOCK FALSE
