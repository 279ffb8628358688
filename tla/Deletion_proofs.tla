-------------------------- MODULE Deletion_proofs --------------------------
(***************************************************************************)
(* Proofs about the statuses of objects, for every value of the constants. *)
(*                                                                         *)
(* What is marked obs_deleted is out of the bucket, as long as the OBS     *)
(* client hides no failure: a deleted key never comes back, because a key  *)
(* is in the catalog, and in the hands of a process, only after GaussDB    *)
(* uploaded it, and GaussDB uploads a key anew only as long as the bucket  *)
(* holds it.                                                               *)
(*                                                                         *)
(* When commands run one after another, statuses only move forward, and    *)
(* the types of a daily archive are deleted in the order of gate 4.        *)
(***************************************************************************)
EXTENDS ArchiveSystem_proofs

\* DeletedIsGone made inductive.
GoneInv == DeletedIsGone /\ KnownWasUploaded

\* Nothing is in the catalog of the initial state.
LEMMA InitGone == Init => GoneInv
BY SystemAssumption
DEF Init, StorageInit, GoneInv, DeletedIsGone, KnownWasUploaded, Uploaded,
    OnObject

\* A scan lists what is in the bucket; a promotion goes through rows.
LEMMA ScanningGone ==
  ASSUME TypeInv, GoneInv, NEW p \in Procs, Scanning(p)
  PROVE  GoneInv'
<1> USE DEF GoneInv, DeletedIsGone, KnownWasUploaded, Uploaded, OnObject,
    TypeInv, TypeOK, StorageTypeOK, BucketTypeOK, CatalogTypeOK, ControlTypeOK,
    ControlOK, Goto, Return, bucketVars, objectVars, rowVars, diskVars,
    controlVars, Scanning
<1>1. ASSUME NEW o \in Objects, ListObject(p, o) PROVE GoneInv'
  BY <1>1 DEF ListObject
<1>2. ASSUME NEW o \in Objects, PromoteWrite(p, o) PROVE GoneInv'
  BY <1>2 DEF PromoteWrite
<1>3. CASE SkipDeleted(p)
  BY <1>3 DEF SkipDeleted, ScannerReturn
<1>4. CASE AcceptListed(p)
  BY <1>4 DEF AcceptListed
<1>5. CASE UpsertListed(p)
  BY <1>5 DEF UpsertListed, ScannerReturn, RowAfterScan
<1>6. CASE PromoteList(p)
  BY <1>6 DEF PromoteList, Discovered
<1>7. CASE PromoteEnd(p)
  BY <1>7 DEF PromoteEnd, ScannerReturn
<1> QED
  BY <1>1, <1>2, <1>3, <1>4, <1>5, <1>6, <1>7 DEF ScannerStep

\* A packer lists objects with a row and makes none of them obs_deleted.
LEMMA PackingGone ==
  ASSUME TypeInv, GoneInv, NEW p \in Procs, Packing(p)
  PROVE  GoneInv'
<1> USE DEF GoneInv, DeletedIsGone, KnownWasUploaded, Uploaded, OnObject,
    TypeInv, TypeOK, StorageTypeOK, BucketTypeOK, CatalogTypeOK, ControlTypeOK,
    ControlOK, Goto, Return, bucketVars, objectVars, rowVars, diskVars,
    controlVars, Packing, PackerReturn
<1>1. ASSUME NEW j \in Jobs, BeginPack(p, j) PROVE GoneInv'
  BY <1>1 DEF BeginPack
<1>2. CASE ListWindow(p)
  <2>1. Selected(job[p]) \subseteq {o \in Objects : status[o] # "absent"}
    BY <1>2, StorageAssumption DEF ListWindow, Selected, InPack, Filling
  <2> QED
    BY <1>2, <2>1 DEF ListWindow
<1>3. CASE ListEmpty(p)
  BY <1>3 DEF ListEmpty
<1>4. ASSUME NEW o \in Objects, Download(p, o) PROVE GoneInv'
  BY <1>4 DEF Download, NextInQuery
<1>5. ASSUME NEW o \in Objects, DownloadMissing(p, o) PROVE GoneInv'
  BY <1>5 DEF DownloadMissing
<1>6. CASE RecordChecksum(p)
  BY <1>6 DEF RecordChecksum
<1>7. CASE WriteManifest(p)
  BY <1>7 DEF WriteManifest
<1>8. CASE StagingLost(p)
  BY <1>8 DEF StagingLost
<1>9. CASE BuildTar(p)
  BY <1>9 DEF BuildTar
<1>10. CASE PublishTar(p)
  BY <1>10 DEF PublishTar
<1>11. CASE ClearDirectory(p)
  BY <1>11 DEF ClearDirectory
<1>12. ASSUME NEW o \in Objects, CopyMember(p, o) PROVE GoneInv'
  BY <1>12 DEF CopyMember
<1>13. CASE CopyManifest(p)
  BY <1>13 DEF CopyManifest
<1>14. CASE RecordDigest(p)
  BY <1>14 DEF RecordDigest
<1>15. CASE UpsertRow(p)
  BY <1>15 DEF UpsertRow, ToAttach
<1>16. ASSUME NEW o \in Objects, Attach(p, o) PROVE GoneInv'
  BY <1>16 DEF Attach, NextInQuery
<1>17. CASE CleanStaging(p)
  BY <1>17 DEF CleanStaging
<1> QED
  BY <1>1, <1>2, <1>3, <1>4, <1>5, <1>6, <1>7, <1>8, <1>9, <1>10, <1>11, <1>12, <1>13, <1>14, <1>15, <1>16, <1>17 DEF PackerStep

\* The reaper marks what HEAD did not find or DELETE removed.
LEMMA ReapingGone ==
  ASSUME Faults = {}, TypeInv, GoneInv, NEW p \in Procs, Reaping(p)
  PROVE  GoneInv'
<1> USE DEF GoneInv, DeletedIsGone, KnownWasUploaded, Uploaded, OnObject,
    TypeInv, TypeOK, StorageTypeOK, BucketTypeOK, CatalogTypeOK, ControlTypeOK,
    ControlOK, Goto, Return, bucketVars, objectVars, rowVars, diskVars,
    controlVars, Reaping
<1>1. ASSUME NEW r \in Rows, BeginReap(p, r) PROVE GoneInv'
  BY <1>1 DEF BeginReap, ReapGates, AllArchived, ToReap, AttachedTo
<1>2. ASSUME NEW o \in Objects, HeadGone(p, o) PROVE GoneInv'
  BY <1>2 DEF HeadGone, Visits
<1>3. ASSUME NEW o \in Objects, HeadMatch(p, o) PROVE GoneInv'
  BY <1>3 DEF HeadMatch, Visits
<1>4. ASSUME NEW o \in Objects, HeadMismatch(p, o) PROVE GoneInv'
  BY <1>4 DEF HeadMismatch, ReaperReturn
<1>5. CASE DeleteObject(p)
  BY <1>5 DEF DeleteObject, Removes
<1>6. CASE MarkDeleted(p)
  BY <1>6 DEF MarkDeleted
<1>7. CASE EndReap(p)
  BY <1>7 DEF EndReap, ReaperReturn
<1> QED
  BY <1>1, <1>2, <1>3, <1>4, <1>5, <1>6, <1>7 DEF ReaperStep

\* Every step of the system keeps the invariant.
LEMMA NextGone ==
  ASSUME Faults = {}, TypeInv, GoneInv, [Next]_vars
  PROVE  GoneInv'
<1> USE DEF GoneInv, DeletedIsGone, KnownWasUploaded, Uploaded, OnObject,
    TypeInv, TypeOK, StorageTypeOK, BucketTypeOK, CatalogTypeOK, ControlTypeOK,
    ControlOK, Goto, Return, bucketVars, objectVars, rowVars, diskVars,
    controlVars
<1>1. ASSUME NEW o \in Objects, Write(o) PROVE GoneInv'
  BY <1>1, StorageAssumption DEF Write, Versions
<1>2. ASSUME NEW o \in Objects, Vanish(o) PROVE GoneInv'
  BY <1>2 DEF Vanish
<1>3. ASSUME NEW p \in Procs, Crash(p) PROVE GoneInv'
  BY <1>3 DEF Crash
<1>4. CASE UNCHANGED vars
  BY <1>4 DEF vars, storageVars
<1> QED
  BY <1>1, <1>2, <1>3, <1>4, ScanningGone, PackingGone, ReapingGone DEF Next

\* What the catalog says is deleted is not in the bucket, through crashes
\* between DELETE and mark, reapers at work on the same objects, rescans and
\* deletions by others: as long as the client reports a failed HEAD or DELETE.
THEOREM DeletedIsAlwaysGone ==
  ASSUME Faults = {}
  PROVE  Spec => []DeletedIsGone
<1>1. Init => GoneInv
  BY InitGone
<1>2. TypeInv /\ GoneInv /\ [Next]_vars => GoneInv'
  BY NextGone
<1>3. GoneInv => DeletedIsGone
  BY DEF GoneInv
<1> QED BY <1>1, <1>2, <1>3, Typing, PTL DEF Spec

-----------------------------------------------------------------------------
(* One command at a time.                                                  *)

OneAtATime == \A p, q \in Procs : p = q

\* What a command holds has the status it had when the command read it.
ReadIsCurrent(p) ==
  /\ pc[p] = "promoting" => \A o \in todo[p] : status[o] = "discovered"
  /\ pc[p] \in InPack \ {"list"} =>
       \A o \in listed[p] \cup todo[p] : status[o] \notin {"absent", "obs_deleted"}

\* The step moves no status back.
Forward == \A o \in Objects : StatusRank[status[o]] <= StatusRank[status'[o]]

LEMMA SameIsForward == ASSUME TypeInv, UNCHANGED status PROVE Forward
<1>1. \A o \in Objects : status[o] \in Statuses
  BY DEF TypeInv, TypeOK, StorageTypeOK, CatalogTypeOK
<1> QED BY <1>1 DEF Forward, StatusRank, Statuses

LEMMA ScanningForward ==
  ASSUME TypeInv, NEW p \in Procs, ReadIsCurrent(p), Scanning(p)
  PROVE  Forward /\ ReadIsCurrent(p)'
<1> USE DEF ReadIsCurrent, InPack, Filling, Goto, TypeInv, TypeOK, StorageTypeOK,
    CatalogTypeOK, ControlTypeOK, ControlOK, OnObject, objectVars, Scanning
<1>1. ASSUME NEW o \in Objects, ListObject(p, o) PROVE Forward /\ ReadIsCurrent(p)'
  BY <1>1, SameIsForward DEF ListObject
<1>2. ASSUME NEW o \in Objects, PromoteWrite(p, o) PROVE Forward /\ ReadIsCurrent(p)'
  <2>1. Forward
    BY <1>2 DEF PromoteWrite, Forward, StatusRank, Statuses
  <2> QED BY <1>2, <2>1 DEF PromoteWrite
<1>3. CASE AcceptListed(p)
  BY <1>3, SameIsForward DEF AcceptListed
<1>4. CASE UpsertListed(p)
  <2>1. cur[p] \in Objects
    BY <1>4 DEF UpsertListed
  <2>2. Forward
    BY <1>4, <2>1 DEF UpsertListed, RowAfterScan, Forward, StatusRank, Statuses
  <2> QED BY <1>4, <2>2 DEF UpsertListed, ScannerReturn, Return
<1>5. CASE PromoteList(p)
  BY <1>5, SameIsForward DEF PromoteList, Discovered
<1>6. CASE SkipDeleted(p) \/ PromoteEnd(p)
  BY <1>6, SameIsForward DEF SkipDeleted, PromoteEnd, ScannerReturn, Return
<1> QED BY <1>1, <1>2, <1>3, <1>4, <1>5, <1>6 DEF ScannerStep

LEMMA PackingForward ==
  ASSUME TypeInv, NEW p \in Procs, ReadIsCurrent(p), Packing(p)
  PROVE  Forward /\ ReadIsCurrent(p)'
<1> USE DEF ReadIsCurrent, InPack, Filling, Goto, TypeInv, TypeOK, StorageTypeOK,
    CatalogTypeOK, ControlTypeOK, objectVars, Packing
<1>1. ASSUME NEW o \in Objects, Attach(p, o) PROVE Forward /\ ReadIsCurrent(p)'
  <2>1. status[o] \in {"discovered", "queued", "archived"}
    BY <1>1 DEF Attach, NextInQuery, Statuses
  <2>2. Forward
    BY <1>1, <2>1 DEF Attach, Forward, StatusRank, Statuses
  <2> QED BY <1>1, <2>2 DEF Attach
<1>2. CASE ListWindow(p)
  BY <1>2, SameIsForward DEF ListWindow, Selected
<1>3. CASE UpsertRow(p)
  BY <1>3, SameIsForward DEF UpsertRow, ToAttach
<1>4. CASE \/ ListEmpty(p) \/ StagingLost(p) \/ CleanStaging(p)
           \/ \E o \in Objects : DownloadMissing(p, o)
  BY <1>4, SameIsForward DEF ListEmpty, StagingLost, CleanStaging, DownloadMissing,
     PackerReturn, Return
<1>5. CASE \/ \E j \in Jobs : BeginPack(p, j)
           \/ \E o \in Objects : Download(p, o)
           \/ RecordChecksum(p) \/ WriteManifest(p) \/ BuildTar(p)
  BY <1>5, SameIsForward DEF BeginPack, Download, RecordChecksum, WriteManifest, BuildTar
<1>6. CASE \/ PublishTar(p) \/ ClearDirectory(p) \/ CopyManifest(p) \/ RecordDigest(p)
           \/ \E o \in Objects : CopyMember(p, o)
  BY <1>6, SameIsForward DEF PublishTar, ClearDirectory, CopyManifest, RecordDigest,
     CopyMember
<1> QED BY <1>1, <1>2, <1>3, <1>4, <1>5, <1>6 DEF PackerStep

LEMMA ReapingForward ==
  ASSUME TypeInv, NEW p \in Procs, Reaping(p)
  PROVE  Forward /\ ReadIsCurrent(p)'
<1>1. ReadIsCurrent(p)'
  BY DEF ReadIsCurrent, InPack, Filling, Goto, Return, ReaperReturn, TypeInv, TypeOK,
     StorageTypeOK, ControlTypeOK, Reaping, ReaperStep, BeginReap, HeadGone, HeadMatch,
     HeadMismatch, DeleteObject, MarkDeleted, EndReap
<1>2. CASE MarkDeleted(p)
  BY <1>1, <1>2 DEF MarkDeleted, Forward, StatusRank, Statuses, TypeInv, TypeOK,
     StorageTypeOK, CatalogTypeOK
<1>3. CASE ~MarkDeleted(p)
  <2>1. UNCHANGED status
    BY <1>3 DEF Reaping, ReaperStep, BeginReap, HeadGone, HeadMatch, HeadMismatch,
       DeleteObject, EndReap, objectVars
  <2> QED BY <1>1, <2>1, SameIsForward
<1> QED BY <1>2, <1>3

LEMMA NextForward ==
  ASSUME OneAtATime, TypeInv, \A p \in Procs : ReadIsCurrent(p), [Next]_vars
  PROVE  Forward /\ \A p \in Procs : ReadIsCurrent(p)'
<1>1. ASSUME NEW p \in Procs, Scanning(p) \/ Packing(p) \/ Reaping(p)
      PROVE  Forward /\ \A q \in Procs : ReadIsCurrent(q)'
  <2>1. Forward /\ ReadIsCurrent(p)'
    BY <1>1, ScanningForward, PackingForward, ReapingForward
  <2>2. ASSUME NEW q \in Procs PROVE ReadIsCurrent(q)'
    <3>1. p = q
      BY DEF OneAtATime
    <3> QED BY <2>1, <3>1
  <2> QED BY <2>1, <2>2
<1>2. ASSUME NEW p \in Procs, Crash(p)
      PROVE  Forward /\ \A q \in Procs : ReadIsCurrent(q)'
  <2>1. UNCHANGED status /\ \A q \in Procs : pc'[q] = "idle"
    BY <1>2 DEF Crash, Return, Goto, OneAtATime, TypeInv, TypeOK, StorageTypeOK,
       ControlTypeOK, objectVars
  <2> QED BY <2>1, SameIsForward DEF ReadIsCurrent, InPack, Filling
<1>3. ASSUME UNCHANGED <<status, pc, listed, todo>>
      PROVE  Forward /\ \A q \in Procs : ReadIsCurrent(q)'
  BY <1>3, SameIsForward DEF ReadIsCurrent
<1>4. ASSUME NEW o \in Objects, Write(o) \/ Vanish(o)
      PROVE  Forward /\ \A q \in Procs : ReadIsCurrent(q)'
  BY <1>3, <1>4 DEF Write, Vanish, objectVars, controlVars
<1>5. CASE UNCHANGED vars
  BY <1>3, <1>5 DEF vars, storageVars, objectVars, controlVars
<1> QED BY <1>1, <1>2, <1>4, <1>5 DEF Next

\* When the commands of an instance run one after another, as cron starts them,
\* no status moves back, whatever is overwritten, deleted or killed, although no
\* UPDATE looks at the status it overwrites.
THEOREM StatusAlwaysMovesForward ==
  ASSUME OneAtATime
  PROVE  Spec => StatusMovesForward
<1> DEFINE AllCurrent == \A p \in Procs : ReadIsCurrent(p)
<1>1. Init => AllCurrent
  BY DEF Init, StorageInit, ReadIsCurrent, InPack, Filling
<1>2. TypeInv /\ AllCurrent /\ [Next]_vars => Forward /\ AllCurrent'
  BY NextForward
<1> HIDE DEF AllCurrent
<1> QED BY <1>1, <1>2, Typing, PTL DEF Spec, StatusMovesForward, Forward

\* What the reaper's loop has done and has still to do with the objects of its
\* row, and that a packer attaches to a row of which nothing is deleted.
OrderKept(p) ==
  /\ pc[p] = "attach" =>
       \A o \in Objects : daId[o] = rid[p] => status[o] # "obs_deleted"
  /\ pc[p] \in {"reap", "delete", "mark"} =>
       /\ \A o \in todo[p] : daId[o] = rid[p]
       /\ \A o \in Objects : daId[o] = rid[p] /\ Type[o] # "metadata" =>
            o \in todo[p] \/ status[o] = "obs_deleted"
  /\ pc[p] \in {"delete", "mark"} =>
       cur[p] \in todo[p] /\ \A x \in todo[p] : ReapRank[Type[cur[p]]] <= ReapRank[Type[x]]

\* No step of a scanner deletes or brings back.
LEMMA ScanningOrder ==
  ASSUME TypeInv, ReapOrder, NEW p \in Procs, ReadIsCurrent(p), Scanning(p)
  PROVE  ReapOrder' /\ OrderKept(p)'
<1>1. /\ UNCHANGED daId
      /\ pc'[p] \notin {"attach", "reap", "delete", "mark"}
      /\ \A o \in Objects : status'[o] = "obs_deleted" <=> status[o] = "obs_deleted"
  <2> USE DEF Scanning, Goto, TypeInv, TypeOK, StorageTypeOK, CatalogTypeOK, ControlTypeOK
  <2>1. CASE UpsertListed(p)
    BY <2>1 DEF UpsertListed, RowAfterScan, ScannerReturn, Return
  <2>2. ASSUME NEW o \in Objects, PromoteWrite(p, o) 
        PROVE  /\ UNCHANGED daId
               /\ pc'[p] \notin {"attach", "reap", "delete", "mark"}
               /\ \A x \in Objects : status'[x] = "obs_deleted" <=> status[x] = "obs_deleted"
    BY <2>2 DEF PromoteWrite, ReadIsCurrent
  <2>3. CASE ~UpsertListed(p) /\ ~\E o \in Objects : PromoteWrite(p, o)
    BY <2>3 DEF ScannerStep, ListObject, SkipDeleted, AcceptListed, PromoteList,
       PromoteEnd, ScannerReturn, Return, objectVars
  <2> QED BY <2>1, <2>2, <2>3
<1> QED BY <1>1 DEF ReapOrder, OrderKept

\* A packer attaches only to the row it has just written.
LEMMA PackingOrder ==
  ASSUME TypeInv, ArchiveInv, ReapOrder, NEW p \in Procs, OrderKept(p), Packing(p)
  PROVE  ReapOrder' /\ OrderKept(p)'
<1> USE DEF Packing, Goto, TypeInv, TypeOK, StorageTypeOK, CatalogTypeOK, ControlTypeOK
<1>1. ASSUME NEW o \in Objects, Attach(p, o) PROVE ReapOrder' /\ OrderKept(p)'
  <2>1. /\ pc[p] = "attach" /\ pc'[p] = "attach" /\ rid'[p] = rid[p]
        /\ daId' = [daId EXCEPT ![o] = rid[p]]
        /\ status' = [status EXCEPT ![o] = "archived"]
    BY <1>1 DEF Attach
  <2>2. rid[p] \in Rows
    BY <2>1, StorageAssumption DEF ArchiveInv, CarriedIntoArchive, HoldsItsRow, ControlOK,
       InPack, StorageAssumption
  <2>3. \A x \in Objects : x # o => daId'[x] = daId[x] /\ status'[x] = status[x]
    BY <2>1
  <2>4. daId'[o] = rid[p] /\ status'[o] = "archived"
    BY <2>1, <2>2
  <2>5. \A x \in Objects : daId[x] = rid[p] => status[x] # "obs_deleted"
    BY <2>1 DEF OrderKept
  <2> QED BY <2>1, <2>3, <2>4, <2>5 DEF ReapOrder, OrderKept
<1>2. CASE UpsertRow(p)
  <2>1. /\ pc[p] = "upsert" /\ pc'[p] = "attach" /\ UNCHANGED <<status, daId>>
    BY <1>2 DEF UpsertRow, objectVars
  <2>2. job[p] \in Jobs /\ RowOf[job[p]] \in Rows /\ rowJob[RowOf[job[p]]] = NoJob
    BY <2>1, StorageAssumption DEF ControlOK, InPack, Filling, ArchiveInv,
       CarriedIntoArchive, Unclaimed, StorageAssumption
  <2>3. rid'[p] = RowOf[job[p]]
    BY <1>2, <2>2 DEF UpsertRow, ReturnedIds
  <2>4. \A o \in Objects : daId[o] # RowOf[job[p]]
    BY <2>2, StorageAssumption DEF ArchiveInv, AttachedIsArchived, StorageAssumption
  <2> QED BY <2>1, <2>3, <2>4 DEF ReapOrder, OrderKept
<1>3. CASE ~UpsertRow(p) /\ ~\E o \in Objects : Attach(p, o)
  <2>1. UNCHANGED <<status, daId>>
    BY <1>3 DEF PackerStep, BeginPack, ListWindow, ListEmpty, Download, DownloadMissing,
       RecordChecksum, WriteManifest, StagingLost, BuildTar, PublishTar, ClearDirectory,
       CopyMember, CopyManifest, RecordDigest, CleanStaging, objectVars
  <2>2. pc'[p] \notin {"attach", "reap", "delete", "mark"}
    BY <1>3 DEF PackerStep, BeginPack, ListWindow, ListEmpty, Download, DownloadMissing,
       RecordChecksum, WriteManifest, StagingLost, BuildTar, PublishTar, ClearDirectory,
       CopyMember, CopyManifest, RecordDigest, CleanStaging, PackerReturn, Return
  <2> QED BY <2>1, <2>2 DEF ReapOrder, OrderKept
<1> QED BY <1>1, <1>2, <1>3

\* The loop of a reaper goes by rank, and what it has left behind is deleted.
LEMMA ReapingOrder ==
  ASSUME TypeInv, ReapOrder, NEW p \in Procs, OrderKept(p), Reaping(p)
  PROVE  ReapOrder' /\ OrderKept(p)'
<1> USE DEF Reaping, Goto, TypeInv, TypeOK, StorageTypeOK, CatalogTypeOK, ControlTypeOK,
    objectVars
<1>1. ASSUME NEW r \in Rows, BeginReap(p, r) PROVE ReapOrder' /\ OrderKept(p)'
  BY <1>1 DEF BeginReap, ToReap, AttachedTo, ReapOrder, OrderKept
<1>2. ASSUME NEW o \in Objects, HeadGone(p, o) \/ HeadMatch(p, o)
      PROVE  ReapOrder' /\ OrderKept(p)'
  <2>1. /\ pc[p] = "reap" /\ pc'[p] \in {"delete", "mark"} /\ cur'[p] = o
        /\ o \in todo[p] /\ \A x \in todo[p] : ReapRank[Type[o]] <= ReapRank[Type[x]]
        /\ UNCHANGED <<status, daId, todo, rid>>
    BY <1>2 DEF HeadGone, HeadMatch, Visits, IsNext
  <2> QED BY <2>1 DEF ReapOrder, OrderKept
<1>3. CASE DeleteObject(p)
  BY <1>3 DEF DeleteObject, ReapOrder, OrderKept
<1>4. CASE MarkDeleted(p)
  <2>1. PICK o \in Objects : o = cur[p]
    BY <1>4 DEF MarkDeleted, ControlOK, OnObject
  <2>2. /\ pc[p] = "mark" /\ pc'[p] = "reap" /\ todo'[p] = todo[p] \ {o}
        /\ status' = [status EXCEPT ![o] = "obs_deleted"]
        /\ UNCHANGED <<daId, rid>>
    BY <1>4, <2>1 DEF MarkDeleted
  <2>3. /\ o \in todo[p] /\ daId[o] = rid[p]
        /\ \A x \in todo[p] : ReapRank[Type[o]] <= ReapRank[Type[x]]
        /\ \A x \in Objects : daId[x] = rid[p] /\ Type[x] # "metadata" =>
             x \in todo[p] \/ status[x] = "obs_deleted"
    BY <2>1, <2>2 DEF OrderKept
  <2>4. \A x \in Objects : PrecedesInReap(x, o) =>
          Type[x] # "metadata" /\ ~(ReapRank[Type[o]] <= ReapRank[Type[x]])
    BY DEF PrecedesInReap, ReapRank
  <2>5. ReapOrder'
    BY <2>2, <2>3, <2>4 DEF ReapOrder, PrecedesInReap
  <2> QED BY <2>2, <2>3, <2>5 DEF OrderKept
<1>5. CASE EndReap(p) \/ \E o \in Objects : HeadMismatch(p, o)
  BY <1>5 DEF EndReap, HeadMismatch, ReaperReturn, Return, ReapOrder, OrderKept
<1> QED BY <1>1, <1>2, <1>3, <1>4, <1>5 DEF ReaperStep

LEMMA NextKeepsOrder ==
  ASSUME OneAtATime, TypeInv, ArchiveInv, ReapOrder,
         \A p \in Procs : ReadIsCurrent(p) /\ OrderKept(p), [Next]_vars
  PROVE  ReapOrder' /\ \A p \in Procs : OrderKept(p)'
<1>1. ASSUME NEW p \in Procs, Scanning(p) \/ Packing(p) \/ Reaping(p)
      PROVE  ReapOrder' /\ \A q \in Procs : OrderKept(q)'
  <2>1. ReapOrder' /\ OrderKept(p)'
    BY <1>1, ScanningOrder, PackingOrder, ReapingOrder
  <2>2. ASSUME NEW q \in Procs PROVE OrderKept(q)'
    <3>1. p = q
      BY DEF OneAtATime
    <3> QED BY <2>1, <3>1
  <2> QED BY <2>1, <2>2
<1>2. ASSUME NEW p \in Procs, Crash(p)
      PROVE  ReapOrder' /\ \A q \in Procs : OrderKept(q)'
  <2>1. UNCHANGED <<status, daId>> /\ \A q \in Procs : pc'[q] = "idle"
    BY <1>2 DEF Crash, Return, Goto, OneAtATime, TypeInv, TypeOK, StorageTypeOK,
       ControlTypeOK, objectVars
  <2> QED BY <2>1 DEF ReapOrder, OrderKept
<1>3. ASSUME UNCHANGED <<status, daId, controlVars>>
      PROVE  ReapOrder' /\ \A q \in Procs : OrderKept(q)'
  BY <1>3 DEF ReapOrder, OrderKept, controlVars
<1>4. ASSUME NEW o \in Objects, Write(o) \/ Vanish(o)
      PROVE  ReapOrder' /\ \A q \in Procs : OrderKept(q)'
  BY <1>3, <1>4 DEF Write, Vanish, objectVars
<1>5. CASE UNCHANGED vars
  BY <1>3, <1>5 DEF vars, storageVars, objectVars
<1> QED BY <1>1, <1>2, <1>4, <1>5 DEF Next

\* Gate 4 holds across runs: of one daily archive a full goes before a diff and a
\* diff before an xlog, although a run may stop at any object, objects move to
\* the row of a daily archive later, and the counters of the gate see one run.
THEOREM ReapAlwaysInOrder ==
  ASSUME OneAtATime
  PROVE  Spec => []ReapOrder
<1> DEFINE AllCurrent == \A p \in Procs : ReadIsCurrent(p)
<1> DEFINE AllOrdered == ReapOrder /\ \A p \in Procs : OrderKept(p)
<1>1. Init => AllCurrent /\ AllOrdered
  BY DEF Init, StorageInit, ReadIsCurrent, InPack, Filling, ReapOrder, OrderKept
<1>2. TypeInv /\ AllCurrent /\ [Next]_vars => AllCurrent'
  BY NextForward
<1>3. TypeInv /\ ArchiveInv /\ AllCurrent /\ AllOrdered /\ [Next]_vars => AllOrdered'
  BY NextKeepsOrder
<1>4. AllOrdered => ReapOrder
  OBVIOUS
<1>5. Partitioned
  BY DEF OneAtATime, Partitioned, Procs
<1> HIDE DEF AllCurrent, AllOrdered
<1> QED BY <1>1, <1>2, <1>3, <1>4, <1>5, Typing, ArchiveInvariance, PTL DEF Spec
=============================================================================
