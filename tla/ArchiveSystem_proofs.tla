------------------------ MODULE ArchiveSystem_proofs ------------------------
(***************************************************************************)
(* Proofs about ArchiveSystem for every set of objects, jobs, rows and     *)
(* processes and every bound: its type invariant, and that what a row      *)
(* attaches is in the archive the row names.  The invariant is the one of  *)
(* ArchiveInvariant; a step of a process is Outside of the archives or     *)
(* Inside of its own, and one lemma for each kind says what it keeps.      *)
(***************************************************************************)
EXTENDS ArchiveInvariant, TLAPS

\* The type invariant made inductive: a packer in the middle of a job has one,
\* and it is one it may be started on.
TypeInv == TypeOK /\ \A p \in Procs : ControlOK(p)

\* The fresh catalog and the empty directories are well-typed.
LEMMA InitTyped == Init => TypeInv
BY StorageAssumption, ScannerAssumption, ReaperAssumption, SystemAssumption
DEF Init, StorageInit, ScannerInit, PackerInit, ReaperInit, TypeInv, TypeOK,
    StorageTypeOK, BucketTypeOK, CatalogTypeOK, DiskTypeOK, ControlTypeOK,
    ScannerTypeOK, PackerTypeOK, ReaperTypeOK, ControlOK,
    Contents, Versions, Statuses, Digests, MetaStates, Nothing, PCs, NoImage,
    InPack, Filling, OnObject

\* A step of the scanner, or of the promotion, keeps the types.
LEMMA ScanningTyped ==
  ASSUME TypeInv, NEW p \in Procs, Scanning(p)
  PROVE  TypeInv'
<1> USE StorageAssumption, ScannerAssumption, ReaperAssumption, SystemAssumption
<1> USE DEF TypeInv, TypeOK,
    StorageTypeOK, BucketTypeOK, CatalogTypeOK, DiskTypeOK, ControlTypeOK,
    ScannerTypeOK, PackerTypeOK, ReaperTypeOK, ControlOK,
    Contents, Versions, Statuses, Digests, MetaStates, Nothing, PCs, NoImage,
    InPack, Filling, OnObject, Goto, Return, bucketVars, objectVars, rowVars,
        diskVars, controlVars, Scanning
<1>1. ASSUME NEW o \in Objects, ListObject(p, o) PROVE TypeInv'
  BY <1>1 DEF ListObject
<1>2. ASSUME NEW o \in Objects, PromoteWrite(p, o) PROVE TypeInv'
  BY <1>2 DEF PromoteWrite
<1>3. CASE SkipDeleted(p)
  BY <1>3 DEF SkipDeleted, ScannerReturn
<1>4. CASE AcceptListed(p)
  BY <1>4 DEF AcceptListed
<1>5. CASE UpsertListed(p)
  BY <1>5 DEF UpsertListed, ScannerReturn, RowAfterScan
<1>6. CASE PromoteList(p)
  BY <1>6 DEF PromoteList, Discovered
<1>7. CASE PromoteEnd(p)
  BY <1>7 DEF PromoteEnd, ScannerReturn
<1> QED BY <1>1, <1>2, <1>3, <1>4, <1>5, <1>6, <1>7 DEF ScannerStep

\* A step of a packer keeps the types, and its job while it has one.
LEMMA PackingTyped ==
  ASSUME TypeInv, NEW p \in Procs, Packing(p)
  PROVE  TypeInv'
<1> USE StorageAssumption, ScannerAssumption, ReaperAssumption, SystemAssumption
<1> USE DEF TypeInv, TypeOK,
    StorageTypeOK, BucketTypeOK, CatalogTypeOK, DiskTypeOK, ControlTypeOK,
    ScannerTypeOK, PackerTypeOK, ReaperTypeOK, ControlOK,
    Contents, Versions, Statuses, Digests, MetaStates, Nothing, PCs, NoImage,
    InPack, Filling, OnObject, Goto, Return, PackerReturn, bucketVars,
        objectVars, rowVars, diskVars, controlVars, Packing
<1>1. ASSUME NEW j \in Jobs, BeginPack(p, j) PROVE TypeInv'
  BY <1>1 DEF BeginPack
<1>2. CASE ListWindow(p)
  BY <1>2 DEF ListWindow, Selected
<1>3. CASE ListEmpty(p)
  BY <1>3 DEF ListEmpty
<1>4. ASSUME NEW o \in Objects, Download(p, o) PROVE TypeInv'
  BY <1>4 DEF Download
<1>5. ASSUME NEW o \in Objects, DownloadMissing(p, o) PROVE TypeInv'
  BY <1>5 DEF DownloadMissing
<1>6. CASE RecordChecksum(p)
  BY <1>6 DEF RecordChecksum
<1>7. CASE WriteManifest(p)
  BY <1>7 DEF WriteManifest
<1>8. CASE StagingLost(p)
  BY <1>8 DEF StagingLost
<1>9. CASE BuildTar(p)
  BY <1>9 DEF BuildTar
<1>10. CASE PublishTar(p)
  BY <1>10 DEF PublishTar
<1>11. CASE ClearDirectory(p)
  BY <1>11 DEF ClearDirectory
<1>12. ASSUME NEW o \in Objects, CopyMember(p, o) PROVE TypeInv'
  BY <1>12 DEF CopyMember
<1>13. CASE CopyManifest(p)
  BY <1>13 DEF CopyManifest
<1>14. CASE RecordDigest(p)
  BY <1>14 DEF RecordDigest, Digest
<1>15. CASE UpsertRow(p)
  BY <1>15 DEF UpsertRow, ReturnedIds, ToAttach
<1>16. ASSUME NEW o \in Objects, Attach(p, o) PROVE TypeInv'
  BY <1>16 DEF Attach
<1>17. CASE CleanStaging(p)
  BY <1>17 DEF CleanStaging
<1> QED
  BY <1>1, <1>2, <1>3, <1>4, <1>5, <1>6, <1>7, <1>8, <1>9, <1>10, <1>11,
     <1>12, <1>13, <1>14, <1>15, <1>16, <1>17 DEF PackerStep

\* A step of a reaper keeps the types.
LEMMA ReapingTyped ==
  ASSUME TypeInv, NEW p \in Procs, Reaping(p)
  PROVE  TypeInv'
<1> USE StorageAssumption, ScannerAssumption, ReaperAssumption, SystemAssumption
<1> USE DEF TypeInv, TypeOK,
    StorageTypeOK, BucketTypeOK, CatalogTypeOK, DiskTypeOK, ControlTypeOK,
    ScannerTypeOK, PackerTypeOK, ReaperTypeOK, ControlOK,
    Contents, Versions, Statuses, Digests, MetaStates, Nothing, PCs, NoImage,
    InPack, Filling, OnObject, Goto, Return, ReaperReturn, bucketVars,
        objectVars, rowVars, diskVars, controlVars, Reaping
<1>1. ASSUME NEW r \in Rows, BeginReap(p, r) PROVE TypeInv'
  BY <1>1 DEF BeginReap, ToReap, AttachedTo
<1>2. ASSUME NEW o \in Objects, HeadGone(p, o) PROVE TypeInv'
  BY <1>2 DEF HeadGone, Visits
<1>3. ASSUME NEW o \in Objects, HeadMatch(p, o) PROVE TypeInv'
  BY <1>3 DEF HeadMatch, Visits
<1>4. ASSUME NEW o \in Objects, HeadMismatch(p, o) PROVE TypeInv'
  BY <1>4 DEF HeadMismatch, Visits
<1>5. CASE DeleteObject(p)
  <2>1. CASE obs' = [obs EXCEPT ![cur[p]] = 0]
    BY <1>5, <2>1 DEF DeleteObject
  <2>2. CASE UNCHANGED obs
    BY <1>5, <2>2 DEF DeleteObject
  <2> QED BY <1>5, <2>1, <2>2 DEF DeleteObject, Removes
<1>6. CASE MarkDeleted(p)
  BY <1>6 DEF MarkDeleted
<1>7. CASE EndReap(p)
  BY <1>7 DEF EndReap
<1> QED BY <1>1, <1>2, <1>3, <1>4, <1>5, <1>6, <1>7 DEF ReaperStep

\* So does an upload, a deletion by somebody else, a crash and a stutter.
LEMMA EnvironmentTyped ==
  ASSUME TypeInv,
         \/ \E o \in Objects : Write(o) \/ Vanish(o)
         \/ \E p \in Procs : Crash(p)
         \/ UNCHANGED vars
  PROVE  TypeInv'
<1> USE StorageAssumption, ScannerAssumption, ReaperAssumption, SystemAssumption
<1> USE DEF TypeInv, TypeOK,
    StorageTypeOK, BucketTypeOK, CatalogTypeOK, DiskTypeOK, ControlTypeOK,
    ScannerTypeOK, PackerTypeOK, ReaperTypeOK, ControlOK,
    Contents, Versions, Statuses, Digests, MetaStates, Nothing, PCs, NoImage,
    InPack, Filling, OnObject, Goto, Return, bucketVars, objectVars, rowVars,
        diskVars, controlVars
<1>1. ASSUME NEW o \in Objects, Write(o) PROVE TypeInv'
  BY <1>1 DEF Write
<1>2. ASSUME NEW o \in Objects, Vanish(o) PROVE TypeInv'
  BY <1>2 DEF Vanish
<1>3. ASSUME NEW p \in Procs, Crash(p) PROVE TypeInv'
  BY <1>3 DEF Crash
<1>4. CASE UNCHANGED vars
  BY <1>4 DEF vars, storageVars
<1> HIDE DEF TypeInv
<1> QED
  BY <1>1, <1>2, <1>3, <1>4

\* TypeInv is inductive.
LEMMA NextTyped == TypeInv /\ [Next]_vars => TypeInv'
BY EnvironmentTyped, ScanningTyped, PackingTyped, ReapingTyped DEF Next

\* Every state of every behaviour is well-typed, and every packer in the middle
\* of a job has a job it may run.
THEOREM Typing == Spec => []TypeInv
<1>1. Init => TypeInv
  BY InitTyped
<1>2. TypeInv /\ [Next]_vars => TypeInv'
  BY NextTyped
<1> QED BY <1>1, <1>2, PTL DEF Spec

\* The type invariant the runs check.
THEOREM TypeCorrect == Spec => []TypeOK
<1>1. TypeInv => TypeOK
  BY DEF TypeInv
<1> QED BY <1>1, Typing, PTL

-----------------------------------------------------------------------------

\* The part of CarriedIntoArchive that is about one process.
Local(p) == Unclaimed(p) /\ Carried(p) /\ HoldsItsRow(p)

\* The variables Local(q) reads of the process itself.
SameLocals(q) == UNCHANGED <<pc[q], job[q], rid[q], listed[q], todo[q],
    image[q]>>

Others(p) == \A q \in Procs \ {p} : SameLocals(q)

\* A step that touches neither archives nor what is attached to them.
Outside(p) ==
  /\ Others(p)
  /\ pc'[p] \notin InPack
  /\ UNCHANGED <<rowJob, staging, archive, daId>>

\* A step of a packer: it touches only its own row and job.
Inside(p) ==
  /\ Others(p)
  /\ \A j \in Jobs \ {job[p]} : UNCHANGED <<staging[j], archive[j]>>
  /\ \A r \in Rows \ {RowOf[job[p]]} : UNCHANGED rowJob[r]

\* Local(q) survives a step of somebody else that leaves alone the row, the
\* staging directory and the archive of the job q works on.
LEMMA LocalFrame ==
  ASSUME NEW q \in Procs, Local(q), SameLocals(q),
         pc[q] \in InPack =>
           UNCHANGED <<rowJob[RowOf[job[q]]], staging[job[q]], archive[job[q]]>>
  PROVE  Local(q)'
<1>1. Unclaimed(q)'
  BY DEF Local, Unclaimed, SameLocals, InPack, Filling
<1>2. Carried(q)'
  BY DEF Local, Carried, SameLocals, InPack, Filling, Staged, Imaged, Stored
<1>3. HoldsItsRow(q)'
  BY DEF Local, HoldsItsRow, SameLocals, InPack
<1> QED BY <1>1, <1>2, <1>3 DEF Local

\* Scanning touches no archive, no staging directory and no attachment.
LEMMA ScanningOutside ==
  ASSUME TypeInv, NEW p \in Procs, Scanning(p)
  PROVE  Outside(p)
<1> USE DEF Outside, Others, SameLocals, InPack, Filling, Goto, Return,
    ScannerReturn, objectVars, rowVars, diskVars, TypeInv, TypeOK,
    StorageTypeOK, ControlTypeOK, Scanning
<1>1. ASSUME NEW o \in Objects, ListObject(p, o) PROVE Outside(p)
  BY <1>1 DEF ListObject
<1>2. ASSUME NEW o \in Objects, PromoteWrite(p, o) PROVE Outside(p)
  BY <1>2 DEF PromoteWrite
<1>3. CASE SkipDeleted(p)
  BY <1>3 DEF SkipDeleted
<1>4. CASE AcceptListed(p)
  BY <1>4 DEF AcceptListed
<1>5. CASE UpsertListed(p)
  BY <1>5 DEF UpsertListed
<1>6. CASE PromoteList(p)
  BY <1>6 DEF PromoteList
<1>7. CASE PromoteEnd(p)
  BY <1>7 DEF PromoteEnd
<1> HIDE DEF Outside
<1> QED BY <1>1, <1>2, <1>3, <1>4, <1>5, <1>6, <1>7 DEF ScannerStep

\* Nor does reaping: the reaper deletes from the bucket and marks rows.
LEMMA ReapingOutside ==
  ASSUME TypeInv, NEW p \in Procs, Reaping(p)
  PROVE  Outside(p)
<1> USE DEF Outside, Others, SameLocals, InPack, Filling, Goto, Return,
    ReaperReturn, objectVars, rowVars, diskVars, TypeInv, TypeOK,
    StorageTypeOK, ControlTypeOK, Reaping
<1>1. ASSUME NEW r \in Rows, BeginReap(p, r) PROVE Outside(p)
  BY <1>1 DEF BeginReap
<1>2. ASSUME NEW o \in Objects, HeadGone(p, o) PROVE Outside(p)
  BY <1>2 DEF HeadGone, Visits
<1>3. ASSUME NEW o \in Objects, HeadMatch(p, o) PROVE Outside(p)
  BY <1>3 DEF HeadMatch, Visits
<1>4. ASSUME NEW o \in Objects, HeadMismatch(p, o) PROVE Outside(p)
  BY <1>4 DEF HeadMismatch, Visits
<1>5. CASE DeleteObject(p)
  BY <1>5 DEF DeleteObject
<1>6. CASE MarkDeleted(p)
  BY <1>6 DEF MarkDeleted
<1>7. CASE EndReap(p)
  BY <1>7 DEF EndReap
<1> HIDE DEF Outside
<1> QED BY <1>1, <1>2, <1>3, <1>4, <1>5, <1>6, <1>7 DEF ReaperStep

\* The inductive invariant.
ArchiveInv == CarriedIntoArchive /\ AttachedIsArchived

\* What is outside of the archives keeps the invariant.
LEMMA OutsideKeeps ==
  ASSUME TypeInv, ArchiveInv, NEW p \in Procs, Outside(p)
  PROVE  ArchiveInv'
<1>1. RowsNameTheirArchive' /\ AttachedIsArchived'
  BY DEF ArchiveInv, CarriedIntoArchive, RowsNameTheirArchive,
      AttachedIsArchived, Outside
<1>2. Local(p)'
  BY DEF Outside, Local, Unclaimed, Carried, HoldsItsRow, InPack, Filling
<1>3. ASSUME NEW q \in Procs \ {p} PROVE Local(q)'
  <2>1. Local(q) /\ SameLocals(q)
    BY DEF Outside, Others, ArchiveInv, CarriedIntoArchive, Local
  <2>2. UNCHANGED <<rowJob[RowOf[job[q]]], staging[job[q]], archive[job[q]]>>
    BY <2>1 DEF Outside, SameLocals
  <2> QED BY <2>1, <2>2, LocalFrame
<1> QED BY <1>1, <1>2, <1>3 DEF ArchiveInv, CarriedIntoArchive, Local

\* When no two packers are started on archives of one row, what a packer does
\* inside of its own disturbs no other packer.
LEMMA InsideKeeps ==
  ASSUME Partitioned, TypeInv, ArchiveInv, NEW p \in Procs, Inside(p),
         pc[p] \in InPack,
         Local(p)', RowsNameTheirArchive', AttachedIsArchived'
  PROVE  ArchiveInv'
<1>1. p \in Packers /\ job[p] \in Jobs /\ job[p] \in JobsOf[p]
  BY DEF TypeInv, ControlOK
<1>2. ASSUME NEW q \in Procs \ {p} PROVE Local(q)'
  <2>1. Local(q) /\ SameLocals(q)
    BY DEF Inside, Others, ArchiveInv, CarriedIntoArchive, Local
  <2>2. ASSUME pc[q] \in InPack
        PROVE  UNCHANGED <<rowJob[RowOf[job[q]]], staging[job[q]],
                           archive[job[q]]>>
    <3>1. q \in Packers /\ job[q] \in Jobs /\ job[q] \in JobsOf[q]
      BY <2>2 DEF TypeInv, ControlOK
    <3>2. RowOf[job[q]] # RowOf[job[p]] /\ RowOf[job[q]] \in Rows
      BY <1>1, <3>1, StorageAssumption DEF Partitioned, StorageAssumption
    <3> QED BY <2>1, <3>1, <3>2 DEF Inside, SameLocals
  <2> QED BY <2>1, <2>2, LocalFrame
<1> QED BY <1>2 DEF ArchiveInv, CarriedIntoArchive, Local

\* Until its row is written, an archive that is being filled is nobody's: no
\* attachment can depend on it.
LEMMA UnclaimedKeeps ==
  ASSUME TypeInv, ArchiveInv, NEW p \in Procs, pc[p] \in Filling,
         Inside(p), UNCHANGED <<rowJob, daId>>
  PROVE  RowsNameTheirArchive' /\ AttachedIsArchived'
<1>1. RowsNameTheirArchive'
  BY DEF ArchiveInv, CarriedIntoArchive, RowsNameTheirArchive
<1>2. ASSUME NEW r \in Rows, rowJob[r] # NoJob
      PROVE  archive'[rowJob[r]] = archive[rowJob[r]]
  <2>1. rowJob[r] \in Jobs /\ RowOf[rowJob[r]] = r
    BY <1>2 DEF ArchiveInv, CarriedIntoArchive, RowsNameTheirArchive, TypeInv,
        TypeOK, StorageTypeOK, CatalogTypeOK
  <2>2. rowJob[RowOf[job[p]]] = NoJob
    BY DEF ArchiveInv, CarriedIntoArchive, Unclaimed
  <2> QED BY <1>2, <2>1, <2>2 DEF Inside
<1>3. \A o \in Objects : daId[o] # NoRow => daId[o] \in Rows
  BY DEF TypeInv, TypeOK, StorageTypeOK, CatalogTypeOK
<1> QED BY <1>1, <1>2, <1>3 DEF ArchiveInv, AttachedIsArchived

\* Every step of a packer keeps the invariant.
LEMMA PackingKeeps ==
  ASSUME Partitioned, TypeInv, ArchiveInv, NEW p \in Procs, Packing(p)
  PROVE  ArchiveInv'
<1> USE DEF Outside, Inside, Others, SameLocals, InPack, Filling, Goto,
    Return, PackerReturn, bucketVars, objectVars, rowVars, diskVars
<1>0. TypeOK /\ ControlOK(p) /\ Unclaimed(p) /\ Carried(p) /\ HoldsItsRow(p)
  BY DEF TypeInv, ArchiveInv, CarriedIntoArchive
<1>1. ASSUME NEW j \in Jobs, BeginPack(p, j) PROVE ArchiveInv'
  <2>1. Others(p) /\ UNCHANGED <<rowJob, staging, archive, daId>>
    BY <1>0, <1>1 DEF BeginPack, Packing, TypeOK, StorageTypeOK, ControlTypeOK
  <2>2. Local(p)'
    BY <1>0, <1>1 DEF BeginPack, IsNew, TypeOK, StorageTypeOK, ControlTypeOK,
        Local, Unclaimed, Carried, HoldsItsRow
  <2>3. ASSUME NEW q \in Procs \ {p} PROVE Local(q)'
    <3>1. Local(q) /\ SameLocals(q)
      BY <2>1 DEF ArchiveInv, CarriedIntoArchive, Local
    <3>2. UNCHANGED <<rowJob[RowOf[job[q]]], staging[job[q]], archive[job[q]]>>
      BY <2>1, <3>1
    <3> QED BY <3>1, <3>2, LocalFrame
  <2> QED
    BY <2>1, <2>2, <2>3 DEF ArchiveInv, CarriedIntoArchive, Local,
        AttachedIsArchived, RowsNameTheirArchive
<1>2. CASE ListWindow(p)
  <2>1. Inside(p) /\ pc[p] \in Filling /\ UNCHANGED <<rowJob, daId>>
    BY <1>0, <1>2 DEF ListWindow, Packing, TypeOK, StorageTypeOK, DiskTypeOK,
        ControlTypeOK
  <2>2. Local(p)'
    BY <1>0, <1>2
    DEF ListWindow, TypeOK, StorageTypeOK, DiskTypeOK, ControlTypeOK, Local,
        Unclaimed,
        Carried, HoldsItsRow, Selected, Staged
  <2> QED
    BY <2>1, <2>2, InsideKeeps, UnclaimedKeeps
<1>3. CASE ListEmpty(p)
  <2>1. Inside(p) /\ pc[p] \in Filling /\ UNCHANGED <<rowJob, daId>>
    BY <1>0, <1>3 DEF ListEmpty, Packing, TypeOK, StorageTypeOK, DiskTypeOK,
        ControlTypeOK
  <2>2. Local(p)'
    BY <1>0, <1>3
    DEF ListEmpty, TypeOK, StorageTypeOK, DiskTypeOK, ControlTypeOK, Local,
        Unclaimed,
        Carried, HoldsItsRow
  <2> QED
    BY <2>1, <2>2, InsideKeeps, UnclaimedKeeps
<1>4. ASSUME NEW o \in Objects, Download(p, o) PROVE ArchiveInv'
  <2>1. Inside(p) /\ pc[p] \in Filling /\ UNCHANGED <<rowJob, daId>>
    BY <1>0, <1>4 DEF Download, Packing, TypeOK, StorageTypeOK, DiskTypeOK,
        ControlTypeOK
  <2>2. Local(p)'
    BY <1>0, <1>4
    DEF Download, TypeOK, StorageTypeOK, DiskTypeOK, ControlTypeOK, Local,
        Unclaimed,
        Carried, HoldsItsRow, NextInQuery, Staged, ControlOK, Contents
  <2> QED
    BY <2>1, <2>2, InsideKeeps, UnclaimedKeeps
<1>5. ASSUME NEW o \in Objects, DownloadMissing(p, o) PROVE ArchiveInv'
  <2>1. Inside(p) /\ pc[p] \in Filling /\ UNCHANGED <<rowJob, daId>>
    BY <1>0, <1>5 DEF DownloadMissing, Packing, TypeOK, StorageTypeOK,
        DiskTypeOK, ControlTypeOK
  <2>2. Local(p)'
    BY <1>0, <1>5
    DEF DownloadMissing, TypeOK, StorageTypeOK, DiskTypeOK, ControlTypeOK,
        Local, Unclaimed,
        Carried, HoldsItsRow
  <2> QED
    BY <2>1, <2>2, InsideKeeps, UnclaimedKeeps
<1>6. CASE RecordChecksum(p)
  <2>1. Inside(p) /\ pc[p] \in Filling /\ UNCHANGED <<rowJob, daId>>
    BY <1>0, <1>6 DEF RecordChecksum, Packing, TypeOK, StorageTypeOK,
        DiskTypeOK, ControlTypeOK
  <2>2. Local(p)'
    BY <1>0, <1>6
    DEF RecordChecksum, TypeOK, StorageTypeOK, DiskTypeOK, ControlTypeOK,
        Local, Unclaimed,
        Carried, HoldsItsRow, Staged
  <2> QED
    BY <2>1, <2>2, InsideKeeps, UnclaimedKeeps
<1>7. CASE WriteManifest(p)
  <2>1. Inside(p) /\ pc[p] \in Filling /\ UNCHANGED <<rowJob, daId>>
    BY <1>0, <1>7 DEF WriteManifest, Packing, TypeOK, StorageTypeOK,
        DiskTypeOK, ControlTypeOK
  <2>2. Local(p)'
    BY <1>0, <1>7
    DEF WriteManifest, TypeOK, StorageTypeOK, DiskTypeOK, ControlTypeOK,
        Local, Unclaimed,
        Carried, HoldsItsRow, AllStaged, Staged
  <2> QED
    BY <2>1, <2>2, InsideKeeps, UnclaimedKeeps
<1>8. CASE StagingLost(p)
  <2>1. Inside(p) /\ pc[p] \in Filling /\ UNCHANGED <<rowJob, daId>>
    BY <1>0, <1>8 DEF StagingLost, Packing, TypeOK, StorageTypeOK, DiskTypeOK,
        ControlTypeOK
  <2>2. Local(p)'
    BY <1>0, <1>8
    DEF StagingLost, TypeOK, StorageTypeOK, DiskTypeOK, ControlTypeOK, Local,
        Unclaimed,
        Carried, HoldsItsRow
  <2> QED
    BY <2>1, <2>2, InsideKeeps, UnclaimedKeeps
<1>9. CASE BuildTar(p)
  <2>1. Inside(p) /\ pc[p] \in Filling /\ UNCHANGED <<rowJob, daId>>
    BY <1>0, <1>9 DEF BuildTar, Packing, TypeOK, StorageTypeOK, DiskTypeOK,
        ControlTypeOK
  <2>2. Local(p)'
    BY <1>0, <1>9
    DEF BuildTar, TypeOK, StorageTypeOK, DiskTypeOK, ControlTypeOK, Local,
        Unclaimed,
        Carried, HoldsItsRow, Staged, Imaged, PackerTypeOK
  <2> QED
    BY <2>1, <2>2, InsideKeeps, UnclaimedKeeps
<1>10. CASE PublishTar(p)
  <2>1. Inside(p) /\ pc[p] \in Filling /\ UNCHANGED <<rowJob, daId>>
    BY <1>0, <1>10 DEF PublishTar, Packing, TypeOK, StorageTypeOK, DiskTypeOK,
        ControlTypeOK
  <2>2. Local(p)'
    BY <1>0, <1>10
    DEF PublishTar, TypeOK, StorageTypeOK, DiskTypeOK, ControlTypeOK, Local,
        Unclaimed,
        Carried, HoldsItsRow, Imaged, Stored, ControlOK, Contents
  <2> QED
    BY <2>1, <2>2, InsideKeeps, UnclaimedKeeps
<1>11. CASE ClearDirectory(p)
  <2>1. Inside(p) /\ pc[p] \in Filling /\ UNCHANGED <<rowJob, daId>>
    BY <1>0, <1>11 DEF ClearDirectory, Packing, TypeOK, StorageTypeOK,
        DiskTypeOK, ControlTypeOK
  <2>2. Local(p)'
    BY <1>0, <1>11
    DEF ClearDirectory, TypeOK, StorageTypeOK, DiskTypeOK, ControlTypeOK,
        Local, Unclaimed,
        Carried, HoldsItsRow, Staged, Stored, ControlOK, Contents
  <2> QED
    BY <2>1, <2>2, InsideKeeps, UnclaimedKeeps
<1>12. ASSUME NEW o \in Objects, CopyMember(p, o) PROVE ArchiveInv'
  <2>1. Inside(p) /\ pc[p] \in Filling /\ UNCHANGED <<rowJob, daId>>
    BY <1>0, <1>12 DEF CopyMember, Packing, TypeOK, StorageTypeOK, DiskTypeOK,
        ControlTypeOK
  <2>2. /\ job[p] \in Jobs /\ pc[p] = "copy"
        /\ archive' = [archive EXCEPT ![job[p]][o] = staging[job[p]][o]]
        /\ todo' = [todo EXCEPT ![p] = @ \ {o}]
        /\ UNCHANGED <<pc, job, rid, listed, rowJob, staging>>
    BY <1>0, <1>12 DEF CopyMember, ControlOK
  <2>3. Stored(p, listed[p] \ todo[p])' /\ Staged(p, listed[p])'
    <3>1. Stored(p, listed[p] \ todo[p]) /\ Staged(p, listed[p])
      BY <1>0, <2>2 DEF Carried
    <3>2. \A x \in Objects : archive'[job[p]][x] =
            IF x = o THEN staging[job[p]][o] ELSE archive[job[p]][x]
      BY <1>0, <2>2 DEF TypeOK, StorageTypeOK, DiskTypeOK, Contents
    <3>3. listed[p] \subseteq Objects /\ todo'[p] = todo[p] \ {o}
      BY <1>0, <2>2 DEF TypeOK, StorageTypeOK, ControlTypeOK
    <3> QED BY <2>2, <3>1, <3>2, <3>3 DEF Stored, Staged
  <2>4. Local(p)'
    BY <1>0, <2>2, <2>3 DEF Local, Unclaimed, Carried, HoldsItsRow
  <2> QED
    BY <2>1, <2>4, InsideKeeps, UnclaimedKeeps
<1>13. CASE CopyManifest(p)
  <2>1. Inside(p) /\ pc[p] \in Filling /\ UNCHANGED <<rowJob, daId>>
    BY <1>0, <1>13 DEF CopyManifest, Packing, TypeOK, StorageTypeOK,
        DiskTypeOK, ControlTypeOK
  <2>2. Local(p)'
    BY <1>0, <1>13
    DEF CopyManifest, TypeOK, StorageTypeOK, DiskTypeOK, ControlTypeOK, Local,
        Unclaimed,
        Carried, HoldsItsRow, Stored
  <2> QED
    BY <2>1, <2>2, InsideKeeps, UnclaimedKeeps
<1>14. CASE RecordDigest(p)
  <2>1. Inside(p) /\ pc[p] \in Filling /\ UNCHANGED <<rowJob, daId>>
    BY <1>0, <1>14 DEF RecordDigest, Packing, TypeOK, StorageTypeOK,
        DiskTypeOK, ControlTypeOK
  <2>2. Local(p)'
    BY <1>0, <1>14
    DEF RecordDigest, TypeOK, StorageTypeOK, DiskTypeOK, ControlTypeOK, Local,
        Unclaimed,
        Carried, HoldsItsRow, Stored
  <2> QED
    BY <2>1, <2>2, InsideKeeps, UnclaimedKeeps
<1>15. CASE UpsertRow(p)
  <2> DEFINE r == RowOf[job[p]]
  <2>1. r \in Rows /\ rowJob[r] = NoJob
    BY <1>0, <1>15, StorageAssumption DEF UpsertRow, Unclaimed, ControlOK,
        StorageAssumption
  <2>2. /\ rid' = [rid EXCEPT ![p] = r]
        /\ rowJob' = [rowJob EXCEPT ![r] = job[p]]
        /\ UNCHANGED <<archive, daId>>
    BY <1>15, <2>1 DEF UpsertRow, ReturnedIds
  <2>3. Inside(p)
    BY <1>0, <1>15 DEF UpsertRow, Packing, TypeOK, StorageTypeOK,
        CatalogTypeOK, ControlTypeOK
  <2>4. Local(p)'
    BY <1>0, <1>15, <2>1, <2>2
    DEF UpsertRow, ToAttach, TypeOK, StorageTypeOK, CatalogTypeOK,
        ControlTypeOK,
        Local, Unclaimed, Carried, HoldsItsRow, Stored, ControlOK
  <2>5. RowsNameTheirArchive'
    BY <1>0, <2>1, <2>2 DEF ArchiveInv, CarriedIntoArchive,
        RowsNameTheirArchive, TypeOK, StorageTypeOK, CatalogTypeOK
  <2>6. AttachedIsArchived'
    BY <1>0, <2>1, <2>2 DEF ArchiveInv, AttachedIsArchived, TypeOK,
        StorageTypeOK, CatalogTypeOK
  <2> QED
    BY <1>15, <2>3, <2>4, <2>5, <2>6, InsideKeeps DEF UpsertRow
<1>16. ASSUME NEW o \in Objects, Attach(p, o) PROVE ArchiveInv'
  <2>1. Inside(p) /\ UNCHANGED <<rowJob, archive>>
    BY <1>0, <1>16 DEF Attach, Packing, TypeOK, StorageTypeOK, ControlTypeOK
  <2>2. Local(p)'
    BY <1>0, <1>16
    DEF Attach, NextInQuery, TypeOK, StorageTypeOK, ControlTypeOK, Local,
        Unclaimed, Carried, HoldsItsRow, Stored
  <2>3. RowsNameTheirArchive'
    BY <2>1 DEF ArchiveInv, CarriedIntoArchive, RowsNameTheirArchive
  <2>4. o \in listed[p] /\ daId' = [daId EXCEPT ![o] = rid[p]]
    BY <1>0, <1>16 DEF Attach, NextInQuery, Carried
  <2>5. rowJob[rid[p]] = job[p] /\ job[p] # NoJob /\ archive[job[p]][o] # 0
    BY <1>0, <1>16, <2>4, StorageAssumption DEF Attach, HoldsItsRow, Carried,
        Stored, ControlOK, StorageAssumption
  <2>6. AttachedIsArchived'
    BY <1>0, <2>1, <2>4, <2>5 DEF ArchiveInv, AttachedIsArchived, TypeOK,
        StorageTypeOK, CatalogTypeOK
  <2> QED
    BY <1>16, <2>1, <2>2, <2>3, <2>6, InsideKeeps DEF Attach
<1>17. CASE CleanStaging(p)
  <2>1. Inside(p) /\ UNCHANGED <<rowJob, archive, daId>>
    BY <1>0, <1>17 DEF CleanStaging, Packing, TypeOK, StorageTypeOK,
        DiskTypeOK, ControlTypeOK
  <2>2. Local(p)'
    BY <1>0, <1>17
    DEF CleanStaging, TypeOK, StorageTypeOK, ControlTypeOK, Local, Unclaimed,
        Carried, HoldsItsRow
  <2>3. RowsNameTheirArchive' /\ AttachedIsArchived'
    BY <2>1 DEF ArchiveInv, CarriedIntoArchive, RowsNameTheirArchive,
        AttachedIsArchived
  <2> QED
    BY <1>17, <2>1, <2>2, <2>3, InsideKeeps DEF CleanStaging
<1> QED
  BY <1>1, <1>2, <1>3, <1>4, <1>5, <1>6, <1>7, <1>8, <1>9, <1>10, <1>11,
     <1>12, <1>13, <1>14, <1>15, <1>16, <1>17 DEF Packing, PackerStep

\* Every step of the system keeps the invariant.
LEMMA NextKeepsArchive ==
  ASSUME Partitioned, TypeInv, ArchiveInv, [Next]_vars
  PROVE  ArchiveInv'
<1>1. ASSUME NEW p \in Procs, Scanning(p) \/ Reaping(p) PROVE ArchiveInv'
  BY <1>1, ScanningOutside, ReapingOutside, OutsideKeeps
<1>2. ASSUME NEW p \in Procs, Crash(p) PROVE ArchiveInv'
  <2>1. Outside(p)
    BY <1>2 DEF Crash, Outside, Others, SameLocals, InPack, Filling, Goto,
        Return,
      objectVars, rowVars, diskVars, TypeInv, TypeOK, StorageTypeOK,
          ControlTypeOK, PackerTypeOK
  <2> QED BY <2>1, OutsideKeeps
<1>3. ASSUME UNCHANGED <<objectVars, rowVars, diskVars, controlVars, image>>
      PROVE  ArchiveInv'
  BY <1>3 DEF objectVars, rowVars, diskVars, controlVars, ArchiveInv,
      CarriedIntoArchive, RowsNameTheirArchive, AttachedIsArchived, Unclaimed,
      Carried, HoldsItsRow, Staged, Imaged, Stored
<1>4. ASSUME NEW o \in Objects, Write(o) \/ Vanish(o) PROVE ArchiveInv'
  BY <1>3, <1>4 DEF Write, Vanish
<1>5. CASE UNCHANGED vars
  BY <1>3, <1>5 DEF vars, storageVars
<1> QED BY <1>1, <1>2, <1>4, <1>5, PackingKeeps DEF Next

\* What a packer listed is in the place it will be read from next, and what is
\* attached is archived, in every state of every behaviour.
THEOREM ArchiveInvariance ==
  ASSUME Partitioned
  PROVE  Spec => []ArchiveInv
<1>1. Init => ArchiveInv
  BY DEF Init, StorageInit, ArchiveInv, CarriedIntoArchive,
      RowsNameTheirArchive, AttachedIsArchived, Unclaimed, Carried,
      HoldsItsRow, Filling
<1>2. TypeInv /\ ArchiveInv /\ [Next]_vars => ArchiveInv'
  BY NextKeepsArchive
<1> QED BY <1>1, <1>2, Typing, PTL DEF Spec

\* From the listing of a window to the last attachment no object is lost on its
\* way into the archive (packer.py steps 1-9).
THEOREM ListedIsAlwaysCarried ==
  ASSUME Partitioned
  PROVE  Spec => []CarriedIntoArchive
<1>1. ArchiveInv => CarriedIntoArchive
  BY DEF ArchiveInv
<1> QED BY <1>1, ArchiveInvariance, PTL

\* An object attached to a daily archive is a member of the file its row names,
\* through crashes between any two steps of pack_weekly and pack_daily,
\* overlapping windows, rescans, reaps and deletions by others.
THEOREM AttachedIsAlwaysArchived ==
  ASSUME Partitioned
  PROVE  Spec => []AttachedIsArchived
<1>1. ArchiveInv => AttachedIsArchived
  BY DEF ArchiveInv
<1> QED BY <1>1, ArchiveInvariance, PTL
=============================================================================
