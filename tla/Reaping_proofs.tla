--------------------------- MODULE Reaping_proofs ---------------------------
(***************************************************************************)
(* Proofs about what reaping may remove, for every value of the constants  *)
(* but those a theorem names; no two packers are started on archives of    *)
(* one row.                                                                *)
(*   - With one content per key, DELETE loses nothing.  With a second one  *)
(*     that is false, because HEAD and DELETE are two requests.            *)
(*   - With one content per key and nobody else deleting, the whole system *)
(*     implements Custody.                                                 *)
(*   - With any number of contents and any faults of the OBS client, what  *)
(*     is marked obs_deleted is in a recorded archive.                     *)
(*   - With any number of contents, what the ETag gate approves is         *)
(*     archived, when no object is scanned twice; with one content per     *)
(*     key, also when it is.                                               *)
(***************************************************************************)
EXTENDS ArchiveSystem_proofs

\* What a reaper has still to visit was attached to some row and stays so.
VisitsAttached ==
  \A p \in Procs : pc[p] \in {"reap", "delete", "mark"} =>
    /\ \A o \in todo[p] : o \in Objects /\ daId[o] # NoRow
    /\ pc[p] \in {"delete", "mark"} => cur[p] \in todo[p]

\* An attachment is changed, never dropped.
LEMMA AttachmentsStay ==
  ASSUME TypeInv, ArchiveInv, [Next]_vars, NEW o \in Objects, daId[o] # NoRow
  PROVE  daId'[o] # NoRow
<1> USE DEF objectVars, bucketVars
<1>1. ASSUME NEW p \in Procs, Packing(p) PROVE daId'[o] # NoRow
  <2>1. ASSUME NEW x \in Objects, Attach(p, x) PROVE daId'[o] # NoRow
    <3>1. rid[p] \in Rows
      BY <2>1, StorageAssumption DEF Attach, ArchiveInv, CarriedIntoArchive,
          HoldsItsRow, TypeInv, ControlOK, InPack
    <3>2. daId' = [daId EXCEPT ![x] = rid[p]]
      BY <2>1 DEF Attach
    <3> QED
      BY <3>1, <3>2, StorageAssumption DEF TypeInv, TypeOK, StorageTypeOK,
          CatalogTypeOK
  <2>2. CASE ~\E x \in Objects : Attach(p, x)
    <3>1. daId' = daId
      BY <1>1, <2>2 DEF Packing, PackerStep, BeginPack, ListWindow, ListEmpty,
          Download, DownloadMissing, RecordChecksum, WriteManifest,
          StagingLost, BuildTar, PublishTar, ClearDirectory, CopyMember,
          CopyManifest, RecordDigest, UpsertRow, CleanStaging
    <3> QED BY <3>1
  <2> QED BY <2>1, <2>2
<1>2. ASSUME NEW p \in Procs, Scanning(p) \/ Reaping(p) \/ Crash(p)
      PROVE  daId'[o] # NoRow
  <2>1. daId' = daId
    BY <1>2 DEF Scanning, ScannerStep, ListObject, PromoteWrite, SkipDeleted,
        AcceptListed, UpsertListed, PromoteList, PromoteEnd, Reaping,
        ReaperStep, BeginReap, HeadGone, HeadMatch, HeadMismatch,
        DeleteObject, MarkDeleted, EndReap, Crash
  <2> QED BY <2>1
<1>3. ASSUME NEW x \in Objects, Write(x) \/ Vanish(x) PROVE daId'[o] # NoRow
  BY <1>3 DEF Write, Vanish
<1>4. CASE UNCHANGED vars
  BY <1>4 DEF vars, storageVars
<1> QED BY <1>1, <1>2, <1>3, <1>4 DEF Next

\* A step after which a process visits no objects it did not visit before.
LEMMA VisitsKept ==
  ASSUME TypeInv, ArchiveInv, VisitsAttached, [Next]_vars,
         \A q \in Procs : pc'[q] \in {"reap", "delete", "mark"} =>
           \/ /\ \A o \in todo'[q] : o \in Objects /\ daId[o] # NoRow
              /\ pc'[q] \in {"delete", "mark"} => cur'[q] \in todo'[q]
           \/ UNCHANGED <<pc[q], todo[q], cur[q]>>
  PROVE  VisitsAttached'
BY AttachmentsStay DEF VisitsAttached

\* Every step of the system keeps the invariant.
LEMMA NextVisits ==
  ASSUME TypeInv, ArchiveInv, VisitsAttached, [Next]_vars
  PROVE  VisitsAttached'
<1> USE DEF TypeInv, TypeOK, StorageTypeOK, ControlTypeOK, Goto, Return
<1>1. ASSUME NEW p \in Procs, Scanning(p) PROVE VisitsAttached'
  BY <1>1, VisitsKept DEF Scanning, ScannerStep, ListObject, PromoteWrite,
      SkipDeleted, AcceptListed, UpsertListed, PromoteList, PromoteEnd,
      ScannerReturn
<1>2. ASSUME NEW p \in Procs, Packing(p) PROVE VisitsAttached'
  BY <1>2, VisitsKept DEF Packing, PackerStep, BeginPack, ListWindow,
      ListEmpty, Download, DownloadMissing, RecordChecksum, WriteManifest,
      StagingLost, BuildTar, PublishTar, ClearDirectory, CopyMember,
      CopyManifest, RecordDigest, UpsertRow, Attach, CleanStaging,
      PackerReturn
<1>3. ASSUME NEW p \in Procs, Reaping(p) PROVE VisitsAttached'
  <2>1. ASSUME NEW r \in Rows, BeginReap(p, r) PROVE VisitsAttached'
    BY <2>1, StorageAssumption, VisitsKept DEF BeginReap, ToReap, AttachedTo
  <2>2. ASSUME NEW o \in Objects, HeadGone(p, o) \/ HeadMatch(p, o)
        PROVE  VisitsAttached'
    BY <2>2, VisitsKept DEF HeadGone, HeadMatch, Visits, VisitsAttached
  <2>3. CASE DeleteObject(p) \/ MarkDeleted(p)
    BY <2>3, VisitsKept DEF DeleteObject, MarkDeleted, VisitsAttached
  <2>4. CASE EndReap(p) \/ \E o \in Objects : HeadMismatch(p, o)
    BY <2>4, VisitsKept DEF EndReap, HeadMismatch, ReaperReturn
  <2> QED BY <1>3, <2>1, <2>2, <2>3, <2>4 DEF Reaping, ReaperStep
<1>4. ASSUME NEW p \in Procs, Crash(p) PROVE VisitsAttached'
  BY <1>4, VisitsKept DEF Crash
<1>5. ASSUME NEW o \in Objects, Write(o) \/ Vanish(o) PROVE VisitsAttached'
  BY <1>5, VisitsKept DEF Write, Vanish, controlVars
<1>6. CASE UNCHANGED vars
  BY <1>6, VisitsKept DEF vars, storageVars, controlVars
<1> QED BY <1>1, <1>2, <1>3, <1>4, <1>5, <1>6 DEF Next

\* An attached object has a copy in a recorded archive ...
LEMMA AttachedHasCopy ==
  ASSUME TypeInv, ArchiveInv, NEW o \in Objects, daId[o] # NoRow
  PROVE  \E v \in Versions \ {0} : Kept(o, v)
<1>1. /\ daId[o] \in Rows
      /\ rowJob[daId[o]] # NoJob
      /\ archive[rowJob[daId[o]]][o] # 0
  BY DEF TypeInv, TypeOK, StorageTypeOK, CatalogTypeOK, ArchiveInv,
      AttachedIsArchived
<1>2. rowJob[daId[o]] \in Jobs
  BY <1>1 DEF TypeInv, TypeOK, StorageTypeOK, CatalogTypeOK
<1>3. archive[rowJob[daId[o]]][o] \in Versions
  BY <1>2 DEF TypeInv, TypeOK, StorageTypeOK, DiskTypeOK, Contents
<1>4. Kept(o, archive[rowJob[daId[o]]][o])
  BY <1>1 DEF Kept
<1> QED BY <1>1, <1>3, <1>4

\* ... which with one content per key is that one.
LEMMA AttachedIsKept ==
  ASSUME MaxVersion = 1, TypeInv, ArchiveInv,
         NEW o \in Objects, daId[o] # NoRow
  PROVE  Kept(o, 1)
<1>1. Versions \ {0} = {1}
  BY DEF Versions
<1> QED BY <1>1, AttachedHasCopy

\* So whatever a reaper is about to delete is kept.
LEMMA VisitedIsKept ==
  ASSUME MaxVersion = 1, TypeInv, ArchiveInv, VisitsAttached
  PROVE  DeleteIsSafe
<1> SUFFICES ASSUME NEW p \in Procs, pc[p] = "delete", obs[cur[p]] # 0
             PROVE  Kept(cur[p], obs[cur[p]])
  BY DEF DeleteIsSafe
<1>1. cur[p] \in Objects /\ daId[cur[p]] # NoRow
  BY DEF VisitsAttached
<1>2. obs[cur[p]] = 1
  BY <1>1 DEF TypeInv, TypeOK, StorageTypeOK, BucketTypeOK, Versions
<1> QED BY <1>1, <1>2, AttachedIsKept

\* What a reaper is about to delete, if the bucket still holds it, is in a
\* recorded archive, whatever crashes, scans, packs and other reaps happen
\* between its gates and the DELETE.
THEOREM DeleteIsAlwaysSafe ==
  ASSUME Partitioned, MaxVersion = 1
  PROVE  Spec => []DeleteIsSafe
<1>1. Init => VisitsAttached
  BY DEF Init, StorageInit, VisitsAttached
<1>2. TypeInv /\ ArchiveInv /\ VisitsAttached /\ [Next]_vars => VisitsAttached'
  BY NextVisits
<1>3. TypeInv /\ ArchiveInv /\ VisitsAttached => DeleteIsSafe
  BY VisitedIsKept
<1> QED BY <1>1, <1>2, <1>3, Typing, ArchiveInvariance, PTL DEF Spec

\* What is marked obs_deleted was attached when the reaper visited it.
DeletedAttached ==
  \A o \in Objects : status[o] = "obs_deleted" => daId[o] # NoRow

\* Only MarkDeleted marks, and an attachment is never dropped.
LEMMA NextDeletesAttached ==
  ASSUME TypeInv, ArchiveInv, VisitsAttached, DeletedAttached, [Next]_vars
  PROVE  DeletedAttached'
<1> USE DEF objectVars, bucketVars, TypeInv, TypeOK, StorageTypeOK, CatalogTypeOK
<1> SUFFICES ASSUME NEW o \in Objects, status'[o] = "obs_deleted", status[o] # "obs_deleted"
             PROVE  daId[o] # NoRow
  BY AttachmentsStay DEF DeletedAttached
<1>1. ASSUME NEW p \in Procs, Scanning(p) PROVE FALSE
  BY <1>1 DEF Scanning, ScannerStep, ListObject, SkipDeleted, AcceptListed,
     UpsertListed, RowAfterScan, PromoteList, PromoteWrite, PromoteEnd
<1>2. ASSUME NEW p \in Procs, Packing(p) PROVE FALSE
  BY <1>2 DEF Packing, PackerStep, BeginPack, ListWindow, ListEmpty,
      Download, DownloadMissing, RecordChecksum, WriteManifest, StagingLost,
      BuildTar, PublishTar, ClearDirectory, CopyMember, CopyManifest,
      RecordDigest, UpsertRow, Attach, CleanStaging
<1>3. ASSUME NEW p \in Procs, Reaping(p) PROVE daId[o] # NoRow
  <2>1. CASE MarkDeleted(p)
    BY <2>1 DEF MarkDeleted, VisitsAttached
  <2>2. CASE ~MarkDeleted(p)
    BY <1>3, <2>2 DEF Reaping, ReaperStep, BeginReap, HeadGone, HeadMatch,
       HeadMismatch, DeleteObject, EndReap
  <2> QED BY <2>1, <2>2
<1>4. ASSUME NEW p \in Procs, Crash(p) PROVE FALSE
  BY <1>4 DEF Crash
<1>5. ASSUME NEW x \in Objects, Write(x) \/ Vanish(x) PROVE FALSE
  BY <1>5 DEF Write, Vanish
<1>6. CASE UNCHANGED vars
  BY <1>6 DEF vars, storageVars
<1> QED BY <1>1, <1>2, <1>3, <1>4, <1>5, <1>6 DEF Next

\* What the catalog calls obs_deleted is in a recorded archive, for any number
\* of contents per key, whatever failures the OBS client hides and whoever else
\* deletes from the bucket.
THEOREM DeletedIsAlwaysKept ==
  ASSUME Partitioned
  PROVE  Spec => []DeletedIsKept
<1>1. Init => VisitsAttached /\ DeletedAttached
  BY DEF Init, StorageInit, VisitsAttached, DeletedAttached
<1>2. TypeInv /\ ArchiveInv /\ VisitsAttached /\ DeletedAttached /\ [Next]_vars
        => VisitsAttached' /\ DeletedAttached'
  BY NextVisits, NextDeletesAttached
<1>3. TypeInv /\ ArchiveInv /\ DeletedAttached => DeletedIsKept
  BY AttachedHasCopy DEF DeletedAttached, DeletedIsKept
<1> QED BY <1>1, <1>2, <1>3, Typing, ArchiveInvariance, PTL DEF Spec

-----------------------------------------------------------------------------
(* The promise                                                             *)

\* A copy is a copy of something: no step makes a member out of nothing.
CopiesWereWritten ==
  /\ \A o \in Objects, j \in Jobs :
       staging[j][o] # 0 \/ archive[j][o] # 0 => lastVersion[o] # 0
  /\ \A o \in Objects, p \in Procs : image[p][1][o] # 0 => lastVersion[o] # 0

\* Every content that was written is in the bucket or in a recorded archive.
HeldOrKept ==
  /\ \A o \in Objects : obs[o] # 0 => lastVersion[o] # 0
  /\ \A o \in Objects : lastVersion[o] # 0 => obs[o] = 1 \/ Kept(o, 1)
  /\ CopiesWereWritten

\* A step of a packer that is filling an archive changes nothing that is kept.
LEMMA FillingKeepsKept ==
  ASSUME TypeInv, ArchiveInv, NEW p \in Procs, pc[p] \in Filling,
         Inside(p), UNCHANGED rowJob, NEW o \in Objects, NEW v
  PROVE  Kept(o, v)' <=> Kept(o, v)
<1>1. ASSUME NEW r \in Rows, rowJob[r] # NoJob
      PROVE  archive'[rowJob[r]] = archive[rowJob[r]]
  <2>1. rowJob[r] \in Jobs /\ RowOf[rowJob[r]] = r
    BY <1>1 DEF ArchiveInv, CarriedIntoArchive, RowsNameTheirArchive, TypeInv,
        TypeOK, StorageTypeOK, CatalogTypeOK
  <2>2. rowJob[RowOf[job[p]]] = NoJob
    BY DEF ArchiveInv, CarriedIntoArchive, Unclaimed
  <2> QED BY <1>1, <2>1, <2>2 DEF Inside
<1> QED BY <1>1 DEF Kept

\* A packer changes what is kept only by writing its row, which was not there.
LEMMA RecordingKept ==
  ASSUME TypeInv, ArchiveInv, NEW p \in Procs, UpsertRow(p), NEW o \in Objects, NEW v
  PROVE  Kept(o, v)' <=> Kept(o, v) \/ archive[job[p]][o] = v
<1>1. job[p] \in Jobs /\ RowOf[job[p]] \in Rows /\ rowJob[RowOf[job[p]]] = NoJob
  BY StorageAssumption DEF UpsertRow, TypeInv, ControlOK, InPack, Filling, ArchiveInv,
     CarriedIntoArchive, Unclaimed, StorageAssumption
<1>2. /\ rowJob' = [rowJob EXCEPT ![RowOf[job[p]]] = job[p]]
      /\ archive' = archive
  BY DEF UpsertRow, diskVars
<1>3. rowJob \in [Rows -> Jobs \cup {NoJob}] /\ job[p] # NoJob
  BY <1>1, StorageAssumption DEF TypeInv, TypeOK, StorageTypeOK, CatalogTypeOK,
     StorageAssumption
<1> QED BY <1>1, <1>2, <1>3 DEF Kept

\* All other steps of a packer leave the kept contents and the bucket alone.
LEMMA PackingKeptSame ==
  ASSUME TypeInv, ArchiveInv, NEW p \in Procs, Packing(p), ~UpsertRow(p),
         NEW o \in Objects, NEW v
  PROVE  Kept(o, v)' <=> Kept(o, v)
<1>1. CASE PublishTar(p) \/ ClearDirectory(p) \/ \E x \in Objects : CopyMember(p, x)
  <2>1. pc[p] \in Filling /\ UNCHANGED rowJob
    BY <1>1 DEF PublishTar, ClearDirectory, CopyMember, Filling, rowVars
  <2>2. Inside(p)
    BY <1>1 DEF PublishTar, ClearDirectory, CopyMember, Inside, Others, SameLocals, Goto,
       rowVars, Packing, TypeInv, TypeOK, StorageTypeOK, ControlTypeOK, DiskTypeOK,
       PackerTypeOK
  <2> QED BY <2>1, <2>2, FillingKeepsKept
<1>2. CASE ~(PublishTar(p) \/ ClearDirectory(p) \/ \E x \in Objects : CopyMember(p, x))
  <2>1. UNCHANGED <<rowJob, archive>>
    BY <1>2 DEF Packing, PackerStep, BeginPack, ListWindow, ListEmpty, Download,
       DownloadMissing, RecordChecksum, WriteManifest, StagingLost, BuildTar,
       CopyManifest, RecordDigest, Attach, CleanStaging, rowVars, diskVars
  <2> QED BY <2>1 DEF Kept
<1> QED BY <1>1, <1>2

\* No step but that of a packer changes what is kept.
LEMMA OthersKeptSame ==
  ASSUME [Next]_vars, \A p \in Procs : ~Packing(p), NEW o \in Objects, NEW v
  PROVE  Kept(o, v)' <=> Kept(o, v)
<1>1. UNCHANGED <<rowJob, archive>>
  BY DEF Next, Scanning, ScannerStep, ListObject, PromoteWrite, SkipDeleted,
     AcceptListed, UpsertListed, PromoteList, PromoteEnd, Reaping, ReaperStep,
     BeginReap, HeadGone, HeadMatch, HeadMismatch, DeleteObject, MarkDeleted, EndReap,
     Crash, Write, Vanish, rowVars, diskVars, vars, storageVars
<1> QED BY <1>1 DEF Kept

\* What is kept stays kept.
LEMMA KeptStays ==
  ASSUME TypeInv, ArchiveInv, [Next]_vars, NEW o \in Objects, NEW v, Kept(o, v)
  PROVE  Kept(o, v)'
<1>1. CASE \E p \in Procs : Packing(p)
  BY <1>1, RecordingKept, PackingKeptSame
<1>2. CASE \A p \in Procs : ~Packing(p)
  BY <1>2, OthersKeptSame
<1> QED BY <1>1, <1>2

\* Packers copy from the bucket to the staging directory, into the tar, into
\* the archive.
LEMMA PackingCopies ==
  ASSUME TypeInv, HeldOrKept, NEW p \in Procs, Packing(p)
  PROVE  CopiesWereWritten'
<1> USE DEF TypeInv, TypeOK, StorageTypeOK, BucketTypeOK, DiskTypeOK, PackerTypeOK, ControlOK,
    InPack, Filling, HeldOrKept, CopiesWereWritten, Contents, Digests, bucketVars, diskVars
<1>1. /\ UNCHANGED <<obs, lastVersion>>
      /\ pc[p] \in InPack => job[p] \in Jobs
  BY DEF Packing, PackerStep, BeginPack, ListWindow, ListEmpty, Download,
     DownloadMissing, RecordChecksum, WriteManifest, StagingLost, BuildTar, PublishTar,
     ClearDirectory, CopyMember, CopyManifest, RecordDigest, UpsertRow, Attach,
     CleanStaging
<1>blank. \A o \in Objects : NoImage[1][o] = 0
  BY DEF NoImage, Nothing
<1>2. ASSUME UNCHANGED <<staging, archive>>,
             image' = image \/ image' = [image EXCEPT ![p] = NoImage]
      PROVE  CopiesWereWritten'
  BY <1>1, <1>2 DEF NoImage, Nothing
<1>3. CASE ListWindow(p) \/ CleanStaging(p)
  <2>1. /\ staging' = [staging EXCEPT ![job[p]] = Nothing]
        /\ image' = image \/ image' = [image EXCEPT ![p] = NoImage]
        /\ UNCHANGED archive
    BY <1>3 DEF ListWindow, CleanStaging, PackerReturn
  <2>2. \A o \in Objects, j \in Jobs :
          (staging[j][o] # 0 \/ archive[j][o] # 0 => lastVersion[o] # 0)'
    BY <1>1, <2>1 DEF Nothing
  <2>3. \A o \in Objects, q \in Procs : (image[q][1][o] # 0 => lastVersion[o] # 0)'
    BY <1>1, <1>blank, <2>1
  <2> QED BY <2>2, <2>3
<1>4. ASSUME NEW o \in Objects, Download(p, o) PROVE CopiesWereWritten'
  BY <1>1, <1>4 DEF Download
<1>5. CASE BuildTar(p)
  BY <1>1, <1>5 DEF BuildTar
<1>6. CASE PublishTar(p) \/ ClearDirectory(p)
  <2>1. /\ \/ archive' = [archive EXCEPT ![job[p]] = image[p][1]]
           \/ archive' = [archive EXCEPT ![job[p]] = Nothing]
        /\ UNCHANGED <<staging, image>>
    BY <1>6 DEF PublishTar, ClearDirectory
  <2>2. ASSUME NEW o \in Objects, NEW j \in Jobs, archive'[j][o] # 0
        PROVE  lastVersion[o] # 0
    <3>1. CASE j = job[p] /\ archive' = [archive EXCEPT ![job[p]] = image[p][1]]
      BY <2>2, <3>1
    <3>2. CASE j = job[p] /\ archive' = [archive EXCEPT ![job[p]] = Nothing]
      BY <2>2, <3>2 DEF Nothing
    <3>3. CASE j # job[p]
      BY <2>1, <2>2, <3>3
    <3> QED BY <2>1, <3>1, <3>2, <3>3
  <2> QED BY <1>1, <2>1, <2>2
<1>7. ASSUME NEW o \in Objects, CopyMember(p, o) PROVE CopiesWereWritten'
  BY <1>1, <1>7 DEF CopyMember
<1>8. CASE RecordDigest(p)
  BY <1>1, <1>8 DEF RecordDigest, Digest, Nothing
<1>9. CASE \/ \E j \in Jobs : BeginPack(p, j)
           \/ \E o \in Objects : DownloadMissing(p, o) \/ Attach(p, o)
           \/ ListEmpty(p) \/ RecordChecksum(p) \/ WriteManifest(p) \/ StagingLost(p)
           \/ CopyManifest(p) \/ UpsertRow(p)
  BY <1>2, <1>9 DEF BeginPack, DownloadMissing, Attach, ListEmpty, RecordChecksum,
     WriteManifest, StagingLost, CopyManifest, UpsertRow, PackerReturn
<1> QED BY <1>3, <1>4, <1>5, <1>6, <1>7, <1>8, <1>9 DEF Packing, PackerStep

\* With one content per key, and nobody else deleting, every step keeps it.
LEMMA NextHeldOrKept ==
  ASSUME MaxVersion = 1, ExternalDelete = FALSE, TypeInv, ArchiveInv, VisitsAttached,
         HeldOrKept, [Next]_vars
  PROVE  HeldOrKept'
<1> USE DEF TypeInv, TypeOK, StorageTypeOK, BucketTypeOK, DiskTypeOK, PackerTypeOK,
    HeldOrKept, CopiesWereWritten, bucketVars, diskVars
<1>1. ASSUME UNCHANGED <<obs, lastVersion>>, CopiesWereWritten' PROVE HeldOrKept'
  BY <1>1, KeptStays
<1>2. ASSUME NEW p \in Procs, Packing(p) PROVE HeldOrKept'
  <2>1. UNCHANGED <<obs, lastVersion>>
    BY <1>2 DEF Packing, PackerStep, BeginPack, ListWindow, ListEmpty, Download,
       DownloadMissing, RecordChecksum, WriteManifest, StagingLost, BuildTar, PublishTar,
       ClearDirectory, CopyMember, CopyManifest, RecordDigest, UpsertRow, Attach,
       CleanStaging
  <2> QED BY <1>1, <1>2, <2>1, PackingCopies
<1>3. ASSUME NEW p \in Procs, DeleteObject(p), UNCHANGED image PROVE HeldOrKept'
  <2>1. obs[cur[p]] # 0 => Kept(cur[p], 1)
    BY <1>3, VisitedIsKept DEF DeleteObject, DeleteIsSafe, VisitsAttached, Versions
  <2>2. \A o \in Objects : Kept(o, 1) => Kept(o, 1)'
    BY KeptStays
  <2> QED BY <1>3, <2>1, <2>2 DEF DeleteObject, Removes
<1>4. ASSUME NEW p \in Procs, Scanning(p) \/ Crash(p) \/ (Reaping(p) /\ ~DeleteObject(p))
      PROVE  HeldOrKept'
  <2>1. /\ UNCHANGED <<obs, lastVersion, staging, archive>>
        /\ image' = image \/ image' = [image EXCEPT ![p] = NoImage]
    BY <1>4 DEF Scanning, ScannerStep, ListObject, PromoteWrite, SkipDeleted,
       AcceptListed, UpsertListed, PromoteList, PromoteEnd, Reaping, ReaperStep,
       BeginReap, HeadGone, HeadMatch, HeadMismatch, MarkDeleted, EndReap, Crash
  <2>2. CopiesWereWritten'
    BY <2>1 DEF NoImage, Nothing
  <2> QED BY <1>1, <2>1, <2>2
<1>5. ASSUME NEW o \in Objects, Write(o) PROVE HeldOrKept'
  <2>1. \A x \in Objects : Kept(x, 1) => Kept(x, 1)'
    BY KeptStays
  <2> QED BY <1>5, <2>1 DEF Write, Versions
<1>6. CASE UNCHANGED vars
  BY <1>1, <1>6 DEF vars, storageVars
<1> QED BY <1>2, <1>3, <1>4, <1>5, <1>6 DEF Next, Vanish, Reaping

\* The mapping of KeepsCustody.
KeptOf == [o \in Objects |-> {v \in Versions \ {0} : Kept(o, v)}]

LEMMA NextKeepsCustody ==
  ASSUME MaxVersion = 1, ExternalDelete = FALSE, TypeInv, ArchiveInv, VisitsAttached,
         HeldOrKept, [Next]_vars
  PROVE  [promise!Next]_<<obs, KeptOf>>
<1> USE DEF TypeInv, TypeOK, StorageTypeOK, BucketTypeOK, DiskTypeOK, bucketVars, diskVars,
    Versions
<1>1. ASSUME \A o \in Objects, v \in Versions : Kept(o, v)' <=> Kept(o, v)
      PROVE  UNCHANGED KeptOf
  BY <1>1 DEF KeptOf
<1>2. ASSUME NEW p \in Procs, Packing(p), ~UpsertRow(p) PROVE UNCHANGED <<obs, KeptOf>>
  <2>1. UNCHANGED obs
    BY <1>2 DEF Packing, PackerStep, BeginPack, ListWindow, ListEmpty, Download,
       DownloadMissing, RecordChecksum, WriteManifest, StagingLost, BuildTar, PublishTar,
       ClearDirectory, CopyMember, CopyManifest, RecordDigest, Attach, CleanStaging
  <2> QED BY <1>1, <1>2, <2>1, PackingKeptSame
<1>3. ASSUME NEW p \in Procs, UpsertRow(p) PROVE promise!Record
  <2>1. UNCHANGED obs /\ job[p] \in Jobs
    BY <1>3 DEF UpsertRow, ControlOK, InPack, Filling
  <2> DEFINE S == {o \in Objects : obs[o] # 0 /\ archive[job[p]][o] # 0}
  <2>2. S \subseteq {o \in Objects : obs[o] # 0}
    OBVIOUS
  <2>3. ASSUME NEW o \in Objects
        PROVE  KeptOf'[o] = IF o \in S THEN KeptOf[o] \cup {obs[o]} ELSE KeptOf[o]
    <3>1. archive[job[p]][o] \in 0..1 /\ obs[o] \in 0..1
      BY <2>1 DEF Contents
    <3>2. \A v \in {1} : Kept(o, v)' <=> Kept(o, v) \/ archive[job[p]][o] = v
      BY <1>3, RecordingKept
    <3>3. archive[job[p]][o] # 0 /\ obs[o] = 0 => Kept(o, 1)
      BY <2>1 DEF HeldOrKept, CopiesWereWritten
    <3> QED BY <3>1, <3>2, <3>3 DEF KeptOf
  <2>4. KeptOf' = [o \in Objects |-> IF o \in S THEN KeptOf[o] \cup {obs[o]} ELSE KeptOf[o]]
    BY <2>3 DEF KeptOf
  <2> HIDE DEF S
  <2> QED BY <2>1, <2>2, <2>4 DEF promise!Record, KeptOf
<1>4. ASSUME \A p \in Procs : ~Packing(p) PROVE UNCHANGED KeptOf
  BY <1>1, <1>4, OthersKeptSame
<1>5. ASSUME NEW p \in Procs, DeleteObject(p), UNCHANGED KeptOf
      PROVE  promise!Next \/ UNCHANGED <<obs, KeptOf>>
  <2>1. cur[p] \in Objects
    BY <1>5 DEF DeleteObject, VisitsAttached
  <2>2. CASE UNCHANGED obs
    BY <1>5, <2>2
  <2>3. CASE obs[cur[p]] # 0 /\ obs' = [obs EXCEPT ![cur[p]] = 0]
    <3>1. Kept(cur[p], obs[cur[p]])
      BY <1>5, <2>3, VisitedIsKept DEF DeleteObject, DeleteIsSafe
    <3>2. obs[cur[p]] \in KeptOf[cur[p]]
      BY <2>1, <2>3, <3>1 DEF KeptOf
    <3>3. promise!Release(cur[p])
      BY <1>5, <2>3, <3>2 DEF promise!Release, KeptOf
    <3> QED BY <2>1, <3>3 DEF promise!Next
  <2>4. CASE obs[cur[p]] = 0 /\ obs' = [obs EXCEPT ![cur[p]] = 0]
    BY <1>5, <2>1, <2>4
  <2> QED BY <1>5, <2>2, <2>3, <2>4 DEF DeleteObject, Removes
<1>6. ASSUME NEW o \in Objects, Write(o), UNCHANGED KeptOf PROVE promise!Write(o)
  <2>1. obs[o] = 0 /\ obs' = [obs EXCEPT ![o] = 1]
    <3>1. lastVersion[o] = 0
      BY <1>6 DEF Write
    <3>2. obs[o] = 0
      BY <3>1 DEF HeldOrKept
    <3>3. obs' = [obs EXCEPT ![o] = 0 + 1]
      BY <1>6, <3>1 DEF Write
    <3> QED BY <3>2, <3>3
  <2>2. 1 \in 1..MaxVersion /\ 1 > obs[o]
    BY <2>1
  <2> QED BY <1>6, <2>1, <2>2, Zenon DEF promise!Write, KeptOf
<1>7. ASSUME \A p \in Procs : ~Packing(p) /\ ~DeleteObject(p), \A o \in Objects : ~Write(o)
      PROVE  UNCHANGED obs
  BY <1>7 DEF Next, Scanning, ScannerStep, ListObject, PromoteWrite, SkipDeleted,
     AcceptListed, UpsertListed, PromoteList, PromoteEnd, Reaping, ReaperStep,
     BeginReap, HeadGone, HeadMatch, HeadMismatch, MarkDeleted, EndReap, Crash, Vanish,
     vars, storageVars
<1>8. CASE \E p \in Procs : Packing(p)
  <2>1. PICK p \in Procs : Packing(p)
    BY <1>8
  <2> QED BY <1>2, <1>3, <2>1 DEF promise!Next
<1>9. CASE \A p \in Procs : ~Packing(p)
  <2>1. UNCHANGED KeptOf
    BY <1>4, <1>9
  <2> QED BY <1>5, <1>6, <1>7, <1>9, <2>1 DEF promise!Next
<1> QED BY <1>8, <1>9

\* The whole system implements Custody: contents move from the bucket into
\* recorded archives, are never lost on the way and never leave them, for any
\* number of packers, reapers and crashes, when keys are written once, nobody
\* else deletes and no two packers share a row.
THEOREM SystemKeepsCustody ==
  ASSUME Partitioned, MaxVersion = 1, ExternalDelete = FALSE
  PROVE  Spec => KeepsCustody
<1> DEFINE Inv == TypeInv /\ ArchiveInv /\ VisitsAttached /\ HeldOrKept
<1>1. Init => HeldOrKept /\ VisitsAttached
  BY SystemAssumption DEF Init, StorageInit, PackerInit, HeldOrKept, CopiesWereWritten,
     VisitsAttached, NoImage,
     Nothing, SystemAssumption
<1>2. TypeInv /\ ArchiveInv /\ VisitsAttached /\ HeldOrKept /\ [Next]_vars
        => VisitsAttached' /\ HeldOrKept'
  BY NextVisits, NextHeldOrKept
<1>3. Init => promise!Init
  BY SystemAssumption DEF Init, StorageInit, promise!Init, Kept, SystemAssumption
<1>4. TypeInv /\ ArchiveInv /\ VisitsAttached /\ HeldOrKept /\ [Next]_vars
        => [promise!Next]_<<obs, KeptOf>>
  BY NextKeepsCustody
<1> QED BY <1>1, <1>2, <1>3, <1>4, Typing, ArchiveInvariance, PTL
        DEF Spec, KeepsCustody, promise!Spec, KeptOf

-----------------------------------------------------------------------------
(* The ETag gate                                                           *)

\* There is one scanner, and it scans no object twice.
ScannedOnce == Rescans = FALSE /\ \A p, q \in Scanners : p = q

Known(o) == status[o] # "absent"

\* A copy was made after the scan that gave the row its ETag.
Fresh(o, v) == v # 0 => Known(o) /\ etag[o] <= v /\ v <= lastVersion[o]

CopiesAreFresh ==
  /\ \A o \in Objects, j \in Jobs : Fresh(o, staging[j][o]) /\ Fresh(o, archive[j][o])
  /\ \A o \in Objects, p \in Procs : Fresh(o, image[p][1][o])

\* What a scanner, a packer and a reaper hold of the rows they go by.
Holds(p) ==
  /\ pc[p] \in {"scanned", "accepted"} =>
       p \in Scanners /\ ~Known(cur[p]) /\ seen[p] <= lastVersion[cur[p]]
  /\ \A o \in listed[p] \cup todo[p] : Known(o)
  /\ pc[p] \in {"reap", "delete", "mark"} => \A o \in todo[p] : expect[p][o] = etag[o]
  /\ pc[p] \in {"delete", "mark"} => cur[p] \in todo[p]

RowsLag ==
  \A o \in Objects : obs[o] \in {0, lastVersion[o]} /\ etag[o] <= lastVersion[o]

GateInv == RowsLag /\ CopiesAreFresh /\ (\A p \in Procs : Holds(p)) /\ ApprovedIsKept

\* What a process holds of the rows.
SameHand(q) ==
  UNCHANGED <<pc[q], listed[q], todo[q], cur[q], seen[q], expect[q]>>

\* Only a scanner that writes a new row changes what the rows say of the bucket.
Calm ==
  /\ UNCHANGED etag
  /\ \A o \in Objects : Known(o)' <=> Known(o)
  /\ \A o \in Objects : lastVersion[o] <= lastVersion'[o]

\* No process touches what another one holds.
LEMMA HandsApart ==
  ASSUME TypeInv, NEW p \in Procs, Scanning(p) \/ Packing(p) \/ Reaping(p) \/ Crash(p)
  PROVE  \A q \in Procs \ {p} : SameHand(q)
<1> USE DEF SameHand, Goto, Return, TypeInv, TypeOK, StorageTypeOK, ControlTypeOK,
    ScannerTypeOK, ReaperTypeOK, controlVars
<1>1. CASE Scanning(p)
  BY <1>1 DEF Scanning, ScannerStep, ScannerReturn, ListObject, PromoteWrite, SkipDeleted,
     AcceptListed, UpsertListed, PromoteList, PromoteEnd
<1>2. CASE Reaping(p)
  BY <1>2 DEF Reaping, ReaperStep, ReaperReturn, BeginReap, HeadGone, HeadMatch,
     HeadMismatch, DeleteObject, MarkDeleted, EndReap
<1>3. CASE Crash(p)
  BY <1>3 DEF Crash
<1>4. CASE Packing(p)
  <2> USE DEF Packing, PackerReturn
  <2>1. CASE \/ \E j \in Jobs : BeginPack(p, j)
             \/ ListWindow(p) \/ ListEmpty(p)
             \/ \E o \in Objects : Download(p, o) \/ DownloadMissing(p, o)
    BY <1>4, <2>1 DEF BeginPack, ListWindow, ListEmpty, Download, DownloadMissing
  <2>2. CASE RecordChecksum(p) \/ WriteManifest(p) \/ StagingLost(p) \/ BuildTar(p)
             \/ PublishTar(p) \/ ClearDirectory(p) \/ CopyManifest(p)
    BY <1>4, <2>2 DEF RecordChecksum, WriteManifest, StagingLost, BuildTar, PublishTar,
       ClearDirectory, CopyManifest
  <2>3. CASE \/ \E o \in Objects : CopyMember(p, o) \/ Attach(p, o)
             \/ RecordDigest(p) \/ UpsertRow(p) \/ CleanStaging(p)
    BY <1>4, <2>3 DEF CopyMember, Attach, RecordDigest, UpsertRow, CleanStaging
  <2> QED BY <1>4, <2>1, <2>2, <2>3 DEF PackerStep
<1> QED BY <1>1, <1>2, <1>3, <1>4

\* All steps but the writing of a new row are calm.
LEMMA CalmSteps ==
  ASSUME TypeInv, TypeInv', GateInv, [Next]_vars,
         \A p \in Procs : ~(Scanning(p) /\ UpsertListed(p))
  PROVE  Calm
<1> USE DEF TypeInv, TypeOK, StorageTypeOK, BucketTypeOK, CatalogTypeOK, Known, Calm,
    bucketVars, objectVars
<1>0. \A o \in Objects : lastVersion[o] \in Nat
  BY StorageAssumption DEF Versions, StorageAssumption
<1>1. ASSUME UNCHANGED <<status, etag, lastVersion>> PROVE Calm
  BY <1>0, <1>1
<1>2. ASSUME NEW o \in Objects, Known(o), status'[o] # "absent",
             \A x \in Objects \ {o} : status'[x] = status[x], UNCHANGED <<etag, lastVersion>>
      PROVE  Calm
  BY <1>0, <1>2
<1>3. ASSUME NEW p \in Procs, Scanning(p) PROVE Calm
  <2>1. ASSUME NEW o \in Objects, PromoteWrite(p, o) PROVE Calm
    <3>1. Known(o)
      BY <2>1 DEF PromoteWrite, GateInv, Holds
    <3> QED BY <1>2, <2>1, <3>1 DEF PromoteWrite
  <2>2. CASE ~\E o \in Objects : PromoteWrite(p, o)
    BY <1>1, <1>3, <2>2 DEF Scanning, ScannerStep, ListObject, SkipDeleted, AcceptListed,
       PromoteList, PromoteEnd
  <2> QED BY <2>1, <2>2
<1>4. ASSUME NEW p \in Procs, Packing(p) PROVE Calm
  <2>1. ASSUME NEW o \in Objects, Attach(p, o) PROVE Calm
    <3>1. Known(o)
      BY <2>1 DEF Attach, NextInQuery, GateInv, Holds
    <3> QED BY <1>2, <2>1, <3>1 DEF Attach
  <2>2. CASE ~\E o \in Objects : Attach(p, o)
    BY <1>1, <1>4, <2>2 DEF Packing, PackerStep, BeginPack, ListWindow, ListEmpty,
       Download, DownloadMissing, RecordChecksum, WriteManifest, StagingLost, BuildTar,
       PublishTar, ClearDirectory, CopyMember, CopyManifest, RecordDigest, UpsertRow,
       CleanStaging
  <2> QED BY <2>1, <2>2
<1>5. ASSUME NEW p \in Procs, Reaping(p) \/ Crash(p) PROVE Calm
  <2>1. ASSUME MarkDeleted(p) PROVE Calm
    <3>1. cur[p] \in Objects /\ Known(cur[p])
      BY <2>1 DEF MarkDeleted, GateInv, Holds, ControlTypeOK
    <3> QED BY <1>2, <2>1, <3>1 DEF MarkDeleted
  <2>2. CASE ~MarkDeleted(p)
    BY <1>1, <1>5, <2>2 DEF Reaping, ReaperStep, BeginReap, HeadGone, HeadMatch,
       HeadMismatch, DeleteObject, EndReap, Crash
  <2> QED BY <2>1, <2>2
<1>6. ASSUME NEW o \in Objects, Write(o) \/ Vanish(o) PROVE Calm
  BY <1>0, <1>6 DEF Write, Vanish
<1>7. CASE UNCHANGED vars
  BY <1>1, <1>7 DEF vars, storageVars
<1> QED BY <1>3, <1>4, <1>5, <1>6, <1>7 DEF Next

\* What calm steps leave alone stays as true as it was.
LEMMA CalmHolds ==
  ASSUME TypeInv, TypeInv', Calm, NEW q \in Procs, Holds(q), SameHand(q)
  PROVE  Holds(q)'
<1>1. pc[q] \in {"scanned", "accepted"} =>
        /\ cur[q] \in Objects
        /\ seen[q] \in Nat /\ lastVersion[cur[q]] \in Nat /\ lastVersion'[cur[q]] \in Nat
  BY StorageAssumption DEF TypeInv, ControlOK, OnObject, TypeOK, StorageTypeOK, BucketTypeOK,
     ScannerTypeOK, Versions, StorageAssumption
<1>2. listed[q] \subseteq Objects /\ todo[q] \subseteq Objects
  BY DEF TypeInv, TypeOK, StorageTypeOK, ControlTypeOK
<1> QED BY <1>1, <1>2 DEF Holds, SameHand, Calm

LEMMA CalmFresh ==
  ASSUME TypeInv, TypeInv', Calm, NEW o \in Objects, NEW v \in Versions, Fresh(o, v)
  PROVE  v # 0 => Known(o)' /\ etag'[o] <= v /\ v <= lastVersion'[o]
<1>1. v \in Nat /\ lastVersion[o] \in Nat /\ lastVersion'[o] \in Nat
  BY StorageAssumption DEF TypeInv, TypeOK, StorageTypeOK, BucketTypeOK, Versions,
     StorageAssumption
<1> QED BY <1>1 DEF Fresh, Calm

LEMMA CalmCopies ==
  ASSUME TypeInv, TypeInv', Calm, CopiesAreFresh, UNCHANGED <<staging, archive>>,
         image' = image \/ \E p \in Procs : image' = [image EXCEPT ![p] = NoImage]
  PROVE  CopiesAreFresh'
<1>1. /\ \A o \in Objects, j \in Jobs : staging[j][o] \in Versions /\ archive[j][o] \in Versions
      /\ \A o \in Objects, q \in Procs : image[q][1][o] \in Versions
  BY DEF TypeInv, TypeOK, StorageTypeOK, DiskTypeOK, PackerTypeOK, Digests, Contents
<1>2. ASSUME NEW o \in Objects, NEW j \in Jobs
      PROVE  Fresh(o, staging[j][o])' /\ Fresh(o, archive[j][o])'
  BY <1>1, <1>2, CalmFresh DEF CopiesAreFresh, Fresh
<1>3. ASSUME NEW o \in Objects, NEW q \in Procs PROVE Fresh(o, image[q][1][o])'
  <2>1. image'[q][1][o] = image[q][1][o] \/ image'[q][1][o] = 0
    BY DEF NoImage, Nothing, TypeInv, TypeOK, PackerTypeOK
  <2> QED BY <1>1, <2>1, CalmFresh DEF CopiesAreFresh, Fresh
<1> QED BY <1>2, <1>3 DEF CopiesAreFresh

\* What a packer downloads is newer than the scan that put the object on its
\* list; from there a copy moves on.
LEMMA PackingFresh ==
  ASSUME TypeInv, TypeInv', GateInv, Calm, NEW p \in Procs, Packing(p)
  PROVE  CopiesAreFresh'
<1> USE DEF TypeInv, TypeOK, StorageTypeOK, BucketTypeOK, DiskTypeOK, PackerTypeOK, ControlOK,
    InPack, Filling, Contents, Digests, bucketVars, diskVars
<1>1. /\ UNCHANGED <<obs, lastVersion>>
      /\ pc[p] \in InPack => job[p] \in Jobs
  BY DEF Packing, PackerStep, BeginPack, ListWindow, ListEmpty, Download,
     DownloadMissing, RecordChecksum, WriteManifest, StagingLost, BuildTar, PublishTar,
     ClearDirectory, CopyMember, CopyManifest, RecordDigest, UpsertRow, Attach,
     CleanStaging
<1>2. CopiesAreFresh
  BY DEF GateInv
<1>3. \A o \in Objects : Nothing[o] = 0 /\ NoImage[1][o] = 0
  BY DEF NoImage, Nothing
<1> DEFINE Good(o, v) == v # 0 => Known(o) /\ etag[o] <= v /\ v <= lastVersion[o]
<1>4. /\ \A o \in Objects, j \in Jobs : Good(o, staging[j][o]) /\ Good(o, archive[j][o])
      /\ \A o \in Objects, q \in Procs : Good(o, image[q][1][o])
  BY <1>2 DEF CopiesAreFresh, Fresh
<1>5. ASSUME \A o \in Objects, j \in Jobs : Good(o, staging'[j][o]) /\ Good(o, archive'[j][o]),
             \A o \in Objects, q \in Procs : Good(o, image'[q][1][o])
      PROVE  CopiesAreFresh'
  BY <1>1, <1>5 DEF CopiesAreFresh, Fresh, Calm
<1>6. \A o \in Objects : Good(o, 0)
  OBVIOUS
<1> HIDE DEF Good
<1>7. ASSUME UNCHANGED <<staging, archive>>,
             image' = image \/ image' = [image EXCEPT ![p] = NoImage]
      PROVE  CopiesAreFresh'
  BY <1>3, <1>4, <1>5, <1>6, <1>7
<1>8. CASE ListWindow(p) \/ CleanStaging(p)
  <2>1. /\ staging' = [staging EXCEPT ![job[p]] = Nothing]
        /\ image' = image \/ image' = [image EXCEPT ![p] = NoImage]
        /\ UNCHANGED archive
    BY <1>8 DEF ListWindow, CleanStaging, PackerReturn
  <2>2. \A o \in Objects, j \in Jobs : Good(o, staging'[j][o]) /\ Good(o, archive'[j][o])
    BY <1>3, <1>4, <1>6, <2>1
  <2>3. ASSUME NEW o \in Objects, NEW q \in Procs PROVE Good(o, image'[q][1][o])
    <3>1. image'[q] = image[q] \/ image'[q] = NoImage
      BY <2>1
    <3> QED BY <1>3, <1>4, <1>6, <3>1
  <2> QED BY <1>5, <2>2, <2>3
<1>9. ASSUME NEW o \in Objects, Download(p, o) PROVE CopiesAreFresh'
  <2>1. Known(o)
    BY <1>9 DEF Download, NextInQuery, GateInv, Holds
  <2>2. obs[o] = lastVersion[o] /\ etag[o] <= lastVersion[o] /\ lastVersion[o] \in Nat
    BY <1>9, StorageAssumption DEF Download, GateInv, RowsLag, Versions, StorageAssumption
  <2>3. Good(o, obs[o])
    BY <2>1, <2>2 DEF Good
  <2> QED BY <1>1, <1>4, <1>5, <1>9, <2>3 DEF Download
<1>10. CASE BuildTar(p)
  BY <1>1, <1>4, <1>5, <1>10 DEF BuildTar
<1>11. CASE PublishTar(p)
  BY <1>1, <1>4, <1>5, <1>11 DEF PublishTar
<1>12. CASE ClearDirectory(p)
  BY <1>1, <1>3, <1>4, <1>5, <1>6, <1>12 DEF ClearDirectory
<1>13. ASSUME NEW o \in Objects, CopyMember(p, o) PROVE CopiesAreFresh'
  BY <1>1, <1>4, <1>5, <1>13 DEF CopyMember
<1>14. CASE RecordDigest(p)
  BY <1>1, <1>3, <1>4, <1>5, <1>6, <1>14 DEF RecordDigest, Digest
<1>15. CASE \/ \E j \in Jobs : BeginPack(p, j)
            \/ \E o \in Objects : DownloadMissing(p, o) \/ Attach(p, o)
            \/ ListEmpty(p) \/ RecordChecksum(p) \/ WriteManifest(p) \/ StagingLost(p)
            \/ CopyManifest(p) \/ UpsertRow(p)
  BY <1>7, <1>15 DEF BeginPack, DownloadMissing, Attach, ListEmpty, RecordChecksum,
     WriteManifest, StagingLost, CopyManifest, UpsertRow, PackerReturn
<1> QED BY <1>8, <1>9, <1>10, <1>11, <1>12, <1>13, <1>14, <1>15 DEF Packing, PackerStep

\* A packer lists and visits only objects that have a row.
LEMMA PackingHolds ==
  ASSUME TypeInv, TypeInv', GateInv, Calm, NEW p \in Procs, Packing(p)
  PROVE  Holds(p)' /\ pc'[p] # "delete"
<1> USE DEF Goto, Return, PackerReturn, TypeInv, TypeOK, StorageTypeOK, ControlTypeOK
<1>1. ASSUME pc'[p] \notin {"scanned", "accepted", "reap", "delete", "mark"},
             \A o \in listed'[p] \cup todo'[p] : Known(o)
      PROVE  Holds(p)' /\ pc'[p] # "delete"
  <2>1. \A o \in listed'[p] \cup todo'[p] : Known(o)'
    BY <1>1 DEF Calm
  <2> QED BY <1>1, <2>1 DEF Holds
<1>2. \A o \in listed[p] \cup todo[p] : Known(o)
  BY DEF GateInv, Holds
<1>3. CASE \/ \E j \in Jobs : BeginPack(p, j)
           \/ ListEmpty(p)
           \/ \E o \in Objects : Download(p, o) \/ DownloadMissing(p, o)
  BY <1>1, <1>2, <1>3 DEF Packing, BeginPack, ListEmpty, Download, DownloadMissing
<1>4. CASE ListWindow(p)
  BY <1>1, <1>2, <1>4 DEF Packing, ListWindow, Selected, Known
<1>5. CASE RecordChecksum(p) \/ WriteManifest(p) \/ StagingLost(p) \/ BuildTar(p)
           \/ PublishTar(p) \/ ClearDirectory(p) \/ CopyManifest(p)
  BY <1>1, <1>2, <1>5 DEF Packing, RecordChecksum, WriteManifest, StagingLost, BuildTar,
     PublishTar, ClearDirectory, CopyManifest
<1>6. CASE \/ \E o \in Objects : CopyMember(p, o) \/ Attach(p, o)
           \/ RecordDigest(p) \/ UpsertRow(p) \/ CleanStaging(p)
  BY <1>1, <1>2, <1>6 DEF Packing, CopyMember, Attach, RecordDigest, UpsertRow, ToAttach,
     CleanStaging
<1> QED BY <1>3, <1>4, <1>5, <1>6 DEF Packing, PackerStep

\* The content the gate approves is the one that was archived: the archive's is
\* at least as new as the scan, the bucket's is the newest, and both have the
\* ETag of the scan.
LEMMA ApprovalIsKept ==
  ASSUME TypeInv, ArchiveInv, VisitsAttached, GateInv, NEW p \in Procs, NEW o \in Objects,
         HeadMatch(p, o)
  PROVE  Kept(o, expect[p][o])
<1>1. /\ o \in todo[p] /\ obs[o] # 0 /\ obs[o] = expect[p][o] /\ pc[p] = "reap"
  BY DEF HeadMatch, Visits, EtagAgrees
<1>2. daId[o] # NoRow /\ expect[p][o] = etag[o]
  BY <1>1 DEF VisitsAttached, GateInv, Holds
<1>3. /\ daId[o] \in Rows /\ rowJob[daId[o]] \in Jobs /\ rowJob[daId[o]] # NoJob
      /\ archive[rowJob[daId[o]]][o] # 0
  BY <1>2 DEF TypeInv, TypeOK, StorageTypeOK, CatalogTypeOK, ArchiveInv, AttachedIsArchived
<1> DEFINE v == archive[rowJob[daId[o]]][o]
<1>4. etag[o] <= v /\ v <= lastVersion[o]
  BY <1>3 DEF GateInv, CopiesAreFresh, Fresh
<1>5. v \in Nat /\ etag[o] \in Nat /\ lastVersion[o] \in Nat /\ obs[o] = lastVersion[o]
  BY <1>1, <1>3, StorageAssumption DEF TypeInv, TypeOK, StorageTypeOK, BucketTypeOK,
     CatalogTypeOK, DiskTypeOK, Contents, Versions, StorageAssumption, GateInv, RowsLag
<1>6. v = expect[p][o]
  BY <1>1, <1>2, <1>4, <1>5
<1> QED BY <1>3, <1>6 DEF Kept

\* The ETags a reaper goes by are those of the rows.
LEMMA ReapingHolds ==
  ASSUME TypeInv, TypeInv', ArchiveInv, VisitsAttached, GateInv, Calm, NEW p \in Procs,
         Reaping(p)
  PROVE  Holds(p)' /\ (pc'[p] = "delete" => Kept(cur'[p], expect'[p][cur'[p]]))
<1> USE DEF Goto, TypeInv, TypeOK, StorageTypeOK, ControlTypeOK, ReaperTypeOK
<1>1. Holds(p) /\ \A x \in Objects : Known(x) => Known(x)' /\ etag'[x] = etag[x]
  BY DEF GateInv, Calm
<1>2. ASSUME NEW r \in Rows, BeginReap(p, r)
      PROVE  Holds(p)' /\ pc'[p] # "delete"
  <2>1. \A x \in ToReap(r) : x \in Objects /\ Known(x)
    BY <1>2 DEF BeginReap, ReapGates, AllArchived, ToReap, AttachedTo, Known
  <2>2. /\ pc'[p] = "reap" /\ listed'[p] = ToReap(r) /\ todo'[p] = ToReap(r)
        /\ expect'[p] = etag /\ etag' = etag
    BY <1>2 DEF BeginReap, objectVars
  <2>3. \A x \in ToReap(r) : Known(x)'
    BY <1>1, <2>1
  <2> QED BY <2>2, <2>3 DEF Holds
<1>3. ASSUME NEW o \in Objects, HeadGone(p, o)
      PROVE  Holds(p)' /\ pc'[p] # "delete"
  <2>1. /\ pc[p] = "reap" /\ pc'[p] = "mark" /\ cur'[p] = o /\ o \in todo[p]
        /\ UNCHANGED <<listed, todo, expect>>
    BY <1>3 DEF HeadGone, Visits
  <2> QED BY <1>1, <2>1 DEF Holds
<1>4. ASSUME NEW o \in Objects, HeadMatch(p, o)
      PROVE  Holds(p)' /\ Kept(cur'[p], expect'[p][cur'[p]])
  <2>1. /\ pc[p] = "reap" /\ pc'[p] = "delete" /\ cur'[p] = o /\ o \in todo[p]
        /\ UNCHANGED <<listed, todo, expect>>
    BY <1>4 DEF HeadMatch, Visits
  <2>2. Holds(p)'
    BY <1>1, <2>1 DEF Holds
  <2> QED BY <1>4, <2>1, <2>2, ApprovalIsKept
<1>5. CASE DeleteObject(p)
  <2>1. /\ pc[p] = "delete" /\ pc'[p] = "mark"
        /\ UNCHANGED <<cur, listed, todo, expect>>
    BY <1>5 DEF DeleteObject
  <2> QED BY <1>1, <2>1 DEF Holds
<1>6. CASE MarkDeleted(p)
  <2>1. /\ pc[p] = "mark" /\ pc'[p] = "reap"
        /\ todo'[p] = todo[p] \ {cur[p]}
        /\ UNCHANGED <<listed, expect>>
    BY <1>6 DEF MarkDeleted
  <2> QED BY <1>1, <2>1 DEF Holds
<1>7. CASE EndReap(p) \/ \E o \in Objects : HeadMismatch(p, o)
  BY <1>7 DEF EndReap, HeadMismatch, ReaperReturn, Return, Holds
<1> QED BY <1>2, <1>3, <1>4, <1>5, <1>6, <1>7 DEF Reaping, ReaperStep

\* A scanner is at an object without a row until it writes that row.
LEMMA ScanningHolds ==
  ASSUME ScannedOnce, TypeInv, TypeInv', GateInv, Calm, NEW p \in Procs, Scanning(p)
  PROVE  Holds(p)' /\ pc'[p] # "delete"
<1> USE DEF Scanning, Goto, TypeInv, TypeOK, StorageTypeOK, ControlTypeOK, ScannerTypeOK
<1>1. Holds(p) /\ \A x \in Objects : Known(x) <=> Known(x)'
  BY DEF GateInv, Calm
<1>2. ASSUME NEW o \in Objects, ListObject(p, o) PROVE Holds(p)' /\ pc'[p] # "delete"
  <2>1. /\ p \in Scanners /\ pc'[p] = "scanned" /\ cur'[p] = o /\ seen'[p] = obs[o]
        /\ ~Known(o) /\ obs[o] # 0 /\ UNCHANGED <<listed, todo, lastVersion>>
    BY <1>2 DEF ListObject, ScannedOnce, Known, bucketVars
  <2>2. obs[o] = lastVersion[o] /\ lastVersion[o] \in Nat
    BY <2>1, StorageAssumption DEF GateInv, RowsLag, BucketTypeOK, Versions,
       StorageAssumption
  <2> QED BY <1>1, <2>1, <2>2 DEF Holds
<1>3. ASSUME NEW o \in Objects, PromoteWrite(p, o) PROVE Holds(p)' /\ pc'[p] # "delete"
  BY <1>1, <1>3 DEF PromoteWrite, Holds
<1>4. CASE AcceptListed(p)
  <2>1. /\ pc[p] = "scanned" /\ pc'[p] = "accepted"
        /\ UNCHANGED <<cur, seen, listed, todo, lastVersion>>
    BY <1>4 DEF AcceptListed, bucketVars
  <2>2. cur[p] \in Objects
    BY <2>1 DEF ControlOK, OnObject
  <2> QED BY <1>1, <2>1, <2>2 DEF Holds
<1>5. CASE SkipDeleted(p) \/ UpsertListed(p) \/ PromoteEnd(p)
  BY <1>5 DEF SkipDeleted, UpsertListed, PromoteEnd, ScannerReturn, Return, Holds
<1>6. CASE PromoteList(p)
  BY <1>1, <1>6 DEF PromoteList, Discovered, Known, Holds
<1> QED BY <1>2, <1>3, <1>4, <1>5, <1>6 DEF ScannerStep

\* A new row takes the ETag of a listing that is not newer than the bucket, and
\* nobody has a copy of an object that had no row, or goes by its ETag.
LEMMA UpsertKeepsGate ==
  ASSUME ScannedOnce, TypeInv, TypeInv', ArchiveInv, GateInv, NEW p \in Procs,
         Scanning(p), UpsertListed(p)
  PROVE  RowsLag' /\ CopiesAreFresh' /\ \A q \in Procs : Holds(q)'
<1>0. PICK o \in Objects : o = cur[p]
  BY DEF UpsertListed, TypeInv, ControlOK, OnObject
<1>1. p \in Scanners /\ ~Known(o) /\ seen[p] <= lastVersion[o]
  BY <1>0 DEF UpsertListed, GateInv, Holds
<1>2. /\ etag' = [etag EXCEPT ![o] = seen[p]]
      /\ status' = [status EXCEPT ![o] = RowAfterScan(o)]
      /\ UNCHANGED <<obs, lastVersion, staging, archive, image, expect>>
  BY <1>0 DEF UpsertListed, Scanning, bucketVars, diskVars
<1>3. \A x \in Objects \ {o} : (Known(x)' <=> Known(x)) /\ etag'[x] = etag[x]
  BY <1>2 DEF Known, TypeInv, TypeOK, StorageTypeOK, CatalogTypeOK
<1>4. etag'[o] = seen[p] /\ Known(o)'
  BY <1>1, <1>2 DEF Known, RowAfterScan, TypeInv, TypeOK, StorageTypeOK, CatalogTypeOK
<1>5. RowsLag'
  BY <1>1, <1>2, <1>3, <1>4 DEF RowsLag, GateInv
<1>6. CopiesAreFresh'
  BY <1>1, <1>2, <1>3 DEF CopiesAreFresh, Fresh, GateInv
<1>7. Holds(p)'
  BY DEF UpsertListed, ScannerReturn, Return, Goto, Holds, TypeInv, TypeOK, StorageTypeOK,
     ControlTypeOK
<1>8. ASSUME NEW q \in Procs \ {p} PROVE Holds(q)'
  <2>1. Holds(q) /\ SameHand(q)
    BY HandsApart DEF GateInv
  <2>2. pc[q] \notin {"scanned", "accepted"}
    BY <1>1, <2>1 DEF Holds, ScannedOnce
  <2>3. \A x \in listed[q] \cup todo[q] : x \in Objects \ {o}
    BY <1>1, <2>1 DEF Holds, TypeInv, TypeOK, StorageTypeOK, ControlTypeOK
  <2> QED BY <1>3, <2>1, <2>2, <2>3 DEF Holds, SameHand
<1> QED BY <1>5, <1>6, <1>7, <1>8

\* The bucket holds the newest content or none, and steps that write no row
\* leave that so.
LEMMA CalmLag ==
  ASSUME TypeInv, TypeInv', GateInv, Calm, [Next]_vars
  PROVE  RowsLag'
<1>1. \A o \in Objects : etag[o] \in Nat /\ lastVersion[o] \in Nat /\ lastVersion'[o] \in Nat
  BY StorageAssumption DEF TypeInv, TypeOK, StorageTypeOK, BucketTypeOK, CatalogTypeOK, Versions,
     StorageAssumption
<1>2. \A o \in Objects : etag'[o] <= lastVersion'[o]
  BY <1>1 DEF GateInv, RowsLag, Calm
<1>3. ASSUME NEW o \in Objects, UNCHANGED lastVersion, obs'[o] = obs[o] \/ obs'[o] = 0
      PROVE  obs'[o] \in {0, lastVersion'[o]}
  BY <1>3 DEF GateInv, RowsLag
<1>4. ASSUME NEW p \in Procs, Scanning(p) \/ Crash(p), NEW o \in Objects
      PROVE  obs'[o] \in {0, lastVersion'[o]}
  BY <1>3, <1>4 DEF Scanning, ScannerStep, ListObject, PromoteWrite, SkipDeleted,
     AcceptListed, UpsertListed, PromoteList, PromoteEnd, Crash, bucketVars
<1>5. ASSUME NEW p \in Procs, Packing(p), NEW o \in Objects
      PROVE  obs'[o] \in {0, lastVersion'[o]}
  BY <1>3, <1>5 DEF Packing, PackerStep, BeginPack, ListWindow, ListEmpty, Download,
     DownloadMissing, RecordChecksum, WriteManifest, StagingLost, BuildTar, PublishTar,
     ClearDirectory, CopyMember, CopyManifest, RecordDigest, UpsertRow, Attach,
     CleanStaging, bucketVars
<1>6. ASSUME NEW p \in Procs, Reaping(p), NEW o \in Objects
      PROVE  obs'[o] \in {0, lastVersion'[o]}
  <2>1. /\ UNCHANGED lastVersion
        /\ obs' = obs \/ obs' = [obs EXCEPT ![cur[p]] = 0]
    BY <1>6 DEF Reaping, ReaperStep, BeginReap, HeadGone, HeadMatch, HeadMismatch,
       DeleteObject, Removes, MarkDeleted, EndReap, bucketVars
  <2> QED BY <1>3, <2>1 DEF TypeInv, TypeOK, StorageTypeOK, BucketTypeOK
<1>7. ASSUME NEW x \in Objects, Write(x) \/ Vanish(x), NEW o \in Objects
      PROVE  obs'[o] \in {0, lastVersion'[o]}
  BY <1>7 DEF Write, Vanish, GateInv, RowsLag, TypeInv, TypeOK, StorageTypeOK, BucketTypeOK
<1>8. ASSUME UNCHANGED vars, NEW o \in Objects PROVE obs'[o] \in {0, lastVersion'[o]}
  BY <1>3, <1>8 DEF vars, storageVars, bucketVars
<1>9. \A o \in Objects : obs'[o] \in {0, lastVersion'[o]}
  BY <1>4, <1>5, <1>6, <1>7, <1>8 DEF Next
<1> QED BY <1>2, <1>9 DEF RowsLag

\* An approval outlives the step after which it stands.
LEMMA ApprovalStays ==
  ASSUME TypeInv, TypeInv', ArchiveInv, [Next]_vars, NEW q \in Procs, pc'[q] = "delete",
         Kept(cur'[q], expect'[q][cur'[q]])
  PROVE  Kept(cur[q], expect[q][cur[q]])'
<1>1. PICK o \in Objects : o = cur'[q]
  BY DEF TypeInv, ControlOK, OnObject
<1>2. PICK v : v = expect'[q][o]
  OBVIOUS
<1>3. Kept(o, v)'
  BY <1>1, <1>2, KeptStays
<1> QED BY <1>1, <1>2, <1>3 DEF Kept

\* Every step keeps the invariant of the gate.
LEMMA NextKeepsGate ==
  ASSUME ScannedOnce, TypeInv, TypeInv', ArchiveInv, VisitsAttached, GateInv, [Next]_vars
  PROVE  GateInv'
<1> DEFINE Approved(q) == pc'[q] = "delete" => Kept(cur'[q], expect'[q][cur'[q]])
<1>1. ASSUME NEW q \in Procs, SameHand(q) PROVE Approved(q)
  BY <1>1 DEF GateInv, ApprovedIsKept, SameHand
<1>2. ASSUME \A q \in Procs : Approved(q) PROVE ApprovedIsKept'
  BY <1>2, ApprovalStays DEF ApprovedIsKept
<1> HIDE DEF Approved
<1>3. ASSUME NEW p \in Procs, Holds(p)', Approved(p), \A q \in Procs \ {p} : SameHand(q),
             Calm, CopiesAreFresh'
      PROVE  GateInv'
  <2>1. \A q \in Procs : Holds(q)'
    BY <1>3, CalmHolds DEF GateInv
  <2> QED BY <1>1, <1>2, <1>3, <2>1, CalmLag DEF GateInv
<1>4. ASSUME NEW p \in Procs, Scanning(p), UpsertListed(p) PROVE GateInv'
  <2>1. pc'[p] = "idle"
    BY <1>4 DEF UpsertListed, ScannerReturn, Return, Goto, TypeInv, TypeOK, StorageTypeOK,
       ControlTypeOK
  <2>2. Approved(p)
    BY <2>1 DEF Approved
  <2> QED BY <1>1, <1>2, <1>4, <2>2, HandsApart, UpsertKeepsGate DEF GateInv
<1>5. CASE \A p \in Procs : ~(Scanning(p) /\ UpsertListed(p))
  <2>1. Calm
    BY <1>5, CalmSteps
  <2>2. ASSUME UNCHANGED <<staging, archive>>,
               image' = image \/ \E p \in Procs : image' = [image EXCEPT ![p] = NoImage]
        PROVE  CopiesAreFresh'
    BY <2>1, <2>2, CalmCopies DEF GateInv
  <2>3. ASSUME NEW p \in Procs, Packing(p) PROVE GateInv'
    <3>1. Approved(p) /\ Holds(p)'
      BY <2>1, <2>3, PackingHolds DEF Approved
    <3> QED BY <1>3, <2>1, <2>3, <3>1, HandsApart, PackingFresh
  <2>4. ASSUME NEW p \in Procs, Scanning(p) PROVE GateInv'
    <3>1. Approved(p) /\ Holds(p)'
      BY <2>1, <2>4, ScanningHolds DEF Approved
    <3>2. UNCHANGED <<staging, archive, image>>
      BY <2>4 DEF Scanning, ScannerStep, ListObject, PromoteWrite, SkipDeleted,
         AcceptListed, UpsertListed, PromoteList, PromoteEnd, diskVars
    <3> QED BY <1>3, <2>1, <2>2, <2>4, <3>1, <3>2, HandsApart
  <2>5. ASSUME NEW p \in Procs, Reaping(p) PROVE GateInv'
    <3>1. Approved(p) /\ Holds(p)'
      BY <2>1, <2>5, ReapingHolds DEF Approved
    <3>2. UNCHANGED <<staging, archive, image>>
      BY <2>5 DEF Reaping, ReaperStep, BeginReap, HeadGone, HeadMatch, HeadMismatch,
         DeleteObject, MarkDeleted, EndReap, diskVars
    <3> QED BY <1>3, <2>1, <2>2, <2>5, <3>1, <3>2, HandsApart
  <2>6. ASSUME NEW p \in Procs, Crash(p) PROVE GateInv'
    <3>1. /\ pc'[p] = "idle" /\ listed'[p] = {} /\ todo'[p] = {}
          /\ image' = [image EXCEPT ![p] = NoImage]
          /\ UNCHANGED <<staging, archive>>
      BY <2>6 DEF Crash, Return, Goto, TypeInv, TypeOK, StorageTypeOK, ControlTypeOK,
         diskVars
    <3>2. Approved(p) /\ Holds(p)'
      BY <3>1 DEF Approved, Holds
    <3> QED BY <1>3, <2>1, <2>2, <2>6, <3>1, <3>2, HandsApart
  <2>7. ASSUME \A q \in Procs : SameHand(q), UNCHANGED <<staging, archive, image>>
        PROVE  GateInv'
    <3>1. \A q \in Procs : Holds(q)'
      BY <2>1, <2>7, CalmHolds DEF GateInv
    <3> QED BY <1>1, <1>2, <2>1, <2>2, <2>7, <3>1, CalmLag DEF GateInv
  <2>8. ASSUME NEW o \in Objects, Write(o) \/ Vanish(o) PROVE GateInv'
    BY <2>7, <2>8 DEF Write, Vanish, SameHand, controlVars, diskVars
  <2>9. CASE UNCHANGED vars
    BY <2>7, <2>9 DEF vars, storageVars, SameHand, controlVars, diskVars
  <2> QED BY <2>3, <2>4, <2>5, <2>6, <2>8, <2>9 DEF Next
<1> QED BY <1>4, <1>5

\* What the reaper's ETag gate approves is in a recorded archive, although the
\* reaper opens none: keys may be written again and deleted by anybody, any
\* process may die.  It takes one scanner that scans no object twice (a second
\* scan refreshes the ETag of a content no archive has) and no two packers that
\* share a row.
THEOREM ApprovedIsAlwaysKept ==
  ASSUME Partitioned, ScannedOnce
  PROVE  Spec => []ApprovedIsKept
<1>1. Init => VisitsAttached /\ GateInv
  BY StorageAssumption, SystemAssumption
  DEF Init, StorageInit, ScannerInit, PackerInit, ReaperInit, VisitsAttached, GateInv,
      RowsLag, CopiesAreFresh, Fresh, Holds, ApprovedIsKept, NoImage, Nothing
<1>2. TypeInv /\ ArchiveInv /\ VisitsAttached /\ [Next]_vars => VisitsAttached'
  BY NextVisits
<1>3. TypeInv /\ TypeInv' /\ ArchiveInv /\ VisitsAttached /\ GateInv /\ [Next]_vars => GateInv'
  BY NextKeepsGate
<1>4. GateInv => ApprovedIsKept
  BY DEF GateInv
<1> QED BY <1>1, <1>2, <1>3, <1>4, Typing, ArchiveInvariance, PTL DEF Spec

-----------------------------------------------------------------------------
(* The ETag gate over keys that are written once                           *)

\* The gate lets through no empty ETag: HEAD found a content equal to it.
ApprovesContent ==
  \A p \in Procs : pc[p] = "delete" => expect[p][cur[p]] # 0

LEMMA NextApproves ==
  ASSUME TypeInv, ApprovesContent, [Next]_vars
  PROVE  ApprovesContent'
<1> SUFFICES ASSUME NEW q \in Procs, pc'[q] = "delete" PROVE expect'[q][cur'[q]] # 0
  BY DEF ApprovesContent
<1> USE DEF TypeInv, TypeOK, StorageTypeOK, ControlTypeOK, ReaperTypeOK, ApprovesContent,
    Goto, Return, PackerReturn, ScannerReturn, ReaperReturn
<1>1. ASSUME UNCHANGED <<pc[q], cur[q], expect[q]>> PROVE expect'[q][cur'[q]] # 0
  BY <1>1
<1>2. ASSUME NEW p \in Procs, Scanning(p) PROVE UNCHANGED <<pc[q], cur[q], expect[q]>>
  BY <1>2 DEF Scanning, ScannerStep, ListObject, PromoteWrite, SkipDeleted, AcceptListed,
     UpsertListed, PromoteList, PromoteEnd
<1>3. ASSUME NEW p \in Procs, Packing(p) PROVE UNCHANGED <<pc[q], cur[q], expect[q]>>
  BY <1>3 DEF Packing, PackerStep, BeginPack, ListWindow, ListEmpty, Download,
     DownloadMissing, RecordChecksum, WriteManifest, StagingLost, BuildTar, PublishTar,
     ClearDirectory, CopyMember, CopyManifest, RecordDigest, UpsertRow, Attach,
     CleanStaging
<1>4. ASSUME NEW p \in Procs, Crash(p) PROVE UNCHANGED <<pc[q], cur[q], expect[q]>>
  BY <1>4 DEF Crash
<1>5. ASSUME NEW p \in Procs, NEW o \in Objects, HeadMatch(p, o) PROVE expect'[q][cur'[q]] # 0
  BY <1>5 DEF HeadMatch, EtagAgrees
<1>6. ASSUME NEW p \in Procs, Reaping(p), \A o \in Objects : ~HeadMatch(p, o)
      PROVE UNCHANGED <<pc[q], cur[q], expect[q]>>
  BY <1>6 DEF Reaping, ReaperStep, BeginReap, HeadGone, HeadMismatch, DeleteObject,
     MarkDeleted, EndReap
<1>7. ASSUME NEW o \in Objects, Write(o) \/ Vanish(o)
      PROVE  UNCHANGED <<pc[q], cur[q], expect[q]>>
  BY <1>7 DEF Write, Vanish, controlVars
<1>8. CASE UNCHANGED vars
  BY <1>8 DEF vars, storageVars, controlVars
<1> QED BY <1>1, <1>2, <1>3, <1>4, <1>5, <1>6, <1>7, <1>8 DEF Next

\* What the gate approves is then the only content there ever was, and kept.
LEMMA ApprovedOnceIsKept ==
  ASSUME MaxVersion = 1, TypeInv, ArchiveInv, VisitsAttached, ApprovesContent
  PROVE  ApprovedIsKept
<1> SUFFICES ASSUME NEW p \in Procs, pc[p] = "delete"
             PROVE  Kept(cur[p], expect[p][cur[p]])
  BY DEF ApprovedIsKept
<1>1. cur[p] \in Objects /\ daId[cur[p]] # NoRow
  BY DEF VisitsAttached
<1>2. expect[p][cur[p]] \in 0..1
  BY <1>1 DEF TypeInv, TypeOK, ReaperTypeOK, Contents, Versions
<1>3. expect[p][cur[p]] = 1
  BY <1>2 DEF ApprovesContent
<1> QED BY <1>1, <1>3, AttachedIsKept

LEMMA InitApproves == Init => ApprovesContent
BY DEF Init, StorageInit, ApprovesContent

\* Where keys are written once, rescans and any number of scanners do the ETag
\* gate no harm either: what it lets through is in a recorded archive.
THEOREM ApprovedOnceWrittenIsKept ==
  ASSUME Partitioned, MaxVersion = 1
  PROVE  Spec => []ApprovedIsKept
<1>1. Init => VisitsAttached /\ ApprovesContent
  BY InitApproves DEF Init, StorageInit, VisitsAttached
<1>2. TypeInv /\ ArchiveInv /\ VisitsAttached /\ ApprovesContent /\ [Next]_vars
        => VisitsAttached' /\ ApprovesContent'
  BY NextVisits, NextApproves
<1>3. TypeInv /\ ArchiveInv /\ VisitsAttached /\ ApprovesContent => ApprovedIsKept
  BY ApprovedOnceIsKept
<1> QED BY <1>1, <1>2, <1>3, Typing, ArchiveInvariance, PTL DEF Spec
=============================================================================
