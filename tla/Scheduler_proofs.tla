-------------------------- MODULE Scheduler_proofs --------------------------
(***************************************************************************)
(* Proofs about the weekly job, for any tables, weeks and bounds.  Every   *)
(* step of the job is a step of ArchiveSystem by the worker, kills the job *)
(* between two commands, or leaves the system alone: what the steps of the *)
(* system keep, the job keeps.  Beyond that, the job and the reapers       *)
(* beside it stay out of each other's way: statuses only move forward.     *)
(***************************************************************************)
EXTENDS Scheduler, Reaping_proofs, Deletion_proofs, Checksum_proofs

\* The types of the job's own variables.
JobTypes ==
  /\ phase \in {"off", "scan", "promote", "pack"}
  /\ toScan \subseteq Objects
  /\ toPack \subseteq Jobs

\* A system step in which nothing but the number of crashes changes.
OnlyCrashes ==
  UNCHANGED <<storageVars, seen, image, expect>> /\ crashes' \in 0..MaxCrashes

SystemStep == [Next]_vars \/ OnlyCrashes

LEMMA ScanPhaseRuns ==
  ASSUME JobTypes, ScanPhase
  PROVE  Scanning(Worker)
BY DEF JobTypes, ScanPhase, Scanning, ScannerStep

LEMMA PromotePhaseRuns ==
  ASSUME PromotePhase
  PROVE  Scanning(Worker)
BY DEF PromotePhase, Scanning, ScannerStep

LEMMA PackPhaseRuns ==
  ASSUME JobTypes, PackPhase
  PROVE  Packing(Worker)
BY DEF JobTypes, PackPhase, Packing, PackerStep

\* What a step of the job, or beside it, does to the system.
LEMMA JobRunsTheSystem ==
  ASSUME TypeInv, JobTypes, SchedulerNext
  PROVE  SystemStep
<1>1. Worker \in Procs
  BY SchedulerAssumption DEF SchedulerAssumption, Procs
<1>2. ASSUME Scanning(Worker) \/ Packing(Worker) PROVE SystemStep
  BY <1>1, <1>2 DEF SystemStep, Next
<1>3. CASE JobStep
  <2>1. ASSUME UNCHANGED systemVars PROVE SystemStep
    BY <2>1 DEF SystemStep, systemVars
  <2> QED BY <1>2, <1>3, <2>1, ScanPhaseRuns, PromotePhaseRuns, PackPhaseRuns
          DEF JobStep, StartJob, EndScan, EndPromote, SkipWeek, EndJob
<1>4. CASE JobCrash
  <2>1. CASE Crash(Worker)
    BY <1>1, <2>1 DEF SystemStep, Next
  <2>2. CASE WorkerIdle /\ crashes < MaxCrashes /\ crashes' = crashes + 1
             /\ UNCHANGED <<storageVars, seen, image, expect>>
    <3>1. crashes' \in 0..MaxCrashes
      BY <2>2, SystemAssumption DEF TypeInv, TypeOK, SystemAssumption
    <3> QED BY <2>2, <3>1 DEF SystemStep, OnlyCrashes
  <2> QED BY <1>4, <2>1, <2>2 DEF JobCrash
<1>5. ASSUME NEW o \in Objects, Write(o) PROVE SystemStep
  BY <1>5 DEF SystemStep, Next
<1>6. ASSUME NEW p \in Procs \ {Worker}, Reaping(p) PROVE SystemStep
  BY <1>6 DEF SystemStep, Next
<1> QED BY <1>3, <1>4, <1>5, <1>6 DEF SchedulerNext

\* The job's variables keep their types.
LEMMA JobTypesHold ==
  ASSUME JobTypes, SchedulerNext
  PROVE  JobTypes'
<1> USE DEF JobTypes
<1>1. CASE JobStep
  BY <1>1, SchedulerAssumption DEF JobStep, StartJob, ScanPhase, EndScan, PromotePhase,
     EndPromote, PackPhase, SkipWeek, EndJob, PendingWeeks, jobVars, SchedulerAssumption
<1>2. CASE JobCrash
  BY <1>2 DEF JobCrash
<1>3. CASE UNCHANGED jobVars
  BY <1>3 DEF jobVars
<1> QED BY <1>1, <1>2, <1>3 DEF SchedulerNext

\* Types survive the death of the job between two commands.
LEMMA OnlyCrashesTyped ==
  ASSUME TypeInv, OnlyCrashes
  PROVE  TypeInv'
BY DEF TypeInv, TypeOK, OnlyCrashes, ControlOK, storageVars, bucketVars, objectVars,
   rowVars, diskVars, controlVars, StorageTypeOK, BucketTypeOK, CatalogTypeOK,
   DiskTypeOK, ControlTypeOK, ScannerTypeOK, PackerTypeOK, ReaperTypeOK

JobInv == TypeInv /\ JobTypes

LEMMA JobInvHolds == JobInv /\ [SchedulerNext]_allVars => JobInv'
<1> SUFFICES ASSUME JobInv, [SchedulerNext]_allVars PROVE JobInv'
  OBVIOUS
<1>1. CASE SchedulerNext
  <2>1. SystemStep
    BY <1>1, JobRunsTheSystem DEF JobInv
  <2>2. TypeInv'
    BY <2>1, NextTyped, OnlyCrashesTyped DEF JobInv, SystemStep
  <2> QED BY <1>1, <2>2, JobTypesHold DEF JobInv
<1>2. CASE UNCHANGED allVars
  <2>1. TypeInv'
    BY <1>2, NextTyped DEF JobInv, allVars, systemVars
  <2>2. JobTypes'
    BY <1>2 DEF JobInv, JobTypes, allVars, jobVars
  <2> QED BY <2>1, <2>2 DEF JobInv
<1> QED BY <1>1, <1>2

LEMMA JobInvariance == SchedulerSpec => []JobInv
<1>1. SchedulerInit => JobInv
  BY InitTyped DEF SchedulerInit, JobInv, JobTypes
<1> QED BY <1>1, JobInvHolds, PTL DEF SchedulerSpec

\* The type invariant of the job and of the system it runs.
THEOREM JobTypeCorrect == SchedulerSpec => []SchedulerTypeOK
<1>1. JobInv => SchedulerTypeOK
  BY DEF JobInv, JobTypes, TypeInv, SchedulerTypeOK
<1> QED BY <1>1, JobInvariance, PTL

-----------------------------------------------------------------------------

\* The worker is the only packer: pack commands are left to the job.
OnePacker == Packers = {Worker}

\* Neither archives nor attachments, nor what a reaper has still to visit, nor
\* the bucket change when the job dies between two commands.
LEMMA OnlyCrashesKeeps ==
  ASSUME OnlyCrashes
  PROVE  /\ ArchiveInv => ArchiveInv'
         /\ VisitsAttached => VisitsAttached'
         /\ GoneInv => GoneInv'
<1> USE DEF OnlyCrashes, storageVars, bucketVars, objectVars, rowVars, diskVars, controlVars
<1>1. ArchiveInv => ArchiveInv'
  BY DEF ArchiveInv, CarriedIntoArchive, RowsNameTheirArchive, AttachedIsArchived,
     Unclaimed, Carried, HoldsItsRow, Staged, Imaged, Stored
<1>2. VisitsAttached => VisitsAttached'
  BY DEF VisitsAttached
<1>3. GoneInv => GoneInv'
  BY DEF GoneInv, DeletedIsGone, KnownWasUploaded, Uploaded
<1> QED BY <1>1, <1>2, <1>3

\* What the job and the reaper beside it keep, all together.
JobArchiveInv == JobInv /\ ArchiveInv /\ VisitsAttached

LEMMA JobArchiveInvHolds ==
  ASSUME OnePacker, JobArchiveInv, [SchedulerNext]_allVars
  PROVE  JobArchiveInv'
<1>1. SystemStep
  BY JobRunsTheSystem DEF JobArchiveInv, JobInv, SystemStep, allVars, systemVars
<1>2. Partitioned
  BY DEF OnePacker, Partitioned
<1>3. ArchiveInv' /\ VisitsAttached'
  BY <1>1, <1>2, NextKeepsArchive, NextVisits, OnlyCrashesKeeps
     DEF SystemStep, JobArchiveInv, JobInv
<1> QED BY <1>3, JobInvHolds DEF JobArchiveInv

LEMMA JobArchiveInvariance == ASSUME OnePacker PROVE SchedulerSpec => []JobArchiveInv
<1>1. SchedulerInit => JobArchiveInv
  <2>1. Init => ArchiveInv /\ VisitsAttached
    BY DEF Init, StorageInit, ArchiveInv, CarriedIntoArchive, RowsNameTheirArchive,
       AttachedIsArchived, Unclaimed, Carried, HoldsItsRow, Filling, VisitsAttached
  <2> QED BY <2>1, InitTyped DEF SchedulerInit, JobArchiveInv, JobInv, JobTypes
<1>2. JobArchiveInv /\ [SchedulerNext]_allVars => JobArchiveInv'
  BY JobArchiveInvHolds
<1> QED BY <1>1, <1>2, PTL DEF SchedulerSpec

\* What the weekly job attaches to a row is in the archive the row names, over
\* any number of weeks and runs, killed at any step and however often.
THEOREM JobArchivesWhatItAttaches ==
  ASSUME OnePacker
  PROVE  SchedulerSpec => []AttachedIsArchived
<1>1. JobArchiveInv => AttachedIsArchived
  BY DEF JobArchiveInv, ArchiveInv
<1> QED BY <1>1, JobArchiveInvariance, PTL

\* Reapers started by hand beside the job, which never starts one, delete
\* nothing that is in no recorded archive, as long as keys are written once.
THEOREM ReapBesideJobIsSafe ==
  ASSUME OnePacker, MaxVersion = 1
  PROVE  SchedulerSpec => []DeleteIsSafe
<1>1. JobArchiveInv => DeleteIsSafe
  BY VisitedIsKept DEF JobArchiveInv, JobInv
<1> QED BY <1>1, JobArchiveInvariance, PTL

\* Nor do they mark anything obs_deleted that is in no recorded archive, for any
\* number of contents per key and whatever the OBS client hides from them.
THEOREM JobKeepsTheDeleted ==
  ASSUME OnePacker
  PROVE  SchedulerSpec => []DeletedIsKept
<1>1. SchedulerInit => DeletedAttached
  BY DEF SchedulerInit, Init, StorageInit, DeletedAttached
<1>2. JobArchiveInv /\ DeletedAttached /\ [SchedulerNext]_allVars => DeletedAttached'
  <2> SUFFICES ASSUME JobArchiveInv, DeletedAttached, [SchedulerNext]_allVars
               PROVE  DeletedAttached'
    OBVIOUS
  <2>1. SystemStep
    BY JobRunsTheSystem DEF JobArchiveInv, JobInv, SystemStep, allVars, systemVars
  <2>2. OnlyCrashes => DeletedAttached'
    BY DEF OnlyCrashes, storageVars, objectVars, DeletedAttached
  <2> QED BY <2>1, <2>2, NextDeletesAttached DEF SystemStep, JobArchiveInv, JobInv
<1>3. JobArchiveInv /\ DeletedAttached => DeletedIsKept
  BY AttachedHasCopy DEF JobArchiveInv, JobInv, DeletedAttached, DeletedIsKept
<1> QED BY <1>1, <1>2, <1>3, JobArchiveInvariance, PTL DEF SchedulerSpec

\* What is marked obs_deleted stays out of the bucket, whatever the job scans.
THEOREM JobRevivesNothing ==
  ASSUME Faults = {}
  PROVE  SchedulerSpec => []DeletedIsGone
<1>1. SchedulerInit => GoneInv
  BY InitGone DEF SchedulerInit
<1>2. JobInv /\ GoneInv /\ [SchedulerNext]_allVars => GoneInv'
  <2> SUFFICES ASSUME JobInv, GoneInv, [SchedulerNext]_allVars PROVE GoneInv'
    OBVIOUS
  <2>1. SystemStep
    BY JobRunsTheSystem DEF JobInv, SystemStep, allVars, systemVars
  <2> QED BY <2>1, NextGone, OnlyCrashesKeeps DEF SystemStep, JobInv
<1>3. GoneInv => DeletedIsGone
  BY DEF GoneInv
<1> QED BY <1>1, <1>2, <1>3, JobInvariance, PTL DEF SchedulerSpec

-----------------------------------------------------------------------------
(* What every step of the job keeps, beyond the archives                   *)

\* Nor does the death of the job between two commands lose a content, change
\* what is kept of one, or disturb a gate or a checksum.
LEMMA OnlyCrashesLoses ==
  ASSUME OnlyCrashes
  PROVE  /\ UNCHANGED <<obs, KeptOf>>
         /\ HeldOrKept => HeldOrKept'
         /\ ApprovesContent => ApprovesContent'
         /\ SumInv => SumInv'
<1> USE DEF OnlyCrashes, storageVars, bucketVars, objectVars, rowVars, diskVars, controlVars
<1>1. UNCHANGED <<obs, KeptOf>>
  BY DEF KeptOf, Kept
<1>2. HeldOrKept => HeldOrKept'
  BY DEF HeldOrKept, CopiesWereWritten, Kept
<1>3. ApprovesContent => ApprovesContent'
  BY DEF ApprovesContent
<1>4. SumInv => SumInv'
  BY DEF SumInv, RowMatchesFile, DigestIsFresh, Digest
<1> QED BY <1>1, <1>2, <1>3, <1>4

\* What the packer of the job listed is where its next step will read it,
\* whatever a killed run left in the staging directory of the week.
THEOREM JobCarriesWhatItLists ==
  ASSUME OnePacker
  PROVE  SchedulerSpec => []CarriedIntoArchive
<1>1. JobArchiveInv => CarriedIntoArchive
  BY DEF JobArchiveInv, ArchiveInv
<1> QED BY <1>1, JobArchiveInvariance, PTL

\* Whatever run of the job wrote a row, and wherever runs were killed, the row
\* has the checksum of the file it names.
THEOREM JobRowsMatchFiles ==
  ASSUME OnePacker, Compressed = Jobs
  PROVE  SchedulerSpec => []RowMatchesFile
<1>1. SchedulerInit => SumInv
  BY DEF SchedulerInit, Init, StorageInit, SumInv, RowMatchesFile, DigestIsFresh
<1>2. ASSUME JobArchiveInv, SumInv, [SchedulerNext]_allVars PROVE SumInv'
  <2>1. SystemStep
    BY <1>2, JobRunsTheSystem DEF JobArchiveInv, JobInv, SystemStep, allVars, systemVars
  <2>2. Partitioned
    BY DEF OnePacker, Partitioned
  <2> QED BY <1>2, <2>1, <2>2, NextSums, OnlyCrashesLoses
          DEF SystemStep, JobArchiveInv, JobInv, ArchiveInv
<1>3. SumInv => RowMatchesFile
  BY DEF SumInv
<1> QED BY <1>1, <1>2, <1>3, JobArchiveInvariance, PTL DEF SchedulerSpec

\* The gate of a reaper beside the job, which scans every object again on every
\* run, approves only what a recorded archive has, when keys are written once.
THEOREM GateBesideJobIsSound ==
  ASSUME OnePacker, MaxVersion = 1
  PROVE  SchedulerSpec => []ApprovedIsKept
<1>1. SchedulerInit => ApprovesContent
  BY InitApproves DEF SchedulerInit
<1>2. ASSUME JobArchiveInv, ApprovesContent, [SchedulerNext]_allVars PROVE ApprovesContent'
  <2>1. SystemStep
    BY <1>2, JobRunsTheSystem DEF JobArchiveInv, JobInv, SystemStep, allVars, systemVars
  <2> QED BY <1>2, <2>1, NextApproves, OnlyCrashesLoses DEF SystemStep, JobArchiveInv, JobInv
<1>3. JobArchiveInv /\ ApprovesContent => ApprovedIsKept
  BY ApprovedOnceIsKept DEF JobArchiveInv, JobInv
<1> QED BY <1>1, <1>2, <1>3, JobArchiveInvariance, PTL DEF SchedulerSpec

\* The unattended pipeline with a reaper beside it implements Custody: from
\* upload to reap, over any number of runs and kills, no content is lost.
THEOREM JobKeepsCustody ==
  ASSUME OnePacker, MaxVersion = 1, ExternalDelete = FALSE
  PROVE  SchedulerSpec => KeepsCustody
<1>1. SchedulerInit => HeldOrKept /\ promise!Init
  BY SystemAssumption DEF SchedulerInit, Init, StorageInit, PackerInit, HeldOrKept,
     CopiesWereWritten, NoImage, Nothing, promise!Init, Kept, SystemAssumption
<1>2. ASSUME JobArchiveInv, HeldOrKept, [SchedulerNext]_allVars
      PROVE  HeldOrKept' /\ [promise!Next]_<<obs, KeptOf>>
  <2>1. SystemStep
    BY <1>2, JobRunsTheSystem DEF JobArchiveInv, JobInv, SystemStep, allVars, systemVars
  <2>2. CASE [Next]_vars
    BY <1>2, <2>2, NextHeldOrKept, NextKeepsCustody DEF JobArchiveInv, JobInv
  <2>3. CASE OnlyCrashes
    BY <1>2, <2>3, OnlyCrashesLoses
  <2> QED BY <2>1, <2>2, <2>3 DEF SystemStep
<1> QED BY <1>1, <1>2, JobArchiveInvariance, PTL
        DEF SchedulerSpec, KeepsCustody, promise!Spec, KeptOf

-----------------------------------------------------------------------------
(* The job and a reaper on one instance                                    *)

\* No two weeks share an object: their archives are windows of one week start.
WeeksApart == \A i, j \in Jobs : i # j => Window[i] \cap Window[j] = {}

\* The job never reaps, and all that runs beside it are reapers.
ReapedBeside ==
  /\ pc[Worker] \notin {"reap", "delete", "mark"}
  /\ \A p \in Procs \ {Worker} :
       /\ pc[p] \in {"idle", "reap", "delete", "mark"}
       /\ pc[p] \in {"delete", "mark"} => daId[cur[p]] # NoRow

\* Archived or deleted is what is attached, to the row of its own week.
AttachedInWindow ==
  \A o \in Objects :
    /\ daId[o] # NoRow <=> status[o] \in {"archived", "obs_deleted"}
    /\ daId[o] # NoRow => o \in Window[rowJob[daId[o]]]

\* What the job is about to write a status of is attached to nothing yet, so
\* that no reaper has its hands on it.
JobHoldsUnattached ==
  /\ pc[Worker] = "promoting" => \A o \in todo[Worker] : status[o] = "discovered"
  /\ pc[Worker] \in InPack \ {"list"} => listed[Worker] \subseteq Window[job[Worker]]
  /\ pc[Worker] \in Filling \ {"list"} =>
       \A o \in listed[Worker] : daId[o] = NoRow /\ status[o] # "absent"
  /\ pc[Worker] = "attach" =>
       \A o \in todo[Worker] : daId[o] = NoRow /\ status[o] # "absent"

HandsInv == ReapedBeside /\ AttachedInWindow /\ JobHoldsUnattached

\* The steps of the job and beside it, one by one.
LEMMA JobMoves ==
  ASSUME JobInv, [SchedulerNext]_allVars
  PROVE  \/ Scanning(Worker) \/ Packing(Worker) \/ Crash(Worker)
         \/ \E p \in Procs \ {Worker} : Reaping(p)
         \/ UNCHANGED <<objectVars, rowVars, controlVars>>
<1>1. CASE JobStep
  BY <1>1, ScanPhaseRuns, PromotePhaseRuns, PackPhaseRuns
     DEF JobInv, JobStep, StartJob, EndScan, EndPromote, SkipWeek, EndJob, systemVars, vars,
         storageVars
<1>2. CASE JobCrash
  BY <1>2 DEF JobCrash, storageVars
<1>3. ASSUME NEW o \in Objects, Write(o) PROVE UNCHANGED <<objectVars, rowVars, controlVars>>
  BY <1>3 DEF Write
<1>4. CASE UNCHANGED allVars
  BY <1>4 DEF allVars, systemVars, vars, storageVars
<1> QED BY <1>1, <1>2, <1>3, <1>4 DEF SchedulerNext

LEMMA JobScanHands ==
  ASSUME JobInv, HandsInv, Scanning(Worker)
  PROVE  Forward /\ HandsInv'
<1> DEFINE Ended(s) == s \in {"archived", "obs_deleted"}
<1> USE DEF JobInv, TypeInv, TypeOK, StorageTypeOK, CatalogTypeOK, ControlTypeOK
<1>1. Worker \in Procs
  BY SchedulerAssumption DEF SchedulerAssumption, Procs
<1>2. pc[Worker] \in {"idle", "scanned", "accepted", "promoting"}
  BY DEF Scanning, ScannerStep, ListObject, PromoteWrite, SkipDeleted, AcceptListed,
     UpsertListed, PromoteList, PromoteEnd
<1>3. ReadIsCurrent(Worker)
  BY <1>2 DEF HandsInv, JobHoldsUnattached, ReadIsCurrent, InPack, Filling
<1>4. Forward /\ ReadIsCurrent(Worker)'
  BY <1>1, <1>3, ScanningForward
<1>5. /\ pc'[Worker] \in {"idle", "scanned", "accepted", "promoting"}
      /\ \A p \in Procs \ {Worker} : UNCHANGED <<pc[p], cur[p]>>
      /\ UNCHANGED <<daId, rowJob>>
  BY <1>1 DEF Scanning, ScannerStep, ListObject, PromoteWrite, SkipDeleted, AcceptListed,
     UpsertListed, PromoteList, PromoteEnd, Goto, Return, ScannerReturn, objectVars, rowVars
<1>6. \A o \in Objects : Ended(status'[o]) <=> Ended(status[o])
  <2>1. ASSUME NEW o \in Objects, PromoteWrite(Worker, o), NEW x \in Objects
        PROVE  Ended(status'[x]) <=> Ended(status[x])
    BY <2>1 DEF PromoteWrite, HandsInv, JobHoldsUnattached
  <2>2. ASSUME UpsertListed(Worker), NEW x \in Objects
        PROVE  Ended(status'[x]) <=> Ended(status[x])
    BY <2>2 DEF UpsertListed, RowAfterScan
  <2>3. ASSUME ~UpsertListed(Worker), \A o \in Objects : ~PromoteWrite(Worker, o)
        PROVE  UNCHANGED status
    BY <2>3 DEF Scanning, ScannerStep, ListObject, SkipDeleted, AcceptListed, PromoteList,
       PromoteEnd, objectVars
  <2> QED BY <2>1, <2>2, <2>3
<1>7. ReapedBeside'
  BY <1>5 DEF HandsInv, ReapedBeside
<1>8. AttachedInWindow'
  BY <1>5, <1>6 DEF HandsInv, AttachedInWindow
<1>9. JobHoldsUnattached'
  BY <1>4, <1>5 DEF JobHoldsUnattached, ReadIsCurrent, InPack, Filling
<1> QED BY <1>4, <1>7, <1>8, <1>9 DEF HandsInv

\* What a window selects while its row is not written is attached to nothing:
\* to another week's row it cannot be.
LEMMA SelectedIsUnattached ==
  ASSUME WeeksApart, JobInv, ArchiveInv, HandsInv, pc[Worker] = "list",
         NEW o \in Selected(job[Worker])
  PROVE  daId[o] = NoRow
<1>1. /\ Worker \in Procs /\ job[Worker] \in Jobs
      /\ rowJob[RowOf[job[Worker]]] = NoJob
  BY SchedulerAssumption DEF SchedulerAssumption, Procs, JobInv, TypeInv, ControlOK, InPack,
     Filling, ArchiveInv, CarriedIntoArchive, Unclaimed
<1>2. o \in Objects /\ o \in Window[job[Worker]]
  BY <1>1, StorageAssumption DEF Selected, StorageAssumption
<1> SUFFICES ASSUME daId[o] # NoRow PROVE FALSE
  OBVIOUS
<1>3. PICK r \in Rows : r = daId[o]
  BY <1>2 DEF JobInv, TypeInv, TypeOK, StorageTypeOK, CatalogTypeOK
<1>4. rowJob[r] # NoJob /\ o \in Window[rowJob[r]]
  BY <1>2, <1>3 DEF ArchiveInv, AttachedIsArchived, HandsInv, AttachedInWindow
<1>5. rowJob[r] \in Jobs /\ RowOf[rowJob[r]] = r
  BY <1>4 DEF JobInv, TypeInv, TypeOK, StorageTypeOK, CatalogTypeOK, ArchiveInv,
     CarriedIntoArchive, RowsNameTheirArchive
<1>6. rowJob[r] = job[Worker]
  BY <1>1, <1>2, <1>4, <1>5 DEF WeeksApart
<1> QED BY <1>1, <1>4, <1>5, <1>6

\* The steps of a pack but for the listing, the row and the attachments.
LEMMA PackingIsQuiet ==
  ASSUME JobInv, HandsInv, Packing(Worker), ~ListWindow(Worker), ~UpsertRow(Worker),
         \A o \in Objects : ~Attach(Worker, o)
  PROVE  HandsInv'
<1> USE DEF JobInv, TypeInv, TypeOK, StorageTypeOK, CatalogTypeOK, ControlTypeOK
<1>1. Worker \in Procs
  BY SchedulerAssumption DEF SchedulerAssumption, Procs
<1>2. /\ UNCHANGED <<status, daId, rowJob>>
      /\ \A p \in Procs \ {Worker} : UNCHANGED <<pc[p], cur[p]>>
  BY <1>1 DEF Packing, PackerStep, BeginPack, ListEmpty, Download, DownloadMissing,
     RecordChecksum, WriteManifest, StagingLost, BuildTar, PublishTar, ClearDirectory,
     CopyMember, CopyManifest, RecordDigest, CleanStaging, Goto, Return, PackerReturn,
     objectVars, rowVars
<1>3. \/ pc'[Worker] \in {"idle", "list"}
      \/ /\ pc'[Worker] \in Filling \ {"list"} /\ pc[Worker] \in Filling \ {"list"}
         /\ UNCHANGED <<listed[Worker], job[Worker]>>
  BY <1>1 DEF Packing, PackerStep, BeginPack, ListEmpty, Download, DownloadMissing,
     RecordChecksum, WriteManifest, StagingLost, BuildTar, PublishTar, ClearDirectory,
     CopyMember, CopyManifest, RecordDigest, CleanStaging, Goto, Return, PackerReturn,
     Filling
<1>4. ReapedBeside'
  BY <1>2, <1>3 DEF HandsInv, ReapedBeside, Filling
<1>5. AttachedInWindow'
  BY <1>2 DEF HandsInv, AttachedInWindow
<1>6. JobHoldsUnattached'
  BY <1>2, <1>3 DEF HandsInv, JobHoldsUnattached, InPack, Filling
<1> QED BY <1>4, <1>5, <1>6 DEF HandsInv

LEMMA JobPackHands ==
  ASSUME WeeksApart, JobInv, ArchiveInv, HandsInv, Packing(Worker)
  PROVE  Forward /\ HandsInv'
<1> USE DEF JobInv, TypeInv, TypeOK, StorageTypeOK, CatalogTypeOK, ControlTypeOK
<1>1. Worker \in Procs
  BY SchedulerAssumption DEF SchedulerAssumption, Procs
<1>2. CASE ListWindow(Worker)
  <2>1. /\ pc[Worker] = "list" /\ pc'[Worker] = "download"
        /\ listed'[Worker] = Selected(job[Worker])
        /\ UNCHANGED <<status, daId, rowJob, job>>
        /\ \A p \in Procs \ {Worker} : UNCHANGED <<pc[p], cur[p]>>
    BY <1>1, <1>2 DEF ListWindow, Goto, objectVars, rowVars
  <2>2. job[Worker] \in Jobs
    BY <1>1, <2>1 DEF ControlOK, InPack, Filling
  <2>3. \A o \in Selected(job[Worker]) :
          o \in Window[job[Worker]] /\ status[o] # "absent" /\ daId[o] = NoRow
    BY <2>1, SelectedIsUnattached DEF Selected
  <2>4. JobHoldsUnattached'
    BY <2>1, <2>3 DEF JobHoldsUnattached
  <2>5. ReapedBeside' /\ AttachedInWindow'
    BY <2>1 DEF HandsInv, ReapedBeside, AttachedInWindow
  <2> QED BY <2>1, <2>4, <2>5, SameIsForward DEF HandsInv
<1>3. CASE UpsertRow(Worker)
  <2>1. /\ pc[Worker] = "upsert" /\ pc'[Worker] = "attach"
        /\ todo'[Worker] = listed[Worker]
        /\ rowJob' = [rowJob EXCEPT ![RowOf[job[Worker]]] = job[Worker]]
        /\ UNCHANGED <<status, daId, listed, job>>
        /\ \A p \in Procs \ {Worker} : UNCHANGED <<pc[p], cur[p]>>
    BY <1>1, <1>3 DEF UpsertRow, ToAttach, Goto, objectVars
  <2>2. rowJob[RowOf[job[Worker]]] = NoJob
    BY <1>1, <2>1 DEF ArchiveInv, CarriedIntoArchive, Unclaimed, Filling
  <2>3. \A o \in Objects : daId[o] # NoRow => UNCHANGED rowJob[daId[o]]
    BY <2>1, <2>2 DEF ArchiveInv, AttachedIsArchived
  <2>4. AttachedInWindow'
    BY <2>1, <2>3 DEF HandsInv, AttachedInWindow
  <2>5. JobHoldsUnattached'
    BY <2>1 DEF HandsInv, JobHoldsUnattached, InPack, Filling
  <2>6. ReapedBeside'
    BY <2>1 DEF HandsInv, ReapedBeside
  <2> QED BY <2>1, <2>4, <2>5, <2>6, SameIsForward DEF HandsInv
<1>4. ASSUME NEW o \in Objects, Attach(Worker, o) PROVE Forward /\ HandsInv'
  <2>1. /\ pc[Worker] = "attach" /\ o \in todo[Worker]
        /\ status' = [status EXCEPT ![o] = "archived"]
        /\ daId' = [daId EXCEPT ![o] = rid[Worker]]
        /\ todo'[Worker] = todo[Worker] \ {o}
        /\ UNCHANGED <<pc, cur, rowJob, listed, job>>
    BY <1>1, <1>4 DEF Attach, NextInQuery, rowVars
  <2>2. daId[o] = NoRow /\ status[o] \in {"discovered", "queued"}
    BY <2>1 DEF HandsInv, JobHoldsUnattached, AttachedInWindow, Statuses
  <2>3. Forward
    BY <2>1, <2>2 DEF Forward, StatusRank, Statuses
  <2>4. /\ rid[Worker] = RowOf[job[Worker]] /\ rowJob[rid[Worker]] = job[Worker]
        /\ todo[Worker] \subseteq listed[Worker]
        /\ job[Worker] \in Jobs
    BY <1>1, <2>1 DEF ArchiveInv, CarriedIntoArchive, HoldsItsRow, Carried, ControlOK, InPack
  <2>5. rid[Worker] \in Rows /\ rid[Worker] # NoRow
    BY <2>4, StorageAssumption DEF StorageAssumption
  <2>6. o \in Window[rowJob[rid[Worker]]]
    BY <2>1, <2>4 DEF HandsInv, JobHoldsUnattached, InPack
  <2>7. AttachedInWindow'
    BY <2>1, <2>5, <2>6 DEF HandsInv, AttachedInWindow
  <2>8. JobHoldsUnattached'
    BY <2>1 DEF HandsInv, JobHoldsUnattached, InPack, Filling
  <2>9. ReapedBeside'
    <3>1. \A x \in Objects : daId[x] # NoRow => daId'[x] # NoRow
      BY <2>1, <2>5
    <3>2. \A p \in Procs : pc[p] \in {"delete", "mark"} => cur[p] \in Objects
      BY DEF ControlOK, OnObject
    <3> QED BY <2>1, <3>1, <3>2 DEF HandsInv, ReapedBeside
  <2> QED BY <2>3, <2>7, <2>8, <2>9 DEF HandsInv
<1>5. CASE ~ListWindow(Worker) /\ ~UpsertRow(Worker) /\ \A o \in Objects : ~Attach(Worker, o)
  <2>1. UNCHANGED status
    BY <1>5 DEF Packing, PackerStep, BeginPack, ListEmpty, Download, DownloadMissing,
       RecordChecksum, WriteManifest, StagingLost, BuildTar, PublishTar, ClearDirectory,
       CopyMember, CopyManifest, RecordDigest, CleanStaging, objectVars
  <2> QED BY <1>5, <2>1, SameIsForward, PackingIsQuiet
<1> QED BY <1>2, <1>3, <1>4, <1>5

\* A reaper's mark falls on what is attached, and the job holds none of that.
LEMMA ReapHands ==
  ASSUME JobInv, VisitsAttached, HandsInv, NEW p \in Procs \ {Worker}, Reaping(p)
  PROVE  Forward /\ HandsInv'
<1> USE DEF JobInv, TypeInv, TypeOK, StorageTypeOK, CatalogTypeOK, ControlTypeOK
<1>1. Worker \in Procs
  BY SchedulerAssumption DEF SchedulerAssumption, Procs
<1>2. Forward
  BY ReapingForward
<1>3. /\ UNCHANGED <<daId, rowJob, pc[Worker], job[Worker], listed[Worker], todo[Worker]>>
      /\ \A q \in Procs \ {p} : UNCHANGED <<pc[q], cur[q]>>
      /\ pc'[p] \in {"idle", "reap", "delete", "mark"}
  BY <1>1 DEF Reaping, ReaperStep, BeginReap, HeadGone, HeadMatch, HeadMismatch,
     DeleteObject, MarkDeleted, EndReap, Goto, Return, ReaperReturn, objectVars, rowVars
<1>4. pc'[p] \in {"delete", "mark"} => daId[cur'[p]] # NoRow
  BY DEF Reaping, ReaperStep, BeginReap, HeadGone, HeadMatch, HeadMismatch, Visits,
     DeleteObject, MarkDeleted, EndReap, Goto, Return, ReaperReturn, VisitsAttached
<1>5. ReapedBeside'
  BY <1>1, <1>3, <1>4 DEF HandsInv, ReapedBeside
<1>6. CASE UNCHANGED status
  <2>1. AttachedInWindow' /\ JobHoldsUnattached'
    BY <1>3, <1>6 DEF HandsInv, AttachedInWindow, JobHoldsUnattached
  <2> QED BY <1>2, <1>5, <2>1 DEF HandsInv
<1>7. CASE MarkDeleted(p)
  <2>1. PICK x \in Objects : x = cur[p]
    BY <1>7 DEF MarkDeleted, ControlOK, OnObject
  <2>2. status' = [status EXCEPT ![x] = "obs_deleted"] /\ daId[x] # NoRow
    BY <1>7, <2>1 DEF MarkDeleted, HandsInv, ReapedBeside
  <2>3. status[x] \in {"archived", "obs_deleted"}
    BY <2>2 DEF HandsInv, AttachedInWindow
  <2>4. AttachedInWindow'
    BY <1>3, <2>2 DEF HandsInv, AttachedInWindow
  <2>5. JobHoldsUnattached'
    BY <1>3, <2>2, <2>3 DEF HandsInv, JobHoldsUnattached
  <2> QED BY <1>2, <1>5, <2>4, <2>5 DEF HandsInv
<1>8. MarkDeleted(p) \/ UNCHANGED status
  BY DEF Reaping, ReaperStep, BeginReap, HeadGone, HeadMatch, HeadMismatch, DeleteObject,
     EndReap, objectVars
<1> QED BY <1>6, <1>7, <1>8

\* Every step of the job and beside it moves statuses forward and keeps hands
\* apart.
LEMMA JobHands ==
  ASSUME WeeksApart, JobArchiveInv, HandsInv, [SchedulerNext]_allVars
  PROVE  Forward /\ HandsInv'
<1> USE DEF JobArchiveInv
<1>1. CASE Crash(Worker)
  <2>1. /\ UNCHANGED <<status, daId, rowJob>>
        /\ pc'[Worker] = "idle"
        /\ \A p \in Procs \ {Worker} : UNCHANGED <<pc[p], cur[p]>>
    BY <1>1, SchedulerAssumption DEF Crash, Return, Goto, JobInv, TypeInv, TypeOK,
       StorageTypeOK, ControlTypeOK, objectVars, rowVars, SchedulerAssumption, Procs
  <2>2. HandsInv'
    BY <2>1 DEF HandsInv, ReapedBeside, AttachedInWindow, JobHoldsUnattached, InPack, Filling
  <2> QED BY <2>1, <2>2, SameIsForward DEF JobInv
<1>2. CASE UNCHANGED <<objectVars, rowVars, controlVars>>
  <2>1. HandsInv'
    BY <1>2 DEF HandsInv, ReapedBeside, AttachedInWindow, JobHoldsUnattached, objectVars,
       rowVars, controlVars
  <2> QED BY <1>2, <2>1, SameIsForward DEF JobInv, objectVars
<1> QED BY <1>1, <1>2, JobMoves, JobScanHands, JobPackHands, ReapHands

\* Although the job and the reapers beside it write statuses from lists they
\* read long before, no status of an object moves back: between weeks that
\* share no object the job only ever writes what no reaper has its hands on.
THEOREM JobMovesStatusForward ==
  ASSUME OnePacker, WeeksApart
  PROVE  SchedulerSpec => StatusMovesForward
<1>1. SchedulerInit => HandsInv
  BY SchedulerAssumption
  DEF SchedulerInit, Init, StorageInit, HandsInv, ReapedBeside, AttachedInWindow,
      JobHoldsUnattached, InPack, Filling, SchedulerAssumption, Procs
<1>2. JobArchiveInv /\ HandsInv /\ [SchedulerNext]_allVars => Forward /\ HandsInv'
  BY JobHands
<1> QED BY <1>1, <1>2, JobArchiveInvariance, PTL
        DEF SchedulerSpec, StatusMovesForward, Forward
=============================================================================
