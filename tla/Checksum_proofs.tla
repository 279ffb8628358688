-------------------------- MODULE Checksum_proofs --------------------------
(***************************************************************************)
(* Proof that the checksum a row records is that of the file it names, for *)
(* every value of the constants, when all archives are compressed and no   *)
(* two packers are started on archives of one row.  Both are needed: a     *)
(* directory archive rewrites what it hashed, and a second packer replaces *)
(* the file.                                                               *)
(***************************************************************************)
EXTENDS ArchiveSystem_proofs

\* RowMatchesFile made inductive.
SumInv == RowMatchesFile /\ DigestIsFresh

\* A step that touches no file and no row, and after which nobody is about to
\* write a row who was not before.
Quiet ==
  /\ UNCHANGED <<rowJob, rowSum, archive>>
  /\ \A q \in Procs : pc'[q] = "upsert" =>
       pc[q] = "upsert" /\ UNCHANGED <<job[q], image[q]>>

\* The digest of a tar is a matter of its members alone.
LEMMA TarDigest ==
  ASSUME Compressed = Jobs, NEW j \in Jobs, UNCHANGED archive[j]
  PROVE  UNCHANGED Digest(j)
BY DEF Digest

\* A quiet step keeps the invariant.
LEMMA QuietKeeps ==
  ASSUME Compressed = Jobs, TypeInv, SumInv, Quiet
  PROVE  SumInv'
<1>1. RowMatchesFile'
  <2>1. \A r \in Rows : rowJob[r] # NoJob => rowJob[r] \in Jobs
    BY DEF TypeInv, TypeOK, StorageTypeOK, CatalogTypeOK
  <2> QED BY <2>1, TarDigest DEF SumInv, RowMatchesFile, Quiet
<1>2. DigestIsFresh'
  <2>1. \A q \in Procs : pc[q] = "upsert" => job[q] \in Jobs
    BY DEF TypeInv, ControlOK, InPack, Filling
  <2> QED BY <2>1, TarDigest DEF SumInv, DigestIsFresh, Quiet
<1> QED BY <1>1, <1>2 DEF SumInv

\* So does a step that changes the archive a packer is filling: no row names
\* it, and no other packer has it.
LEMMA FillingKeeps ==
  ASSUME Partitioned, Compressed = Jobs, TypeInv, CarriedIntoArchive, SumInv,
         NEW p \in Procs, pc[p] \in Filling, pc'[p] # "upsert",
         UNCHANGED <<rowJob, rowSum>>,
         \A j \in Jobs \ {job[p]} : UNCHANGED archive[j],
         \A q \in Procs \ {p} : UNCHANGED <<pc[q], job[q], image[q]>>
  PROVE  SumInv'
<1>1. p \in Packers /\ job[p] \in Jobs /\ job[p] \in JobsOf[p]
  BY DEF TypeInv, ControlOK, InPack
<1>2. ASSUME NEW r \in Rows, rowJob[r] # NoJob
      PROVE  rowSum[r] = Digest(rowJob[r])'
  <2>1. rowJob[r] \in Jobs /\ RowOf[rowJob[r]] = r
    BY <1>2 DEF TypeInv, TypeOK, StorageTypeOK, CatalogTypeOK,
        CarriedIntoArchive, RowsNameTheirArchive
  <2>2. rowJob[r] # job[p]
    BY <1>2, <2>1 DEF CarriedIntoArchive, Unclaimed
  <2> QED BY <1>2, <2>1, <2>2, TarDigest DEF SumInv, RowMatchesFile
<1>3. ASSUME NEW q \in Procs, pc'[q] = "upsert"
      PROVE  image'[q] = Digest(job[q])' /\ UNCHANGED job[q]
  <2>1. q # p /\ pc[q] = "upsert"
    BY <1>3
  <2>2. q \in Packers /\ job[q] \in Jobs /\ job[q] \in JobsOf[q]
    BY <2>1 DEF TypeInv, ControlOK, InPack, Filling
  <2>3. job[q] # job[p]
    BY <1>1, <2>1, <2>2 DEF Partitioned
  <2>4. image[q] = Digest(job[q])
    BY <2>1 DEF SumInv, DigestIsFresh
  <2> QED BY <2>1, <2>2, <2>3, <2>4, TarDigest
<1> QED BY <1>2, <1>3 DEF SumInv, RowMatchesFile, DigestIsFresh

\* The packer's steps: two of them are what the invariant is about.
LEMMA PackingSums ==
  ASSUME Partitioned, Compressed = Jobs, TypeInv, CarriedIntoArchive, SumInv,
         NEW p \in Procs, Packing(p)
  PROVE  SumInv'
<1> USE DEF TypeInv, TypeOK, StorageTypeOK, CatalogTypeOK, DiskTypeOK,
    ControlTypeOK, PackerTypeOK, Goto, Return, PackerReturn, rowVars, diskVars
<1>1. CASE PublishTar(p)
  BY <1>1, FillingKeeps DEF PublishTar, Filling
<1>2. CASE ClearDirectory(p)
  BY <1>2, FillingKeeps DEF ClearDirectory, Filling
<1>3. ASSUME NEW o \in Objects, CopyMember(p, o) PROVE SumInv'
  BY <1>3, FillingKeeps DEF CopyMember, Filling
<1>4. CASE RecordDigest(p)
  <2>1. UNCHANGED <<rowJob, rowSum, archive, job>>
    BY <1>4 DEF RecordDigest
  <2>2. job[p] \in Jobs
    BY <1>4 DEF RecordDigest, ControlOK, InPack, Filling
  <2>3. image'[p] = Digest(job[p])'
    BY <1>4, <2>1, <2>2, TarDigest DEF RecordDigest
  <2>4. ASSUME NEW q \in Procs \ {p}, pc'[q] = "upsert"
        PROVE  image'[q] = Digest(job[q])'
    <3>1. pc[q] = "upsert" /\ UNCHANGED image[q]
      BY <1>4, <2>4 DEF RecordDigest
    <3>2. job[q] \in Jobs
      BY <3>1 DEF ControlOK, InPack, Filling
    <3> QED BY <2>1, <3>1, <3>2, TarDigest DEF SumInv, DigestIsFresh
  <2>5. ASSUME NEW r \in Rows, rowJob[r] # NoJob
        PROVE  rowSum[r] = Digest(rowJob[r])'
    BY <2>1, <2>5, TarDigest DEF SumInv, RowMatchesFile
  <2> QED BY <2>1, <2>3, <2>4, <2>5 DEF SumInv, RowMatchesFile, DigestIsFresh
<1>5. CASE UpsertRow(p)
  <2>1. UNCHANGED <<archive, meta, job, image>> /\ pc'[p] = "attach"
    BY <1>5 DEF UpsertRow
  <2>2. image[p] = Digest(job[p])
    BY <1>5 DEF UpsertRow, SumInv, DigestIsFresh
  <2>3. \A j \in Jobs : UNCHANGED Digest(j)
    BY <2>1, TarDigest
  <2>4. job[p] \in Jobs
    BY <1>5 DEF UpsertRow, ControlOK, InPack, Filling
  <2>5. RowMatchesFile'
    BY <1>5, <2>1, <2>2, <2>3, <2>4 DEF UpsertRow, SumInv, RowMatchesFile
  <2>6. DigestIsFresh'
    <3>1. \A q \in Procs : pc'[q] = "upsert" =>
            pc[q] = "upsert" /\ job[q] \in Jobs
      BY <1>5 DEF UpsertRow, ControlOK, InPack, Filling
    <3> QED BY <2>1, <2>3, <3>1 DEF SumInv, DigestIsFresh
  <2> QED BY <2>5, <2>6 DEF SumInv
<1>6. CASE \/ \E j \in Jobs : BeginPack(p, j)
           \/ ListWindow(p) \/ ListEmpty(p)
           \/ \E o \in Objects : Download(p, o) \/ DownloadMissing(p, o)
           \/ RecordChecksum(p) \/ WriteManifest(p) \/ StagingLost(p)
           \/ BuildTar(p) \/ CopyManifest(p)
           \/ \E o \in Objects : Attach(p, o)
           \/ CleanStaging(p)
  <2>1. Quiet
    BY <1>6 DEF Quiet, BeginPack, ListWindow, ListEmpty, Download,
        DownloadMissing, RecordChecksum, WriteManifest, StagingLost, BuildTar,
        CopyManifest, Attach, CleanStaging
  <2> QED BY <2>1, QuietKeeps
<1> QED
  BY <1>1, <1>2, <1>3, <1>4, <1>5, <1>6 DEF Packing, PackerStep

\* Every step of the system keeps the invariant.
LEMMA NextSums ==
  ASSUME Partitioned, Compressed = Jobs, TypeInv, CarriedIntoArchive, SumInv,
         [Next]_vars
  PROVE  SumInv'
<1> USE DEF TypeInv, TypeOK, StorageTypeOK, ControlTypeOK, PackerTypeOK,
    Goto, Return, rowVars, diskVars
<1>1. ASSUME NEW p \in Procs, Scanning(p) PROVE Quiet
  BY <1>1 DEF Quiet, Scanning, ScannerStep, ListObject, PromoteWrite,
      SkipDeleted, AcceptListed, UpsertListed, PromoteList, PromoteEnd,
      ScannerReturn
<1>2. ASSUME NEW p \in Procs, Reaping(p) PROVE Quiet
  BY <1>2 DEF Quiet, Reaping, ReaperStep, BeginReap, HeadGone, HeadMatch,
      HeadMismatch, DeleteObject, MarkDeleted, EndReap, ReaperReturn
<1>3. ASSUME NEW p \in Procs, Crash(p) PROVE Quiet
  BY <1>3 DEF Quiet, Crash
<1>4. ASSUME NEW o \in Objects, Write(o) \/ Vanish(o) PROVE Quiet
  BY <1>4 DEF Quiet, Write, Vanish, controlVars
<1>5. CASE UNCHANGED vars
  BY <1>5, QuietKeeps DEF Quiet, vars, storageVars, controlVars
<1> QED
  BY <1>1, <1>2, <1>3, <1>4, <1>5, PackingSums, QuietKeeps DEF Next

\* The file a row names has the checksum the row records, the comparison of
\* pack-all-weeks, through crashes between any two steps of a pack.
THEOREM RowAlwaysMatchesFile ==
  ASSUME Partitioned, Compressed = Jobs
  PROVE  Spec => []RowMatchesFile
<1>1. Init => SumInv
  BY DEF Init, StorageInit, SumInv, RowMatchesFile, DigestIsFresh
<1>2. TypeInv /\ ArchiveInv /\ SumInv /\ [Next]_vars => SumInv'
  BY NextSums DEF ArchiveInv
<1>3. SumInv => RowMatchesFile
  BY DEF SumInv
<1> QED BY <1>1, <1>2, <1>3, Typing, ArchiveInvariance, PTL DEF Spec
=============================================================================
