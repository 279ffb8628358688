------------------------------ MODULE Storage ------------------------------
(***************************************************************************)
(* The state every command of the archiver shares, for one GaussDB         *)
(* instance: its objects in the OBS bucket, the SQLite catalog             *)
(* (backup_objects and daily_archives), the staging directories under      *)
(* work_dir and the archives under archive_dir.  A command is a separate   *)
(* operating-system process; nothing but the catalog's UNIQUE constraint   *)
(* stands between two of them, every UPDATE is its own transaction         *)
(* (isolation_level=None), and a process may stop between any two.         *)
(*                                                                         *)
(* Contents are abstracted to version numbers: 0 is "absent" (NULL for a   *)
(* column), v > 0 the v-th content GaussDB wrote under the key.  An ETag   *)
(* and a SHA-256 are injective, so the version stands for both.            *)
(***************************************************************************)
EXTENDS Naturals, FiniteSets

CONSTANTS
  Objects,     \* the OBS keys of the instance
  Type,        \* Type[o]: backup_type of o, derived from the key
  Jobs,        \* the pack jobs, one per archive name (a week or a day)
  Rows,        \* daily_archives ids, one per archive_date
  RowOf,       \* RowOf[j]: the row of the archive_date of job j
  Window,      \* Window[j]: the objects the query of job j may select
  Compressed,  \* the jobs stored as tar.gz; the others are directories
  Scanners,    \* processes that run scan and the scheduler's promotion
  Packers,     \* processes that run pack-weekly or pack-daily
  JobsOf,      \* JobsOf[p]: the jobs packer p may be started on
  Reapers,     \* processes that run reap
  MaxVersion,  \* bound: contents GaussDB writes under one key
  NoJob, NoRow, NoObject

Procs       == Scanners \cup Packers \cup Reapers
Versions    == 0..MaxVersion
BackupTypes == {"full", "snapshot", "diff", "xlog", "metadata"}
Statuses    == {"absent", "discovered", "queued", "archived", "obs_deleted"}
Contents    == [Objects -> Versions]
Nothing     == [o \in Objects |-> 0]
MetaStates  == {"none", "draft", "final"}
\* What a recorded checksum covers: a tar's members, or one metadata.json.
Digests     == Contents \X MetaStates

\* The tables derived from a configuration: which job fills which row with
\* which objects.  Metadata is archive_only and never selected.
ASSUME StorageAssumption ==
  /\ Type \in [Objects -> BackupTypes]
  /\ RowOf \in [Jobs -> Rows]
  /\ Window \in [Jobs -> SUBSET {o \in Objects : Type[o] # "metadata"}]
  /\ Compressed \subseteq Jobs
  /\ JobsOf \in [Packers -> SUBSET Jobs]
  /\ MaxVersion \in Nat \ {0}
  /\ NoJob \notin Jobs /\ NoRow \notin Rows /\ NoObject \notin Objects

VARIABLES
  obs,         \* obs[o]: the version the bucket holds under o
  lastVersion, \* lastVersion[o]: the newest version GaussDB wrote under o
  status,      \* backup_objects.status ("absent": no row yet)
  etag,        \* backup_objects.obs_etag
  checksum,    \* backup_objects.checksum_sha256
  daId,        \* backup_objects.daily_archive_id
  rowJob,      \* the job whose file a daily_archives row names (NoJob: no row)
  rowSum,      \* daily_archives.checksum_sha256
  staging,     \* staging[j]: the objects in work_dir/<dir_name of j>
  stagingDirs, \* the jobs whose staging directory exists
  archive,     \* archive[j]: the members of the archive of j in archive_dir
  meta,        \* meta[j]: that archive's metadata.json ("none": no archive)
  pc,          \* pc[p]: where process p is in the command it runs
  job,         \* the job a packer works on
  rid,         \* the daily_archives id the command holds
  listed,      \* the objects the command listed
  todo,        \* the objects its current loop has still to visit
  cur          \* the object it is in the middle of

bucketVars  == <<obs, lastVersion>>
objectVars  == <<status, etag, checksum, daId>>
rowVars     == <<rowJob, rowSum>>
diskVars    == <<staging, stagingDirs, archive, meta>>
controlVars == <<pc, job, rid, listed, todo, cur>>
storageVars == <<bucketVars, objectVars, rowVars, diskVars, controlVars>>

PCs == {"idle", "scanned", "accepted", "promoting",
        "list", "download", "record", "store", "replace", "copy", "digest",
        "upsert", "attach", "reap", "delete", "mark"}

BucketTypeOK ==
  /\ obs \in [Objects -> Versions]
  /\ lastVersion \in [Objects -> Versions]

CatalogTypeOK ==
  /\ status \in [Objects -> Statuses]
  /\ etag \in [Objects -> Versions]
  /\ checksum \in [Objects -> Versions]
  /\ daId \in [Objects -> Rows \cup {NoRow}]
  /\ rowJob \in [Rows -> Jobs \cup {NoJob}]
  /\ rowSum \in [Rows -> Digests]

DiskTypeOK ==
  /\ staging \in [Jobs -> Contents]
  /\ stagingDirs \subseteq Jobs
  /\ archive \in [Jobs -> Contents]
  /\ meta \in [Jobs -> MetaStates]

ControlTypeOK ==
  /\ pc \in [Procs -> PCs]
  /\ job \in [Procs -> Jobs \cup {NoJob}]
  /\ rid \in [Procs -> Rows \cup {NoRow}]
  /\ listed \in [Procs -> SUBSET Objects]
  /\ todo \in [Procs -> SUBSET Objects]
  /\ cur \in [Procs -> Objects \cup {NoObject}]

StorageTypeOK == BucketTypeOK /\ CatalogTypeOK /\ DiskTypeOK /\ ControlTypeOK

\* A fresh catalog and empty directories; the bucket holds what GaussDB has
\* already backed up.
StorageInit(present) ==
  /\ obs = [o \in Objects |-> IF o \in present THEN 1 ELSE 0]
  /\ lastVersion = obs
  /\ status = [o \in Objects |-> "absent"]
  /\ etag = Nothing
  /\ checksum = Nothing
  /\ daId = [o \in Objects |-> NoRow]
  /\ rowJob = [r \in Rows |-> NoJob]
  /\ rowSum = [r \in Rows |-> <<Nothing, "none">>]
  /\ staging = [j \in Jobs |-> Nothing]
  /\ stagingDirs = {}
  /\ archive = [j \in Jobs |-> Nothing]
  /\ meta = [j \in Jobs |-> "none"]
  /\ pc = [p \in Procs |-> "idle"]
  /\ job = [p \in Procs |-> NoJob]
  /\ rid = [p \in Procs |-> NoRow]
  /\ listed = [p \in Procs |-> {}]
  /\ todo = [p \in Procs |-> {}]
  /\ cur = [p \in Procs |-> NoObject]

Goto(p, label) == pc' = [pc EXCEPT ![p] = label]

\* The command ends, by a return or by an exception the caller catches, and
\* what it held in memory is gone.
Return(p) ==
  /\ Goto(p, "idle")
  /\ job' = [job EXCEPT ![p] = NoJob]
  /\ rid' = [rid EXCEPT ![p] = NoRow]
  /\ listed' = [listed EXCEPT ![p] = {}]
  /\ todo' = [todo EXCEPT ![p] = {}]
  /\ cur' = [cur EXCEPT ![p] = NoObject]

\* get_objects_by_daily_archive
AttachedTo(r) == {o \in Objects : daId[o] = r}

\* What reading the archive of job j and hashing it yields: the whole tar, or,
\* for a directory, its metadata.json alone.
Digest(j) ==
  IF j \in Compressed THEN <<archive[j], "draft">> ELSE <<Nothing, meta[j]>>

\* Some daily_archives row names an archive that holds version v of o.
Kept(o, v) == \E r \in Rows : rowJob[r] # NoJob /\ archive[rowJob[r]][o] = v
=============================================================================
