------------------------------- MODULE Packer -------------------------------
(***************************************************************************)
(* Packer.pack_weekly and Packer.pack_daily: pick the objects of a window, *)
(* download them into a staging directory, store the archive, write the    *)
(* daily_archives row, attach the objects to it.  Both follow the same     *)
(* steps; they differ in the window, in the archive's name and in the      *)
(* storage form (a weekly archive is always a tar.gz).                     *)
(*                                                                         *)
(* Calls that leave the state alone are not actions: a preview, and a call *)
(* that finds the row already there and returns it.                        *)
(***************************************************************************)
EXTENDS Storage

VARIABLE
  image        \* image[p]: the temporary tar, later the checksum read back

PackerTypeOK == image \in [Procs -> Digests]

NoImage == <<Nothing, "none">>

PackerInit == image = [p \in Procs |-> NoImage]

PackerReturn(p) == Return(p) /\ image' = [image EXCEPT ![p] = NoImage]

\* _find_existing: any row of this archive_date, whatever its type or file,
\* makes the call a no-op.
IsNew_mut(j) == TRUE
IsNew(j) == rowJob[RowOf[j]] = NoJob

\* Step 0: the idempotence check.
BeginPack(p, j) ==
  /\ p \in Packers /\ pc[p] = "idle"
  /\ j \in JobsOf[p] /\ IsNew(j)
  /\ Goto(p, "list")
  /\ job' = [job EXCEPT ![p] = j]
  /\ UNCHANGED <<bucketVars, objectVars, rowVars, diskVars,
                 rid, listed, todo, cur, image>>

\* The window query: every row that is not obs_deleted, archived ones
\* included.
Selected(j) == {o \in Window[j] : status[o] \notin {"absent", "obs_deleted"}}

\* Steps 1-4: list, then start from an empty staging directory.
ListWindow(p) ==
  /\ pc[p] = "list"
  /\ Selected(job[p]) # {}
  /\ Goto(p, "download")
  /\ listed' = [listed EXCEPT ![p] = Selected(job[p])]
  /\ todo' = [todo EXCEPT ![p] = Selected(job[p])]
  /\ staging' = [staging EXCEPT ![job[p]] = Nothing]
  /\ stagingDirs' = stagingDirs \cup {job[p]}
  /\ UNCHANGED <<bucketVars, objectVars, rowVars, archive, meta,
                 job, rid, cur, image>>

\* An empty window is an ArchiveError.
ListEmpty(p) ==
  /\ pc[p] = "list"
  /\ Selected(job[p]) = {}
  /\ PackerReturn(p)
  /\ UNCHANGED <<bucketVars, objectVars, rowVars, diskVars>>

\* Both window queries are ORDER BY backup_type, parent_backup_dir, obs_key, and
\* the loops over their result keep that order; within a type it is left open.
QueryRank == [diff |-> 1, full |-> 2, snapshot |-> 3, xlog |-> 4]
NextInQuery(p, o) ==
  /\ o \in todo[p]
  /\ \A x \in todo[p] : QueryRank[Type[o]] <= QueryRank[Type[x]]

\* _download_object: today's content of the key, whatever the scan saw; the
\* directories of the target are created if they are not there.
Download(p, o) ==
  /\ pc[p] = "download" /\ NextInQuery(p, o)
  /\ obs[o] # 0
  /\ Goto(p, "record")
  /\ cur' = [cur EXCEPT ![p] = o]
  /\ todo' = [todo EXCEPT ![p] = @ \ {o}]
  /\ staging' = [staging EXCEPT ![job[p]][o] = obs[o]]
  /\ stagingDirs' = stagingDirs \cup {job[p]}
  /\ UNCHANGED <<bucketVars, objectVars, rowVars, archive, meta,
                 job, rid, listed, image>>

\* get_object of a key that is gone raises.
DownloadMissing(p, o) ==
  /\ pc[p] = "download" /\ NextInQuery(p, o)
  /\ obs[o] = 0
  /\ PackerReturn(p)
  /\ UNCHANGED <<bucketVars, objectVars, rowVars, diskVars>>

\* The staged file is hashed and the object's checksum_sha256 stored.
RecordChecksum(p) ==
  LET o == cur[p] IN
  /\ pc[p] = "record"
  /\ staging[job[p]][o] # 0
  /\ Goto(p, "download")
  /\ checksum' = [checksum EXCEPT ![o] = staging[job[p]][o]]
  /\ cur' = [cur EXCEPT ![p] = NoObject]
  /\ UNCHANGED <<bucketVars, status, etag, daId, rowVars, diskVars,
                 job, rid, listed, todo, image>>

AllStaged_mut(p) == TRUE
AllStaged(p) == todo[p] = {}

\* Step 5: metadata.json goes into the staging directory.
WriteManifest(p) ==
  /\ pc[p] = "download" /\ AllStaged(p)
  /\ job[p] \in stagingDirs
  /\ Goto(p, "store")
  /\ UNCHANGED <<bucketVars, objectVars, rowVars, diskVars,
                 job, rid, listed, todo, cur, image>>

\* Another packer of the same job removed the file about to be hashed, or the
\* directory metadata.json is written to, before or after the tar is made: the
\* call raises.
StagingLost_mut(p) ==
  /\ pc[p] = "download" /\ todo[p] = {} /\ job[p] \notin stagingDirs
  /\ PackerReturn(p)
  /\ UNCHANGED <<bucketVars, objectVars, rowVars, diskVars>>
StagingLost(p) ==
  /\ \/ pc[p] = "record" /\ staging[job[p]][cur[p]] = 0
     \/ pc[p] = "download" /\ todo[p] = {} /\ job[p] \notin stagingDirs
     \/ /\ pc[p] = "digest" /\ job[p] \in Compressed
        /\ job[p] \notin stagingDirs
  /\ PackerReturn(p)
  /\ UNCHANGED <<bucketVars, objectVars, rowVars, diskVars>>

\* _write_tar, first half: everything in the staging directory goes into a
\* temporary file.
BuildTar(p) ==
  /\ pc[p] = "store" /\ job[p] \in Compressed
  /\ Goto(p, "replace")
  /\ image' = [image EXCEPT ![p] = <<staging[job[p]], "draft">>]
  /\ UNCHANGED <<bucketVars, objectVars, rowVars, diskVars,
                 job, rid, listed, todo, cur>>

\* _write_tar, second half: os.replace.
PublishTar(p) ==
  /\ pc[p] = "replace"
  /\ Goto(p, "digest")
  /\ archive' = [archive EXCEPT ![job[p]] = image[p][1]]
  /\ meta' = [meta EXCEPT ![job[p]] = "draft"]
  /\ UNCHANGED <<bucketVars, objectVars, rowVars, staging, stagingDirs,
                 job, rid, listed, todo, cur, image>>

\* compress=False: rmtree of the old directory, then copytree file by file.
ClearDirectory(p) ==
  /\ pc[p] = "store" /\ job[p] \notin Compressed
  /\ Goto(p, "copy")
  /\ archive' = [archive EXCEPT ![job[p]] = Nothing]
  /\ meta' = [meta EXCEPT ![job[p]] = "none"]
  /\ todo' = [todo EXCEPT ![p] = listed[p]]
  /\ UNCHANGED <<bucketVars, objectVars, rowVars, staging, stagingDirs,
                 job, rid, listed, cur, image>>

CopyMember(p, o) ==
  /\ pc[p] = "copy" /\ o \in todo[p]
  /\ archive' = [archive EXCEPT ![job[p]][o] = staging[job[p]][o]]
  /\ todo' = [todo EXCEPT ![p] = @ \ {o}]
  /\ UNCHANGED <<bucketVars, objectVars, rowVars, staging, stagingDirs, meta,
                 pc, job, rid, listed, cur, image>>

\* metadata.json is in the staging directory and is copied too.
CopyManifest(p) ==
  /\ pc[p] = "copy" /\ todo[p] = {}
  /\ Goto(p, "digest")
  /\ meta' = [meta EXCEPT ![job[p]] = "draft"]
  /\ UNCHANGED <<bucketVars, objectVars, rowVars, staging, stagingDirs, archive,
                 job, rid, listed, todo, cur, image>>

\* The published archive is hashed; the checksum is then added to
\* metadata.json, which a directory archive contains and a tar does not.
RecordDigest(p) ==
  LET j == job[p] IN
  /\ pc[p] = "digest"
  /\ j \in Compressed => j \in stagingDirs
  /\ Goto(p, "upsert")
  /\ image' = [image EXCEPT ![p] = Digest(j)]
  /\ meta' = IF j \in Compressed THEN meta ELSE [meta EXCEPT ![j] = "final"]
  /\ UNCHANGED <<bucketVars, objectVars, rowVars, staging, stagingDirs, archive,
                 job, rid, listed, todo, cur>>

\* The objects to attach are the ones listed in step 1, not the window as it is
\* now.
ToAttach_mut(p) == Window[job[p]]
ToAttach(p) == listed[p]

\* upsert_daily_archive returns cursor.lastrowid: the new row's id after an
\* INSERT, but after ON CONFLICT DO UPDATE the id of whatever row this
\* connection inserted last, in any table.
ReturnedIds(r) == IF rowJob[r] = NoJob THEN {r} ELSE Rows \cup {NoRow}

UpsertRow(p) ==
  LET r == RowOf[job[p]] IN
  /\ pc[p] = "upsert"
  /\ Goto(p, "attach")
  /\ \E id \in ReturnedIds(r) : rid' = [rid EXCEPT ![p] = id]
  /\ rowJob' = [rowJob EXCEPT ![r] = job[p]]
  /\ rowSum' = [rowSum EXCEPT ![r] = image[p]]
  /\ todo' = [todo EXCEPT ![p] = ToAttach(p)]
  /\ UNCHANGED <<bucketVars, objectVars, diskVars, job, listed, cur, image>>

\* One unconditional UPDATE per object, each its own transaction.
Attach(p, o) ==
  /\ pc[p] = "attach" /\ NextInQuery(p, o)
  /\ status' = [status EXCEPT ![o] = "archived"]
  /\ daId' = [daId EXCEPT ![o] = rid[p]]
  /\ todo' = [todo EXCEPT ![p] = @ \ {o}]
  /\ UNCHANGED <<bucketVars, etag, checksum, rowVars, diskVars,
                 pc, job, rid, listed, cur, image>>

CleanStaging(p) ==
  /\ pc[p] = "attach" /\ todo[p] = {}
  /\ staging' = [staging EXCEPT ![job[p]] = Nothing]
  /\ stagingDirs' = stagingDirs \ {job[p]}
  /\ PackerReturn(p)
  /\ UNCHANGED <<bucketVars, objectVars, rowVars, archive, meta>>

PackerStep(p) ==
  \/ \E j \in Jobs : BeginPack(p, j)
  \/ ListWindow(p) \/ ListEmpty(p)
  \/ \E o \in Objects : Download(p, o) \/ DownloadMissing(p, o)
  \/ RecordChecksum(p) \/ WriteManifest(p) \/ StagingLost(p)
  \/ BuildTar(p) \/ PublishTar(p)
  \/ ClearDirectory(p) \/ CopyManifest(p)
  \/ \E o \in Objects : CopyMember(p, o) \/ Attach(p, o)
  \/ RecordDigest(p) \/ UpsertRow(p) \/ CleanStaging(p)
=============================================================================
