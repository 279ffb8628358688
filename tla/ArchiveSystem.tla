--------------------------- MODULE ArchiveSystem ---------------------------
(***************************************************************************)
(* The archiver at work: any number of scanner, packer and reaper          *)
(* processes over one bucket, one catalog and one archive_dir, beside the  *)
(* database that writes backups and whoever else deletes from the bucket.  *)
(* A process may die between any two of its steps.                         *)
(***************************************************************************)
EXTENDS Scanner, Packer, Reaper

CONSTANTS
  Early,          \* the objects in the bucket when the catalog is created
  ExternalDelete, \* TRUE: somebody else may delete objects from the bucket
  MaxCrashes      \* bound: processes that die in a behaviour

ASSUME SystemAssumption ==
  /\ Early \subseteq Objects
  /\ ExternalDelete \in BOOLEAN
  /\ MaxCrashes \in Nat

VARIABLE crashes

vars == <<storageVars, seen, image, expect, crashes>>

TypeOK ==
  /\ StorageTypeOK
  /\ ScannerTypeOK
  /\ PackerTypeOK
  /\ ReaperTypeOK
  /\ crashes \in 0..MaxCrashes

Init ==
  /\ StorageInit(Early)
  /\ ScannerInit
  /\ PackerInit
  /\ ReaperInit
  /\ crashes = 0

-----------------------------------------------------------------------------
(* The environment.                                                        *)

\* GaussDB uploads a backup, or writes a key again: a new content, never an
\* earlier one.
Write(o) ==
  /\ obs[o] # 0 \/ lastVersion[o] = 0
  /\ lastVersion[o] < MaxVersion
  /\ lastVersion' = [lastVersion EXCEPT ![o] = @ + 1]
  /\ obs' = [obs EXCEPT ![o] = lastVersion[o] + 1]
  /\ UNCHANGED <<objectVars, rowVars, diskVars, controlVars,
                 seen, image, expect, crashes>>

\* Somebody else deletes the object.
Vanish(o) ==
  /\ ExternalDelete
  /\ obs[o] # 0
  /\ obs' = [obs EXCEPT ![o] = 0]
  /\ UNCHANGED <<lastVersion, objectVars, rowVars, diskVars, controlVars,
                 seen, image, expect, crashes>>

\* The process is killed, or a call of it raises.  What it wrote stays.
Crash(p) ==
  /\ pc[p] # "idle"
  /\ crashes < MaxCrashes
  /\ crashes' = crashes + 1
  /\ Return(p)
  /\ seen' = [seen EXCEPT ![p] = 0]
  /\ image' = [image EXCEPT ![p] = NoImage]
  /\ expect' = [expect EXCEPT ![p] = Nothing]
  /\ UNCHANGED <<bucketVars, objectVars, rowVars, diskVars>>

-----------------------------------------------------------------------------

Scanning(p) == ScannerStep(p) /\ UNCHANGED <<image, expect, crashes>>
Packing(p)  == PackerStep(p) /\ UNCHANGED <<seen, expect, crashes>>
Reaping(p)  == ReaperStep(p) /\ UNCHANGED <<seen, image, crashes>>

Next ==
  \/ \E o \in Objects : Write(o) \/ Vanish(o)
  \/ \E p \in Procs : Scanning(p) \/ Packing(p) \/ Reaping(p) \/ Crash(p)

Spec == Init /\ [][Next]_vars

-----------------------------------------------------------------------------
(* Safety.                                                                 *)

\* An object the catalog attaches to a daily archive really is a member of
\* the file that archive's row names (packer.py steps 4-9): neither a crash
\* between any two steps nor a second job over the same window detaches one
\* from the other.
AttachedIsArchived ==
  \A o \in Objects : daId[o] # NoRow =>
    /\ rowJob[daId[o]] # NoJob
    /\ archive[rowJob[daId[o]]][o] # 0

\* Hashing the file a row names gives the checksum the row records, the
\* comparison pack-all-weeks makes (main.py 138-145); the checksum is taken
\* from the published file, the row is written later.
RowMatchesFile ==
  \A r \in Rows : rowJob[r] # NoJob => rowSum[r] = Digest(rowJob[r])

\* When the reaper's ETag gate lets an object through, the content the gate
\* approved is in a recorded archive (reaper.py gate 5), although the reaper
\* never opens one.
ApprovedIsKept ==
  \A p \in Procs : pc[p] = "delete" => Kept(cur[p], expect[p][cur[p]])

\* What DELETE is about to remove from the bucket, if anything, is in a
\* recorded archive: reaping loses no content.
DeleteIsSafe ==
  \A p \in Procs :
    pc[p] = "delete" /\ obs[cur[p]] # 0 => Kept(cur[p], obs[cur[p]])

\* Gate 4: among the objects of one daily archive a diff is only gone when no
\* full or snapshot is left, and an xlog only when no diff is left, across
\* runs that were refused or died half-way.
PrecedesInReap(x, y) ==
  \/ Type[x] \in {"full", "snapshot"} /\ Type[y] = "diff"
  \/ Type[x] = "diff" /\ Type[y] = "xlog"

ReapOrder ==
  \A x, y \in Objects :
    /\ daId[x] # NoRow /\ daId[x] = daId[y]
    /\ PrecedesInReap(x, y)
    /\ status[y] = "obs_deleted"
    => status[x] = "obs_deleted"

\* An object marked obs_deleted is no longer in the bucket (reaper.py 131-154),
\* until a restore, which is not here, puts it back.
DeletedIsGone == \A o \in Objects : status[o] = "obs_deleted" => obs[o] = 0

\* A restore of an object marked obs_deleted has the archives only: one that a
\* row names has it, whoever packed, reaped or died since, and also when the
\* client hid a failed HEAD or a refused DELETE (obs_client.py 184-218).
DeletedIsKept ==
  \A o \in Objects : status[o] = "obs_deleted" =>
    \E v \in Versions \ {0} : Kept(o, v)

\* README 1182, the status machine of backup_objects: a status only ever moves
\* forward.  No UPDATE of the code looks at the status it overwrites.
StatusRank == [absent |-> 0, discovered |-> 1, queued |-> 2, archived |-> 3,
               obs_deleted |-> 4]
StatusMovesForward ==
  [][\A o \in Objects : StatusRank[status[o]] <= StatusRank[status'[o]]]_status

-----------------------------------------------------------------------------
(* What the archiver promises: see Custody.                                *)

promise == INSTANCE Custody WITH
             held <- obs,
             kept <- [o \in Objects |->
                        {v \in Versions \ {0} : Kept(o, v)}]

\* Contents move from the bucket into recorded archives and are never lost on
\* the way: every step of the system is a step of Custody.
KeepsCustody == promise!Spec

-----------------------------------------------------------------------------
(* Liveness.                                                               *)

\* A started command is not suspended for ever.
Proceed(p) ==
  /\ pc[p] # "idle"
  /\ Scanning(p) \/ Packing(p) \/ Reaping(p)

FairSpec == Spec /\ \A p \in Procs : WF_vars(Proceed(p))

\* Every command ends, in success or failure, whatever other processes do to
\* the files it works on.
CommandsEnd == \A p \in Procs : pc[p] # "idle" ~> pc[p] = "idle"
=============================================================================
