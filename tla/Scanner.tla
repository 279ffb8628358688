------------------------------ MODULE Scanner ------------------------------
(***************************************************************************)
(* Discovery: Scanner.scan_instance lists the bucket and records each      *)
(* object, and phase 2 of the scheduler's weekly job promotes discovered   *)
(* objects to queued_for_archive.  A page of the listing is read before the *)
(* row is, and the row before it is written; so is the list of objects the *)
(* promotion goes through.                                                 *)
(***************************************************************************)
EXTENDS Storage

CONSTANT
  Rescans      \* FALSE: an operator scans each object at most once

ASSUME ScannerAssumption == Rescans \in BOOLEAN

VARIABLE
  seen         \* seen[p]: the version a scanner's listing reported for cur[p]

ScannerTypeOK == seen \in [Procs -> Versions]

ScannerInit == seen = [p \in Procs |-> 0]

ScannerReturn(p) == Return(p) /\ seen' = [seen EXCEPT ![p] = 0]

\* The page of list_objects that names o reaches the scanner.
ListObject(p, o) ==
  /\ p \in Scanners /\ pc[p] = "idle"
  /\ obs[o] # 0
  /\ Rescans \/ status[o] = "absent"
  /\ Goto(p, "scanned")
  /\ cur' = [cur EXCEPT ![p] = o]
  /\ seen' = [seen EXCEPT ![p] = obs[o]]
  /\ UNCHANGED <<bucketVars, objectVars, rowVars, diskVars,
                 job, rid, listed, todo>>

\* _upsert_with_policy reads the row first: one that is obs_deleted is left
\* alone ...
SkipDeleted(p) ==
  /\ pc[p] = "scanned"
  /\ status[cur[p]] = "obs_deleted"
  /\ ScannerReturn(p)
  /\ UNCHANGED <<bucketVars, objectVars, rowVars, diskVars>>

AcceptListed(p) ==
  /\ pc[p] = "scanned"
  /\ status[cur[p]] # "obs_deleted"
  /\ Goto(p, "accepted")
  /\ UNCHANGED <<bucketVars, objectVars, rowVars, diskVars,
                 job, rid, listed, todo, cur, seen>>

\* ... any other takes the ETag of the listing and keeps its status, and a key
\* without a row gets one (upsert_backup_object).
RowAfterScan_mut(o) == IF status[o] = "absent" THEN "pending" ELSE status[o]
RowAfterScan(o) == IF status[o] = "absent" THEN "discovered" ELSE status[o]

UpsertListed(p) ==
  LET o == cur[p] IN
  /\ pc[p] = "accepted"
  /\ status' = [status EXCEPT ![o] = RowAfterScan(o)]
  /\ etag' = [etag EXCEPT ![o] = seen[p]]
  /\ ScannerReturn(p)
  /\ UNCHANGED <<bucketVars, checksum, daId, rowVars, diskVars>>

\* The weekly job's phase 2: list_backup_objects_by_status('discovered'), sorted
\* and so read as a whole ...
Discovered == {o \in Objects : status[o] = "discovered"}

PromoteList(p) ==
  /\ p \in Scanners /\ pc[p] = "idle"
  /\ Discovered # {}
  /\ Goto(p, "promoting")
  /\ todo' = [todo EXCEPT ![p] = Discovered]
  /\ UNCHANGED <<bucketVars, objectVars, rowVars, diskVars,
                 job, rid, listed, cur, seen>>

\* ... then update_backup_object_status on each, whatever its row says by now.
PromoteWrite(p, o) ==
  /\ pc[p] = "promoting" /\ o \in todo[p]
  /\ status' = [status EXCEPT ![o] = "queued"]
  /\ todo' = [todo EXCEPT ![p] = @ \ {o}]
  /\ UNCHANGED <<bucketVars, etag, checksum, daId, rowVars, diskVars,
                 pc, job, rid, listed, cur, seen>>

PromoteEnd(p) ==
  /\ pc[p] = "promoting" /\ todo[p] = {}
  /\ ScannerReturn(p)
  /\ UNCHANGED <<bucketVars, objectVars, rowVars, diskVars>>

ScannerStep(p) ==
  \/ \E o \in Objects : ListObject(p, o) \/ PromoteWrite(p, o)
  \/ SkipDeleted(p) \/ AcceptListed(p) \/ UpsertListed(p)
  \/ PromoteList(p) \/ PromoteEnd(p)
=============================================================================
