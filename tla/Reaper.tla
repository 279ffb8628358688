------------------------------- MODULE Reaper -------------------------------
(***************************************************************************)
(* Reaper.reap_daily_archive: after its gates, delete the originals of one *)
(* daily archive from the bucket, one at a time: HEAD, DELETE, and the     *)
(* catalog's obs_deleted mark.  The rows, ETags included, are read once,   *)
(* before the loop.                                                        *)
(***************************************************************************)
EXTENDS Storage

CONSTANTS
  AllowUncovered, \* the allow_uncovered_types argument (default: TRUE)
  Faults          \* faults of the OBS client: subset of {"head", "delete"}

ASSUME ReaperAssumption ==
  AllowUncovered \in BOOLEAN /\ Faults \subseteq {"head", "delete"}

VARIABLE
  expect          \* expect[p]: obs_etag of the rows as the reaper read them

ReaperTypeOK == expect \in [Procs -> Contents]

ReaperInit == expect = [p \in Procs |-> Nothing]

ReaperReturn(p) == Return(p) /\ expect' = [expect EXCEPT ![p] = Nothing]

\* Gate 2 and gate 3: all archived, each with its own checksum.
AllArchived(r) == \A o \in AttachedTo(r) : status[o] = "archived"
AllHashed(r)   == \A o \in AttachedTo(r) : checksum[o] # 0
\* Gate 3.5.
Covered(r) == AllowUncovered
              \/ {"full", "diff"} \subseteq {Type[o] : o \in AttachedTo(r)}
\* Gate 1 and the checksum of gate 3 hold of every row: a row is only written
\* with status archived and with a checksum.
ReapGates(r) ==
  rowJob[r] # NoJob /\ AllArchived(r) /\ AllHashed(r) /\ Covered(r)

\* The objects the loop visits: the metadata type is not in its order.
ToReap(r) == {o \in AttachedTo(r) : Type[o] # "metadata"}

\* A row without objects only adds a log line, and a refusal changes nothing.
BeginReap(p, r) ==
  /\ p \in Reapers /\ pc[p] = "idle"
  /\ ReapGates(r)
  /\ ToReap(r) # {}
  /\ Goto(p, "reap")
  /\ rid' = [rid EXCEPT ![p] = r]
  /\ listed' = [listed EXCEPT ![p] = ToReap(r)]
  /\ todo' = [todo EXCEPT ![p] = ToReap(r)]
  /\ expect' = [expect EXCEPT ![p] = etag]
  /\ UNCHANGED <<bucketVars, objectVars, rowVars, diskVars, job, cur>>

ReapRank == [full |-> 1, snapshot |-> 2, diff |-> 3, xlog |-> 4]

\* The loop goes type by type; within a type the order of keys is left open.
\* The counters of gate 4 say the same of the types before.
IsNext_mut(p, o) == TRUE
IsNext(p, o) == \A x \in todo[p] : ReapRank[Type[o]] <= ReapRank[Type[x]]

Visits(p, o) == pc[p] = "reap" /\ o \in todo[p] /\ IsNext(p, o)

\* HEAD says not_found: nothing to delete.  A client fault may say so of an
\* object that is there.
HeadGone(p, o) ==
  /\ Visits(p, o)
  /\ obs[o] = 0 \/ "head" \in Faults
  /\ Goto(p, "mark")
  /\ cur' = [cur EXCEPT ![p] = o]
  /\ UNCHANGED <<bucketVars, objectVars, rowVars, diskVars,
                 job, rid, listed, todo, expect>>

\* Gate 5: the ETag of the bucket against the one the row had.
EtagAgrees_mut(p, o) == TRUE
EtagAgrees(p, o) == obs[o] = expect[p][o]

HeadMatch(p, o) ==
  /\ Visits(p, o)
  /\ obs[o] # 0
  /\ EtagAgrees(p, o)
  /\ Goto(p, "delete")
  /\ cur' = [cur EXCEPT ![p] = o]
  /\ UNCHANGED <<bucketVars, objectVars, rowVars, diskVars,
                 job, rid, listed, todo, expect>>

\* A mismatch raises UnsafeDeleteError out of the whole run.
HeadMismatch(p, o) ==
  /\ Visits(p, o)
  /\ obs[o] # 0
  /\ ~EtagAgrees(p, o)
  /\ ReaperReturn(p)
  /\ UNCHANGED <<bucketVars, objectVars, rowVars, diskVars>>

\* delete_object removes whatever the key holds now; a client fault leaves it
\* and reports success.
Removes_mut(o) == obs' = [obs EXCEPT ![o] = 0] \/ UNCHANGED obs
Removes(o) ==
  \/ obs' = [obs EXCEPT ![o] = 0]
  \/ "delete" \in Faults /\ UNCHANGED obs

DeleteObject(p) ==
  /\ pc[p] = "delete"
  /\ Goto(p, "mark")
  /\ Removes(cur[p])
  /\ UNCHANGED <<lastVersion, objectVars, rowVars, diskVars,
                 job, rid, listed, todo, cur, expect>>

\* mark_backup_object_obs_deleted, and the next object.
MarkDeleted(p) ==
  /\ pc[p] = "mark"
  /\ Goto(p, "reap")
  /\ status' = [status EXCEPT ![cur[p]] = "obs_deleted"]
  /\ todo' = [todo EXCEPT ![p] = @ \ {cur[p]}]
  /\ cur' = [cur EXCEPT ![p] = NoObject]
  /\ UNCHANGED <<bucketVars, etag, checksum, daId, rowVars, diskVars,
                 job, rid, listed, expect>>

\* After the loop, a log line and the summary.
EndReap(p) ==
  /\ pc[p] = "reap" /\ todo[p] = {}
  /\ ReaperReturn(p)
  /\ UNCHANGED <<bucketVars, objectVars, rowVars, diskVars>>

ReaperStep(p) ==
  \/ \E r \in Rows : BeginReap(p, r)
  \/ \E o \in Objects : HeadGone(p, o) \/ HeadMatch(p, o) \/ HeadMismatch(p, o)
  \/ DeleteObject(p)
  \/ MarkDeleted(p) \/ EndReap(p)
=============================================================================
