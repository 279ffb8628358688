---------------------------- MODULE Restoration ----------------------------
(***************************************************************************)
(* Restore sessions: Restorer.execute uploads the members of the archives  *)
(* a session was planned with back into the bucket and records each upload *)
(* in restore_objects; Cleaner.cleanup deletes what a session uploaded.    *)
(* Both are commands of an operator.  They run beside the reaper, which is *)
(* here what it does to one object: DELETE, then the obs_deleted mark.     *)
(*                                                                         *)
(* A member of an archive has the content, and so the ETag, of the backup  *)
(* object it was packed from; each archive also holds a metadata.json of   *)
(* its own, which is uploaded under that key like any other member.        *)
(***************************************************************************)
EXTENDS Naturals, Sequences, FiniteSetsExt

CONSTANTS
  Objects,     \* the archived backup objects
  Manifest,    \* the key metadata.json; the catalog has no row for it
  Archives,    \* the daily_archives
  Members,     \* Members[a]: the objects archive a holds
  Unreadable,  \* archives whose file may be missing or damaged
  Sessions,    \* restore_sessions, already planned
  Plan,        \* Plan[s]: required_daily_archives, in order
  Operators,   \* processes that run restore and cleanup
  Faults,      \* what OBS and its client may get wrong: "head", a HEAD that
               \* fails says not_found; "delete", a refused DELETE says nothing;
               \* "reply", a DELETE that raises was carried out all the same
  MaxExecutes, \* bound: times a session is executed
  MaxCrashes,  \* bound: commands that die in a behaviour
  NoKey, NoSession

Keys == Objects \cup {Manifest}
Contents == {"none", "backup"} \cup Archives
Parties == {"nobody", "gaussdb"} \cup Sessions
SessionStatuses ==
  {"retrieving", "extracting", "restored", "cleaning", "cleaned", "failed"}

ASSUME RestorationAssumption ==
  /\ Manifest \notin Objects
  /\ Archives \cap {"none", "backup"} = {}
  /\ Sessions \cap {"nobody", "gaussdb"} = {}
  /\ Members \in [Archives -> SUBSET Objects]
  /\ Unreadable \subseteq Archives
  /\ Plan \in [Sessions -> Seq(Archives)]
  /\ Faults \subseteq {"head", "delete", "reply"}
  /\ MaxExecutes \in Nat /\ MaxCrashes \in Nat
  /\ NoKey \notin Keys /\ NoSession \notin Sessions

VARIABLES
  obs,         \* obs[k]: what the bucket holds under k
  putBy,       \* putBy[k]: who put it there (no variable of the code)
  deleting,    \* objects the reaper has deleted and not marked yet
  reaped,      \* objects with status obs_deleted; the others are archived
  session,     \* restore_sessions.status
  rows,        \* restore_objects, in the order of their ids
  executed,    \* executed[s]: how often s was executed
  crashes,
  cmd          \* cmd[p]: the command operator p runs, see Commands

bucket  == <<obs, putBy>>
reaping == <<deleting, reaped>>
bounds  == <<executed, crashes>>
vars    == <<bucket, reaping, session, rows, bounds, cmd>>

\* Where a command is and its local variables.
Commands ==
  [pc : {"idle", "open", "upload", "put", "record",
         "list", "claim", "clean", "delete", "mark"},
   sid    : Sessions \cup {NoSession},
   queue  : Seq(Archives),  \* execute: archives to upload, the open one first
   todo   : SUBSET Keys,    \* execute: members of the open one to upload
   cur    : Keys \cup {NoKey},
   saw    : SessionStatuses \cup {"none"}, \* cleanup: status at the look-up
   work   : SUBSET DOMAIN rows,            \* cleanup: row ids to visit
   failed : BOOLEAN]                       \* cleanup: a row was not cleaned

NoCommand == [pc |-> "idle", sid |-> NoSession, queue |-> <<>>, todo |-> {},
              cur |-> NoKey, saw |-> "none", work |-> {}, failed |-> FALSE]

TypeOK ==
  /\ obs \in [Keys -> Contents] /\ putBy \in [Keys -> Parties]
  /\ deleting \subseteq Objects /\ reaped \subseteq Objects
  /\ session \in [Sessions -> SessionStatuses]
  /\ rows \in Seq([session : Sessions, key : Keys, etag : Contents,
                   cleaned : BOOLEAN])
  /\ executed \in [Sessions -> 0..MaxExecutes] /\ crashes \in 0..MaxCrashes
  /\ cmd \in [Operators -> Commands]

\* Every object is archived and still in the bucket; the sessions are planned.
Init ==
  /\ obs = [k \in Keys |-> IF k \in Objects THEN "backup" ELSE "none"]
  /\ putBy = [k \in Keys |-> IF k \in Objects THEN "gaussdb" ELSE "nobody"]
  /\ deleting = {} /\ reaped = {}
  /\ session = [s \in Sessions |-> "retrieving"]
  /\ rows = <<>>
  /\ executed = [s \in Sessions |-> 0]
  /\ crashes = 0
  /\ cmd = [p \in Operators |-> NoCommand]

At(p, label) == cmd[p].pc = label

\* The command ends, by a return or by an exception.
Return(p) == cmd' = [cmd EXCEPT ![p] = NoCommand]

\* update_restore_session_status: an unconditional UPDATE.
SetSession(s, status) == session' = [session EXCEPT ![s] = status]

-----------------------------------------------------------------------------
(* Restorer.execute.                                                       *)

\* The session is looked up, whatever its status.
Execute(p, s) ==
  /\ At(p, "idle")
  /\ executed[s] < MaxExecutes
  /\ executed' = [executed EXCEPT ![s] = @ + 1]
  /\ SetSession(s, "extracting")
  /\ cmd' = [cmd EXCEPT ![p].pc = "open", ![p].sid = s, ![p].queue = Plan[s]]
  /\ UNCHANGED <<bucket, reaping, rows, crashes>>

Opening(p) == Head(cmd[p].queue)

\* The archive is copied, its checksum verified and its members listed.
OpenArchive(p) ==
  /\ At(p, "open") /\ cmd[p].queue # <<>>
  /\ cmd' = [cmd EXCEPT ![p].pc = "upload",
                        ![p].todo = Members[Opening(p)] \cup {Manifest}]
  /\ UNCHANGED <<bucket, reaping, session, rows, bounds>>

\* A missing archive, or a directory, raises and leaves the status alone ...
ArchiveMissing(p) ==
  /\ At(p, "open") /\ cmd[p].queue # <<>> /\ Opening(p) \in Unreadable
  /\ Return(p)
  /\ UNCHANGED <<bucket, reaping, session, rows, bounds>>

\* ... a wrong checksum fails the session.
ArchiveDamaged(p) ==
  /\ At(p, "open") /\ cmd[p].queue # <<>> /\ Opening(p) \in Unreadable
  /\ SetSession(cmd[p].sid, "failed")
  /\ Return(p)
  /\ UNCHANGED <<bucket, reaping, rows, bounds>>

\* get_object_metadata, the HEAD of a key.
HeadFinds(k) == obs[k] # "none"
HeadMisses_mut(k) == TRUE
HeadMisses(k) == obs[k] = "none" \/ "head" \in Faults

\* HEAD of the next member; the order of the members is left open.
KeyTaken(p, k) ==
  /\ At(p, "upload") /\ k \in cmd[p].todo
  /\ HeadFinds(k)
  /\ SetSession(cmd[p].sid, "failed")
  /\ Return(p)
  /\ UNCHANGED <<bucket, reaping, rows, bounds>>

KeyFree(p, k) ==
  /\ At(p, "upload") /\ k \in cmd[p].todo
  /\ HeadMisses(k)
  /\ cmd' = [cmd EXCEPT ![p].pc = "put", ![p].cur = k, ![p].todo = @ \ {k}]
  /\ UNCHANGED <<bucket, reaping, session, rows, bounds>>

ContentIn_mut(a, k) == IF k = Manifest THEN k ELSE "backup"
ContentIn(a, k) == IF k = Manifest THEN a ELSE "backup"

Put(p) ==
  /\ At(p, "put")
  /\ obs' = [obs EXCEPT ![cmd[p].cur] = ContentIn(Opening(p), cmd[p].cur)]
  /\ putBy' = [putBy EXCEPT ![cmd[p].cur] = cmd[p].sid]
  /\ cmd' = [cmd EXCEPT ![p].pc = "record"]
  /\ UNCHANGED <<reaping, session, rows, bounds>>

\* add_restore_object, with the ETag the upload returned.
Record(p) ==
  /\ At(p, "record")
  /\ rows' = Append(rows, [session |-> cmd[p].sid, key |-> cmd[p].cur,
                           etag |-> ContentIn(Opening(p), cmd[p].cur),
                           cleaned |-> FALSE])
  /\ cmd' = [cmd EXCEPT ![p].pc = "upload", ![p].cur = NoKey]
  /\ UNCHANGED <<bucket, reaping, session, bounds>>

AllUploaded_mut(p) == TRUE
AllUploaded(p) == cmd[p].todo = {}

EndArchive(p) ==
  /\ At(p, "upload") /\ AllUploaded(p)
  /\ cmd' = [cmd EXCEPT ![p].pc = "open", ![p].queue = Tail(@)]
  /\ UNCHANGED <<bucket, reaping, session, rows, bounds>>

EndExecute(p) ==
  /\ At(p, "open") /\ cmd[p].queue = <<>>
  /\ SetSession(cmd[p].sid, "restored")
  /\ Return(p)
  /\ UNCHANGED <<bucket, reaping, rows, bounds>>

-----------------------------------------------------------------------------
(* Cleaner.cleanup.                                                        *)

\* Gate 1: any status but these two.
Cleanup(p, s) ==
  /\ At(p, "idle")
  /\ session[s] \notin {"cleaning", "cleaned"}
  /\ cmd' = [cmd EXCEPT ![p].pc = "list", ![p].sid = s, ![p].saw = session[s]]
  /\ UNCHANGED <<bucket, reaping, session, rows, bounds>>

\* list_restore_objects_for_session.
RowsOf_mut(s) == DOMAIN rows
RowsOf(s) == {i \in DOMAIN rows : rows[i].session = s}

\* Gate 2: without rows only a failed session is closed.
NothingListed(p) ==
  /\ At(p, "list") /\ RowsOf(cmd[p].sid) = {}
  /\ IF cmd[p].saw = "failed" THEN SetSession(cmd[p].sid, "cleaned")
                              ELSE UNCHANGED session
  /\ Return(p)
  /\ UNCHANGED <<bucket, reaping, rows, bounds>>

\* Rows that are cleaned already will be skipped.
ListRows(p) ==
  /\ At(p, "list") /\ RowsOf(cmd[p].sid) # {}
  /\ cmd' = [cmd EXCEPT ![p].pc = "claim",
               ![p].work = {i \in RowsOf(cmd[p].sid) : ~rows[i].cleaned}]
  /\ UNCHANGED <<bucket, reaping, session, rows, bounds>>

ClaimSession(p) ==
  /\ At(p, "claim")
  /\ SetSession(cmd[p].sid, "cleaning")
  /\ cmd' = [cmd EXCEPT ![p].pc = "clean"]
  /\ UNCHANGED <<bucket, reaping, rows, bounds>>

Visits(p, i) ==
  At(p, "clean") /\ i \in cmd[p].work /\ \A j \in cmd[p].work : i <= j

\* Gate 4: the catalog has no row for the key, or one that is obs_deleted.
SourceDeleted(k) == k \in reaped \cup {Manifest}

\* Gate 5: the ETag.
EtagAgrees(i) == obs[rows[i].key] = rows[i].etag

\* The row is left uncleaned, and the loop goes on.
RowRefused(p, i) ==
  /\ Visits(p, i)
  /\ \/ ~SourceDeleted(rows[i].key)
     \/ HeadFinds(rows[i].key) /\ ~EtagAgrees(i)
  /\ cmd' = [cmd EXCEPT ![p].work = @ \ {i}, ![p].failed = TRUE]
  /\ UNCHANGED <<bucket, reaping, session, rows, bounds>>

\* HEAD says not_found.
RowGone(p, i) ==
  /\ Visits(p, i)
  /\ SourceDeleted(rows[i].key) /\ HeadMisses(rows[i].key)
  /\ rows' = [rows EXCEPT ![i].cleaned = TRUE]
  /\ cmd' = [cmd EXCEPT ![p].work = @ \ {i}]
  /\ UNCHANGED <<bucket, reaping, session, bounds>>

RowPasses(p, i) ==
  /\ Visits(p, i)
  /\ SourceDeleted(rows[i].key) /\ EtagAgrees(i)
  /\ cmd' = [cmd EXCEPT ![p].pc = "delete", ![p].cur = rows[i].key]
  /\ UNCHANGED <<bucket, reaping, session, rows, bounds>>

Deleted(k) ==
  obs' = [obs EXCEPT ![k] = "none"] /\ putBy' = [putBy EXCEPT ![k] = "nobody"]

DeleteUpload(p) ==
  /\ At(p, "delete")
  /\ \/ Deleted(cmd[p].cur)
     \/ "delete" \in Faults /\ UNCHANGED bucket
  /\ cmd' = [cmd EXCEPT ![p].pc = "mark"]
  /\ UNCHANGED <<reaping, session, rows, bounds>>

\* delete_object raises, or the mark after it does: the row stays uncleaned.
DeleteRaises(p) ==
  /\ At(p, "delete")
  /\ \/ UNCHANGED bucket
     \/ "reply" \in Faults /\ Deleted(cmd[p].cur)
  /\ cmd' = [cmd EXCEPT ![p].pc = "clean", ![p].cur = NoKey,
                        ![p].work = @ \ {Min(@)}, ![p].failed = TRUE]
  /\ UNCHANGED <<reaping, session, rows, bounds>>

\* mark_restore_object_cleaned.
MarkCleaned(p) ==
  /\ At(p, "mark")
  /\ rows' = [rows EXCEPT ![Min(cmd[p].work)].cleaned = TRUE]
  /\ cmd' = [cmd EXCEPT ![p].pc = "clean", ![p].cur = NoKey,
                        ![p].work = @ \ {Min(@)}]
  /\ UNCHANGED <<bucket, reaping, session, bounds>>

Outcome_mut(p) == "cleaned"
Outcome(p) == IF cmd[p].failed THEN "failed" ELSE "cleaned"

EndCleanup(p) ==
  /\ At(p, "clean") /\ cmd[p].work = {}
  /\ SetSession(cmd[p].sid, Outcome(p))
  /\ Return(p)
  /\ UNCHANGED <<bucket, reaping, rows, bounds>>

-----------------------------------------------------------------------------
(* The reaper, which is not killed here, and commands that die: killed, or *)
(* by an exception of OBS or SQLite that nothing catches.                  *)

ReapDelete(o) ==
  /\ o \notin deleting \cup reaped
  /\ obs[o] = "backup"
  /\ Deleted(o)
  /\ deleting' = deleting \cup {o}
  /\ UNCHANGED <<reaped, session, rows, bounds, cmd>>

ReapMark(o) ==
  /\ o \in deleting
  /\ deleting' = deleting \ {o}
  /\ reaped' = reaped \cup {o}
  /\ UNCHANGED <<bucket, session, rows, bounds, cmd>>

Crash(p) ==
  /\ ~At(p, "idle")
  /\ crashes < MaxCrashes
  /\ crashes' = crashes + 1
  /\ Return(p)
  /\ UNCHANGED <<bucket, reaping, session, rows, executed>>

-----------------------------------------------------------------------------

ExecuteStep(p) ==
  \/ \E s \in Sessions : Execute(p, s)
  \/ OpenArchive(p) \/ ArchiveMissing(p) \/ ArchiveDamaged(p)
  \/ \E k \in Keys : KeyTaken(p, k) \/ KeyFree(p, k)
  \/ Put(p) \/ Record(p) \/ EndArchive(p) \/ EndExecute(p)

CleanupStep(p) ==
  \/ \E s \in Sessions : Cleanup(p, s)
  \/ NothingListed(p) \/ ListRows(p) \/ ClaimSession(p)
  \/ \E i \in DOMAIN rows : RowRefused(p, i) \/ RowGone(p, i) \/ RowPasses(p, i)
  \/ DeleteUpload(p) \/ DeleteRaises(p) \/ MarkCleaned(p) \/ EndCleanup(p)

Next ==
  \/ \E p \in Operators : ExecuteStep(p) \/ CleanupStep(p) \/ Crash(p)
  \/ \E o \in Objects : ReapDelete(o) \/ ReapMark(o)

Spec == Init /\ [][Next]_vars

-----------------------------------------------------------------------------
(* Safety.                                                                 *)

\* A backup GaussDB wrote leaves the bucket by the reaper only: restore never
\* writes over one and cleanup never deletes one (restorer.py 206-211 and the
\* gates of cleaner.py).
BackupsUntouched ==
  \A o \in Objects : putBy[o] # "gaussdb" => o \in deleting \cup reaped

\* What cleanup is about to delete was uploaded by the session it cleans, the
\* claim of gate 3 (cleaner.py:6).
CleansOwnUploads ==
  \A p \in Operators :
    At(p, "delete") /\ obs[cmd[p].cur] # "none" =>
      putBy[cmd[p].cur] = cmd[p].sid

Serving(s) == \E p \in Operators : cmd[p].sid = s

\* Nothing a session recorded as its upload is left in the bucket once it is
\* cleaned (cleaner.py 76-82).
CleanedIsComplete ==
  \A s \in Sessions : session[s] = "cleaned" /\ ~Serving(s) =>
    \A i \in RowsOf(s) : rows[i].cleaned /\ putBy[rows[i].key] # s

\* While a session is restored and nothing works on it, all its archives hold
\* is in the bucket, whatever happens to other sessions.
RestoredIsUsable ==
  \A s \in Sessions : session[s] = "restored" /\ ~Serving(s) =>
    \A n \in DOMAIN Plan[s] : \A k \in Members[Plan[s][n]] \cup {Manifest} :
      obs[k] = ContentIn(Plan[s][n], k) /\ putBy[k] = s

\* The keys a session is to bring back.
Needed == [s \in Sessions |->
             UNION {Members[Plan[s][n]] \cup {Manifest} : n \in DOMAIN Plan[s]}]

Tenants == INSTANCE Tenancy WITH owner <- putBy, phase <- session,
                                 Phases <- SessionStatuses, Needs <- Needed

\* A session puts only where nobody's object is, cleanup takes away only what
\* the session being cleaned put there, and execute says restored only once all
\* of the plan is there as that session's (Tenancy).
KeepsTenancy == Tenants!Spec
=============================================================================
