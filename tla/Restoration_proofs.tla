------------------------- MODULE Restoration_proofs -------------------------
(***************************************************************************)
(* Proofs about Restoration, for any archives, sessions, plans, operators, *)
(* executions and crashes: its types; that restore and cleanup leave the   *)
(* backups GaussDB wrote alone as long as HEAD is right; and, for one      *)
(* operator, what restore_objects says of the bucket, that cleanup deletes *)
(* its own uploads and all of them, and the implementation of Tenancy.     *)
(***************************************************************************)
EXTENDS RestorationInvariant, TLAPS

RowShape == [session : Sessions, key : Keys, etag : Contents, cleaned : BOOLEAN]

\* What the label of a command says of its locals.
CmdInv ==
  \A p \in Operators :
    /\ ~At(p, "idle") => cmd[p].sid \in Sessions
    /\ cmd[p].pc \in {"upload", "put", "record"} => cmd[p].queue # <<>>
    /\ cmd[p].pc \in {"put", "record", "delete", "mark"} => cmd[p].cur \in Keys

RestoreTypes == TypeOK /\ CmdInv

LEMMA CleanedRowType ==
  ASSUME NEW r \in Seq(RowShape), NEW n
  PROVE  /\ [r EXCEPT ![n].cleaned = TRUE] \in Seq(RowShape)
         /\ DOMAIN [r EXCEPT ![n].cleaned = TRUE] = DOMAIN r
<1> DEFINE s == [r EXCEPT ![n].cleaned = TRUE]
<1>1. DOMAIN s = 1..Len(r) /\ Len(r) \in Nat
  OBVIOUS
<1>2. ASSUME NEW i \in 1..Len(r) PROVE s[i] \in RowShape
  <2>1. r[i] \in RowShape
    OBVIOUS
  <2>2. [r[i] EXCEPT !.cleaned = TRUE] \in RowShape
    BY <2>1 DEF RowShape
  <2>3. s[i] = IF i = n THEN [r[i] EXCEPT !.cleaned = TRUE] ELSE r[i]
    BY <1>1
  <2> QED BY <2>1, <2>2, <2>3
<1>3. s \in [1..Len(r) -> RowShape]
  BY <1>1, <1>2
<1> QED BY <1>1, <1>3

\* A step of one operator that keeps its locals typed.
LEMMA CommandType ==
  ASSUME TypeOK, NEW p \in Operators, NEW c, cmd' = [cmd EXCEPT ![p] = c],
         c \in Commands', DOMAIN rows \subseteq DOMAIN rows'
  PROVE  cmd' \in [Operators -> Commands']
<1>1. \A q \in Operators : cmd[q] \in Commands'
  BY DEF TypeOK, Commands
<1> QED BY <1>1 DEF TypeOK

LEMMA ReturnType ==
  ASSUME TypeOK, NEW p \in Operators, Return(p), DOMAIN rows \subseteq DOMAIN rows'
  PROVE  cmd' \in [Operators -> Commands']
<1>1. NoCommand \in Commands'
  BY DEF NoCommand, Commands
<1> QED BY <1>1, CommandType DEF Return

LEMMA ContentType ==
  ASSUME RestorationAssumption, NEW a \in Archives, NEW k
  PROVE  ContentIn(a, k) \in Contents
BY DEF ContentIn, Contents

LEMMA DeletedType ==
  ASSUME TypeOK, NEW k, Deleted(k)
  PROVE  obs' \in [Keys -> Contents] /\ putBy' \in [Keys -> Parties]
BY DEF TypeOK, Deleted, Contents, Parties

LEMMA SetSessionType ==
  ASSUME TypeOK, NEW s, NEW status \in SessionStatuses, SetSession(s, status)
  PROVE  session' \in [Sessions -> SessionStatuses]
BY DEF TypeOK, SetSession

LEMMA ExecuteTypes ==
  ASSUME RestorationAssumption, RestoreTypes, NEW p \in Operators, ExecuteStep(p)
  PROVE  RestoreTypes'
<1> USE DEF RestorationAssumption, RestoreTypes, TypeOK, CmdInv, At
<1>0. cmd[p] \in Commands /\ (cmd[p].queue # <<>> => Opening(p) \in Archives)
  BY DEF Commands, Opening
<1>execute. ASSUME NEW s \in Sessions, Execute(p, s) PROVE RestoreTypes'
  <2> DEFINE c == [cmd[p] EXCEPT !.pc = "open", !.sid = s, !.queue = Plan[s]]
  <2>1. c \in Commands /\ c.pc = "open" /\ c.sid = s
    BY <1>0 DEF Commands
  <2>2. cmd' = [cmd EXCEPT ![p] = c] /\ rows' = rows
    BY <1>execute DEF Execute
  <2> HIDE DEF c
  <2>3. Commands' = Commands
    BY <2>2 DEF Commands
  <2>4. cmd' \in [Operators -> Commands']
    BY <2>1, <2>2, <2>3
  <2>5. CmdInv'
    BY <2>1, <2>2
  <2>6. executed' \in [Sessions -> 0..MaxExecutes]
    BY <1>execute DEF Execute
  <2> QED BY <1>execute, <2>4, <2>5, <2>6
          DEF Execute, SetSession, SessionStatuses, bucket, reaping
<1>open. CASE OpenArchive(p)
  BY <1>0, <1>open DEF OpenArchive, Commands, Keys, bucket, reaping, bounds
<1>missing. CASE ArchiveMissing(p)
  BY <1>missing, ReturnType DEF ArchiveMissing, Return, NoCommand, bucket, reaping, bounds
<1>damaged. CASE ArchiveDamaged(p)
  BY <1>damaged, ReturnType
     DEF ArchiveDamaged, Return, NoCommand, SetSession, SessionStatuses, bucket, reaping, bounds
<1>taken. ASSUME NEW k \in Keys, KeyTaken(p, k) PROVE RestoreTypes'
  BY <1>taken, ReturnType
     DEF KeyTaken, Return, NoCommand, SetSession, SessionStatuses, bucket, reaping, bounds
<1>free. ASSUME NEW k \in Keys, KeyFree(p, k) PROVE RestoreTypes'
  BY <1>0, <1>free DEF KeyFree, Commands, bucket, reaping, bounds
<1>put. CASE Put(p)
  BY <1>0, <1>put, ContentType DEF Put, Commands, Parties, reaping, bounds
<1>record. CASE Record(p)
  <2> DEFINE row == [session |-> cmd[p].sid, key |-> cmd[p].cur,
                     etag |-> ContentIn(Opening(p), cmd[p].cur), cleaned |-> FALSE]
             c == [cmd[p] EXCEPT !.pc = "upload", !.cur = NoKey]
  <2>1. row \in RowShape
    BY <1>0, <1>record, ContentType DEF Record, RowShape
  <2>2. rows' = Append(rows, row)
    BY <1>record DEF Record
  <2> HIDE DEF row
  <2>3. rows' \in Seq(RowShape) /\ DOMAIN rows \subseteq DOMAIN rows'
    BY <2>1, <2>2 DEF RowShape
  <2>4. c \in Commands /\ c.pc = "upload" /\ c.sid \in Sessions /\ c.queue # <<>>
    BY <1>0, <1>record DEF Record, Commands
  <2>5. cmd' = [cmd EXCEPT ![p] = c]
    BY <1>record DEF Record
  <2>6. c \in Commands'
    BY <2>3, <2>4 DEF Commands
  <2>7. cmd' \in [Operators -> Commands']
    BY <2>3, <2>5, <2>6, CommandType
  <2>8. CmdInv'
    BY <2>4, <2>5
  <2> QED BY <1>record, <2>3, <2>7, <2>8 DEF Record, RowShape, bucket, reaping, bounds
<1>endArchive. CASE EndArchive(p)
  <2> DEFINE c == [cmd[p] EXCEPT !.pc = "open", !.queue = Tail(@)]
  <2>1. cmd[p].queue # <<>> /\ cmd[p].queue \in Seq(Archives)
    BY <1>0, <1>endArchive DEF EndArchive, Commands
  <2>2. Tail(cmd[p].queue) \in Seq(Archives)
    BY <2>1
  <2>3. c \in Commands /\ c.pc = "open" /\ c.sid \in Sessions
    BY <1>0, <1>endArchive, <2>2 DEF EndArchive, Commands
  <2>4. cmd' = [cmd EXCEPT ![p] = c] /\ rows' = rows
    BY <1>endArchive DEF EndArchive
  <2> HIDE DEF c
  <2>5. Commands' = Commands
    BY <2>4 DEF Commands
  <2>6. cmd' \in [Operators -> Commands'] /\ CmdInv'
    BY <2>3, <2>4, <2>5
  <2> QED BY <1>endArchive, <2>6 DEF EndArchive, bucket, reaping, bounds
<1>end. CASE EndExecute(p)
  BY <1>end, ReturnType
     DEF EndExecute, Return, NoCommand, SetSession, SessionStatuses, bucket, reaping, bounds
<1> QED BY <1>execute, <1>open, <1>missing, <1>damaged, <1>taken, <1>free, <1>put,
           <1>record, <1>endArchive, <1>end DEF ExecuteStep

LEMMA CleanupTypes ==
  ASSUME RestorationAssumption, RestoreTypes, NEW p \in Operators, CleanupStep(p)
  PROVE  RestoreTypes'
<1> USE DEF RestorationAssumption, RestoreTypes, TypeOK, CmdInv, At
<1>0. cmd[p] \in Commands
  OBVIOUS
<1>rows. \A n : /\ [rows EXCEPT ![n].cleaned = TRUE] \in Seq(RowShape)
                /\ DOMAIN [rows EXCEPT ![n].cleaned = TRUE] = DOMAIN rows
  BY CleanedRowType DEF RowShape
<1>cleanup. ASSUME NEW s \in Sessions, Cleanup(p, s) PROVE RestoreTypes'
  BY <1>0, <1>cleanup DEF Cleanup, Commands, bucket, reaping, bounds
<1>nothing. CASE NothingListed(p)
  BY <1>nothing, ReturnType
     DEF NothingListed, Return, NoCommand, SetSession, SessionStatuses, bucket, reaping, bounds
<1>list. CASE ListRows(p)
  BY <1>0, <1>list DEF ListRows, RowsOf, Commands, bucket, reaping, bounds
<1>claim. CASE ClaimSession(p)
  BY <1>0, <1>claim
     DEF ClaimSession, SetSession, SessionStatuses, Commands, bucket, reaping, bounds
<1>refused. ASSUME NEW i \in DOMAIN rows, RowRefused(p, i) PROVE RestoreTypes'
  BY <1>0, <1>refused DEF RowRefused, Visits, Commands, bucket, reaping, bounds
<1>gone. ASSUME NEW i \in DOMAIN rows, RowGone(p, i) PROVE RestoreTypes'
  <2> DEFINE c == [cmd[p] EXCEPT !.work = @ \ {i}]
  <2>1. rows' \in Seq(RowShape) /\ DOMAIN rows' = DOMAIN rows
    BY <1>gone, <1>rows DEF RowGone
  <2>2. c \in Commands /\ c.pc = "clean" /\ c.sid \in Sessions
    BY <1>0, <1>gone DEF RowGone, Visits, Commands
  <2>3. cmd' = [cmd EXCEPT ![p] = c]
    BY <1>gone DEF RowGone
  <2>4. c \in Commands'
    BY <2>1, <2>2 DEF Commands
  <2> HIDE DEF c
  <2>5. cmd' \in [Operators -> Commands']
    BY <2>1, <2>3, <2>4, CommandType
  <2>6. CmdInv'
    BY <2>2, <2>3
  <2> QED BY <1>gone, <2>1, <2>5, <2>6 DEF RowGone, RowShape, bucket, reaping, bounds
<1>passes. ASSUME NEW i \in DOMAIN rows, RowPasses(p, i) PROVE RestoreTypes'
  <2>1. rows[i].key \in Keys
    <3>1. rows \in Seq(RowShape) /\ i \in DOMAIN rows
      BY DEF RowShape
    <3>2. rows[i] \in RowShape
      BY <3>1
    <3> QED BY <3>2 DEF RowShape
  <2> QED BY <1>0, <1>passes, <2>1
          DEF RowPasses, Visits, Commands, bucket, reaping, bounds
<1>delete. CASE DeleteUpload(p)
  <2>1. obs' \in [Keys -> Contents] /\ putBy' \in [Keys -> Parties]
    BY <1>delete, DeletedType DEF DeleteUpload, bucket
  <2> QED BY <1>0, <1>delete, <2>1 DEF DeleteUpload, Commands, reaping, bounds
<1>raises. CASE DeleteRaises(p)
  <2>1. obs' \in [Keys -> Contents] /\ putBy' \in [Keys -> Parties]
    BY <1>raises, DeletedType DEF DeleteRaises, bucket
  <2> QED BY <1>0, <1>raises, <2>1 DEF DeleteRaises, Commands, reaping, bounds
<1>mark. CASE MarkCleaned(p)
  <2> DEFINE c == [cmd[p] EXCEPT !.pc = "clean", !.cur = NoKey, !.work = @ \ {Min(@)}]
  <2>1. rows' \in Seq(RowShape) /\ DOMAIN rows' = DOMAIN rows
    BY <1>mark, <1>rows DEF MarkCleaned
  <2>2. c \in Commands /\ c.pc = "clean" /\ c.sid \in Sessions
    BY <1>0, <1>mark DEF MarkCleaned, Commands
  <2>3. cmd' = [cmd EXCEPT ![p] = c]
    BY <1>mark DEF MarkCleaned
  <2>4. c \in Commands'
    BY <2>1, <2>2 DEF Commands
  <2> HIDE DEF c
  <2>5. cmd' \in [Operators -> Commands']
    BY <2>1, <2>3, <2>4, CommandType
  <2>6. CmdInv'
    BY <2>2, <2>3
  <2> QED BY <1>mark, <2>1, <2>5, <2>6 DEF MarkCleaned, RowShape, bucket, reaping, bounds
<1>end. CASE EndCleanup(p)
  BY <1>end, ReturnType
     DEF EndCleanup, Outcome, Return, NoCommand, SetSession, SessionStatuses,
         bucket, reaping, bounds
<1> QED BY <1>cleanup, <1>nothing, <1>list, <1>claim, <1>refused, <1>gone, <1>passes,
           <1>delete, <1>raises, <1>mark, <1>end DEF CleanupStep

LEMMA RestoreTypesHold ==
  ASSUME RestorationAssumption, RestoreTypes, [Next]_vars
  PROVE  RestoreTypes'
<1> USE DEF RestorationAssumption, RestoreTypes, TypeOK, CmdInv, At
<1>crash. ASSUME NEW p \in Operators, Crash(p) PROVE RestoreTypes'
  <2>1. crashes' \in 0..MaxCrashes
    BY <1>crash DEF Crash
  <2> QED BY <1>crash, <2>1, ReturnType DEF Crash, Return, NoCommand, bucket, reaping
<1>same. ASSUME cmd' = cmd, rows' = rows PROVE cmd' \in [Operators -> Commands'] /\ CmdInv'
  BY <1>same DEF Commands
<1>delete. ASSUME NEW o \in Objects, ReapDelete(o) PROVE RestoreTypes'
  <2>1. obs' \in [Keys -> Contents] /\ putBy' \in [Keys -> Parties]
    BY <1>delete, DeletedType DEF ReapDelete
  <2> QED BY <1>delete, <1>same, <2>1 DEF ReapDelete, bounds
<1>mark. ASSUME NEW o \in Objects, ReapMark(o) PROVE RestoreTypes'
  BY <1>mark, <1>same DEF ReapMark, bucket, bounds
<1>stutter. CASE UNCHANGED vars
  BY <1>stutter, <1>same DEF vars, bucket, reaping, bounds
<1> QED BY <1>crash, <1>delete, <1>mark, <1>stutter, ExecuteTypes, CleanupTypes DEF Next

\* Types, with those of a command's locals at each label, are invariant.
THEOREM RestoreTyping == Spec => []RestoreTypes
<1>1. Init => RestoreTypes
  <2>1. Init => NoCommand \in Commands
    BY RestorationAssumption DEF RestorationAssumption, Init, NoCommand, Commands
  <2> QED BY <2>1, RestorationAssumption
          DEF RestorationAssumption, Init, RestoreTypes, TypeOK, CmdInv, At, NoCommand,
              Contents, Parties, SessionStatuses
<1>2. RestoreTypes /\ [Next]_vars => RestoreTypes'
  BY RestorationAssumption, RestoreTypesHold
<1> QED BY <1>1, <1>2, PTL DEF Spec

\* Every variable of a restore keeps its type, for any plans and any number of
\* operators, executions and crashes.
THEOREM RestorationTypeCorrect == Spec => []TypeOK
<1>1. RestoreTypes => TypeOK
  BY DEF RestoreTypes
<1> QED BY <1>1, RestoreTyping, PTL

-----------------------------------------------------------------------------
(* Backups                                                                 *)

\* What the bucket holds of GaussDB's is the backup; a command is about to
\* write only where nothing of GaussDB's is, since HEAD said so and nothing of
\* GaussDB's comes back, and about to delete only what the reaper had.
BackupInv ==
  /\ BackupsUntouched
  /\ \A o \in Objects : putBy[o] = "gaussdb" => obs[o] = "backup"
  /\ \A o \in deleting \cup reaped : putBy[o] # "gaussdb"
  /\ \A p \in Operators :
       /\ At(p, "put") => putBy[cmd[p].cur] # "gaussdb"
       /\ At(p, "delete") => cmd[p].cur \in reaped \cup {Manifest}
  /\ putBy[Manifest] # "gaussdb"

LEMMA BackupInvHolds ==
  ASSUME RestorationAssumption, "head" \notin Faults, RestoreTypes, BackupInv, [Next]_vars
  PROVE  BackupInv'
<1> USE DEF RestorationAssumption, RestoreTypes, TypeOK, BackupInv, BackupsUntouched, At, Keys
\* A step that leaves the bucket and the reaper alone and does not end at one
\* of the two labels.
<1>quiet. ASSUME NEW p \in Operators, UNCHANGED bucket, UNCHANGED reaping,
                 \A q \in Operators : q # p => cmd'[q] = cmd[q],
                 cmd'[p].pc \notin {"put", "delete"}
          PROVE  BackupInv'
  BY <1>quiet DEF bucket, reaping
<1>execute. ASSUME NEW p \in Operators, ExecuteStep(p) PROVE BackupInv'
  <2>free. ASSUME NEW k \in Keys, KeyFree(p, k) PROVE BackupInv'
    <3>1. putBy[k] # "gaussdb"
      BY <2>free DEF KeyFree, HeadMisses
    <3> QED BY <2>free, <3>1 DEF KeyFree, bucket, reaping
  <2>put. CASE Put(p)
    <3>1. cmd[p].cur \in Keys /\ cmd[p].sid \in Sessions /\ putBy[cmd[p].cur] # "gaussdb"
      BY <2>put DEF Put, CmdInv
    <3>2. cmd[p].sid # "gaussdb"
      BY <3>1
    <3>3. \A k \in Keys : /\ putBy'[k] = "gaussdb" <=> putBy[k] = "gaussdb"
                          /\ putBy[k] = "gaussdb" => obs'[k] = obs[k]
      BY <2>put, <3>1, <3>2 DEF Put
    <3>4. \A q \in Operators : At(q, "put")' => At(q, "put") /\ cmd'[q] = cmd[q]
      BY <2>put DEF Put
    <3>5. \A q \in Operators : At(q, "delete")' => At(q, "delete") /\ cmd'[q] = cmd[q]
      BY <2>put DEF Put
    <3>6. deleting' = deleting /\ reaped' = reaped
      BY <2>put DEF Put, reaping
    <3>7. \A q \in Operators : At(q, "put") => cmd[q].cur \in Keys
      BY DEF CmdInv
    <3> QED BY <3>3, <3>4, <3>5, <3>6, <3>7
  <2>execute. ASSUME NEW s \in Sessions, Execute(p, s) PROVE BackupInv'
    BY <2>execute, <1>quiet DEF Execute
  <2>open. CASE OpenArchive(p)
    BY <2>open, <1>quiet DEF OpenArchive
  <2>missing. CASE ArchiveMissing(p)
    BY <2>missing, <1>quiet DEF ArchiveMissing, Return, NoCommand
  <2>damaged. CASE ArchiveDamaged(p)
    BY <2>damaged, <1>quiet DEF ArchiveDamaged, Return, NoCommand
  <2>taken. ASSUME NEW k \in Keys, KeyTaken(p, k) PROVE BackupInv'
    BY <2>taken, <1>quiet DEF KeyTaken, Return, NoCommand
  <2>record. CASE Record(p)
    BY <2>record, <1>quiet DEF Record
  <2>endArchive. CASE EndArchive(p)
    BY <2>endArchive, <1>quiet DEF EndArchive
  <2>end. CASE EndExecute(p)
    BY <2>end, <1>quiet DEF EndExecute, Return, NoCommand
  <2> QED BY <1>execute, <2>free, <2>put, <2>execute, <2>open, <2>missing, <2>damaged,
             <2>taken, <2>record, <2>endArchive, <2>end DEF ExecuteStep
<1>cleanup. ASSUME NEW p \in Operators, CleanupStep(p) PROVE BackupInv'
  <2>passes. ASSUME NEW i \in DOMAIN rows, RowPasses(p, i) PROVE BackupInv'
    BY <1>cleanup, <2>passes DEF RowPasses, SourceDeleted, bucket, reaping
  <2>remove. ASSUME At(p, "delete"), Deleted(cmd[p].cur), UNCHANGED reaping,
                    \A q \in Operators : q # p => cmd'[q] = cmd[q],
                    cmd'[p].pc \notin {"put", "delete"}
             PROVE  BackupInv'
    <3>1. cmd[p].cur \in reaped \cup {Manifest}
      BY <2>remove
    <3>2. \A k \in Keys : /\ putBy'[k] = "gaussdb" <=> putBy[k] = "gaussdb"
                          /\ putBy[k] = "gaussdb" => obs'[k] = obs[k]
      BY <2>remove, <3>1 DEF Deleted
    <3>3. \A q \in Operators : At(q, "put") => cmd[q].cur \in Keys
      BY DEF CmdInv
    <3>4. deleting' = deleting /\ reaped' = reaped
      BY <2>remove DEF reaping
    <3>5. \A q \in Operators : /\ At(q, "put")' => At(q, "put") /\ cmd'[q] = cmd[q]
                               /\ At(q, "delete")' => At(q, "delete") /\ cmd'[q] = cmd[q]
      BY <2>remove
    <3> QED BY <3>2, <3>3, <3>4, <3>5
  <2>delete. CASE DeleteUpload(p)
    BY <2>delete, <2>remove, <1>quiet DEF DeleteUpload
  <2>raises. CASE DeleteRaises(p)
    BY <2>raises, <2>remove, <1>quiet DEF DeleteRaises
  <2>cleanup. ASSUME NEW s \in Sessions, Cleanup(p, s) PROVE BackupInv'
    BY <2>cleanup, <1>quiet DEF Cleanup
  <2>nothing. CASE NothingListed(p)
    BY <2>nothing, <1>quiet DEF NothingListed, Return, NoCommand
  <2>list. CASE ListRows(p)
    <3>1. cmd'[p].pc = "claim" /\ \A q \in Operators : q # p => cmd'[q] = cmd[q]
      BY <2>list DEF ListRows
    <3>2. UNCHANGED bucket /\ UNCHANGED reaping
      BY <2>list DEF ListRows
    <3> QED BY <1>quiet, <3>1, <3>2
  <2>claim. CASE ClaimSession(p)
    BY <2>claim, <1>quiet DEF ClaimSession
  <2>refused. ASSUME NEW i \in DOMAIN rows, RowRefused(p, i) PROVE BackupInv'
    BY <2>refused, <1>quiet DEF RowRefused, Visits
  <2>gone. ASSUME NEW i \in DOMAIN rows, RowGone(p, i) PROVE BackupInv'
    BY <2>gone, <1>quiet DEF RowGone, Visits
  <2>mark. CASE MarkCleaned(p)
    BY <2>mark, <1>quiet DEF MarkCleaned
  <2>end. CASE EndCleanup(p)
    BY <2>end, <1>quiet DEF EndCleanup, Return, NoCommand
  <2> QED BY <1>cleanup, <2>passes, <2>delete, <2>raises, <2>cleanup, <2>nothing, <2>list,
             <2>claim, <2>refused, <2>gone, <2>mark, <2>end DEF CleanupStep
<1>crash. ASSUME NEW p \in Operators, Crash(p) PROVE BackupInv'
  BY <1>crash, <1>quiet DEF Crash, Return, NoCommand
<1>reap. ASSUME NEW o \in Objects, ReapDelete(o) PROVE BackupInv'
  BY <1>reap DEF ReapDelete, Deleted, CmdInv
<1>mark. ASSUME NEW o \in Objects, ReapMark(o) PROVE BackupInv'
  BY <1>mark DEF ReapMark, bucket
<1>stutter. CASE UNCHANGED vars
  BY <1>stutter DEF vars, bucket, reaping
<1> QED BY <1>execute, <1>cleanup, <1>crash, <1>reap, <1>mark, <1>stutter DEF Next

LEMMA BackupsStay ==
  ASSUME "head" \notin Faults
  PROVE  Spec => []BackupInv
<1>1. Init => BackupInv
  BY RestorationAssumption
     DEF RestorationAssumption, Init, BackupInv, BackupsUntouched, At, NoCommand, Keys
<1>2. RestoreTypes /\ BackupInv /\ [Next]_vars => BackupInv'
  BY RestorationAssumption, BackupInvHolds
<1> QED BY <1>1, <1>2, RestoreTyping, PTL DEF Spec

\* Neither restore nor cleanup ever touches a backup that GaussDB wrote, however
\* many of them run at once, when the HEAD of a key that is there finds it.
THEOREM BackupsAlwaysUntouched ==
  ASSUME "head" \notin Faults
  PROVE  Spec => []BackupsUntouched
<1>1. BackupInv => BackupsUntouched
  BY DEF BackupInv
<1> QED BY <1>1, BackupsStay, PTL

-----------------------------------------------------------------------------
(* The rows, the labels and the sessions                                   *)

LEMMA RowsTyped ==
  ASSUME RestoreTypes, NEW i \in DOMAIN rows
  PROVE  /\ rows[i].session \in Sessions /\ rows[i].key \in Keys
         /\ rows[i].etag \in Contents /\ rows[i].cleaned \in BOOLEAN
<1>1. rows \in Seq(RowShape)
  BY DEF RestoreTypes, TypeOK, RowShape
<1>2. rows[i] \in RowShape
  BY <1>1
<1> QED BY <1>2 DEF RowShape

\* Marking a row cleaned changes nothing else.
LEMMA MarkedRow ==
  ASSUME RestoreTypes, NEW n \in DOMAIN rows,
         rows' = [rows EXCEPT ![n].cleaned = TRUE]
  PROVE  /\ DOMAIN rows' = DOMAIN rows
         /\ \A i \in DOMAIN rows : /\ rows'[i].session = rows[i].session
                                   /\ rows'[i].key = rows[i].key
                                   /\ rows'[i].etag = rows[i].etag
                                   /\ rows'[i].cleaned = (rows[i].cleaned \/ i = n)
<1>1. rows \in Seq(RowShape)
  BY DEF RestoreTypes, TypeOK, RowShape
<1>2. \A i \in DOMAIN rows : rows[i] \in RowShape
  BY <1>1
<1>3. DOMAIN rows' = DOMAIN rows
  BY <1>1, CleanedRowType
<1>4. \A i \in DOMAIN rows :
        rows'[i] = IF i = n THEN [rows[i] EXCEPT !.cleaned = TRUE] ELSE rows[i]
  BY <1>1
<1> QED BY <1>2, <1>3, <1>4 DEF RowShape

\* The row of a new upload comes after the others.
LEMMA AddedRow ==
  ASSUME RestoreTypes, NEW r, rows' = Append(rows, r)
  PROVE  \E n \in Nat : /\ n \notin DOMAIN rows /\ rows'[n] = r
                        /\ DOMAIN rows' = DOMAIN rows \cup {n}
                        /\ \A i \in DOMAIN rows : rows'[i] = rows[i]
<1>1. rows \in Seq(RowShape)
  BY DEF RestoreTypes, TypeOK, RowShape
<1>2. Len(rows) \in Nat /\ DOMAIN rows = 1..Len(rows)
  BY <1>1
<1>3. /\ rows'[Len(rows) + 1] = r /\ DOMAIN rows' = 1..(Len(rows) + 1)
      /\ \A i \in DOMAIN rows : rows'[i] = rows[i]
  BY <1>1, <1>2
<1> QED BY <1>2, <1>3

LEMMA LeastIsMin ==
  ASSUME NEW S \in SUBSET Nat, NEW i \in S, \A j \in S : i <= j
  PROVE  Min(S) = i
<1>1. Min(S) = CHOOSE m \in S : \A j \in S : m <= j
  BY DEF Min
<1>2. Min(S) \in S /\ \A j \in S : Min(S) <= j
  BY <1>1
<1>3. Min(S) \in Nat /\ i \in Nat /\ Min(S) <= i
  BY <1>2
<1>4. i <= Min(S)
  BY <1>2
<1> HIDE DEF Min
<1> QED BY <1>3, <1>4

-----------------------------------------------------------------------------

LEMMA ExecuteSession ==
  ASSUME RestorationAssumption, OneOperator, RestoreTypes, SessionInv,
         NEW p \in Operators, ExecuteStep(p)
  PROVE  SessionInv'
<1> USE DEF RestorationAssumption, RestoreTypes, TypeOK, CmdInv, At,
            SessionInv, RowsInv, LabelInv, StuckInv, Stuck, Serving,
            Executing, Cleaning, Visiting, Keys
<1>p. /\ \A q \in Operators : q = p
      /\ cmd[p] \in Commands /\ (cmd[p].queue # <<>> => Opening(p) \in Archives)
  BY DEF OneOperator, Commands, Opening
<1>rows. \A i \in DOMAIN rows : rows[i].session \in Sessions /\ rows[i].key \in Keys
  BY RowsTyped
\* The command goes on, or returns, and leaves bucket and rows alone.
<1>quiet. ASSUME UNCHANGED bucket, UNCHANGED rows, UNCHANGED bounds,
                 \/ Executing(p)' /\ cmd'[p].sid = cmd[p].sid /\ session' = session
                 \/ Return(p) /\ \/ session' = session
                                 \/ SetSession(cmd[p].sid, "failed")
                                 \/ SetSession(cmd[p].sid, "restored"),
                 Executing(p)
          PROVE  SessionInv'
  <2>1. RowsInv'
    BY <1>quiet DEF bucket, bounds
  <2>2. CASE Executing(p)' /\ cmd'[p].sid = cmd[p].sid /\ session' = session
    BY <1>p, <1>quiet, <2>1, <2>2 DEF bounds
  <2>3. CASE Return(p)
    <3>1. cmd'[p].pc = "idle" /\ cmd'[p].sid = NoSession
      BY <2>3 DEF Return, NoCommand
    <3>2. \A s \in Sessions : session'[s] = "cleaning" => session[s] = "cleaning" /\ s # cmd[p].sid
      BY <1>quiet, <2>3, <3>1 DEF SetSession
    <3> QED BY <1>p, <1>quiet, <2>1, <3>1, <3>2 DEF bounds
  <2> QED BY <1>quiet, <2>2, <2>3
<1>execute. ASSUME NEW s \in Sessions, Execute(p, s) PROVE SessionInv'
  <2>1. /\ cmd'[p].pc = "open" /\ cmd'[p].sid = s /\ session'[s] = "extracting"
        /\ executed'[s] # 0 /\ crashes' = crashes
        /\ \A t \in Sessions : t # s => session'[t] = session[t] /\ executed'[t] = executed[t]
    BY <1>p, <1>execute DEF Execute, SetSession
  <2>2. RowsInv'
    BY <1>execute, <1>rows, <2>1 DEF Execute, bucket
  <2>3. StuckInv'
    BY <1>p, <1>execute, <2>1 DEF Execute
  <2> QED BY <1>p, <1>execute, <2>1, <2>2, <2>3 DEF Execute
<1>open. CASE OpenArchive(p)
  BY <1>p, <1>open, <1>quiet DEF OpenArchive
<1>missing. CASE ArchiveMissing(p)
  BY <1>p, <1>missing, <1>quiet DEF ArchiveMissing
<1>damaged. CASE ArchiveDamaged(p)
  BY <1>p, <1>damaged, <1>quiet DEF ArchiveDamaged, bounds
<1>taken. ASSUME NEW k \in Keys, KeyTaken(p, k) PROVE SessionInv'
  BY <1>p, <1>taken, <1>quiet DEF KeyTaken
<1>free. ASSUME NEW k \in Keys, KeyFree(p, k) PROVE SessionInv'
  BY <1>p, <1>free, <1>quiet DEF KeyFree
<1>put. CASE Put(p)
  <2>1. /\ cmd'[p].pc = "record" /\ cmd'[p].sid = cmd[p].sid
        /\ UNCHANGED session /\ UNCHANGED rows /\ UNCHANGED bounds
    BY <1>p, <1>put DEF Put
  <2>2. /\ cmd[p].cur \in Keys /\ cmd[p].sid # "nobody"
        /\ ContentIn(Opening(p), cmd[p].cur) # "none"
    BY <1>p, <1>put DEF Put, ContentIn
  <2>3. \A k \in Keys : obs'[k] = "none" <=> putBy'[k] = "nobody"
    BY <1>put, <2>2 DEF Put
  <2> QED BY <1>p, <1>put, <2>1, <2>3 DEF Put, bounds
<1>record. CASE Record(p)
  <2>1. /\ cmd'[p].pc = "upload" /\ cmd'[p].sid = cmd[p].sid
        /\ UNCHANGED session /\ UNCHANGED bucket /\ UNCHANGED bounds
    BY <1>p, <1>record DEF Record
  <2>2. ContentIn(Opening(p), cmd[p].cur) # "none"
    BY <1>p, <1>record DEF Record, ContentIn
  <2> DEFINE r == [session |-> cmd[p].sid, key |-> cmd[p].cur,
                   etag |-> ContentIn(Opening(p), cmd[p].cur), cleaned |-> FALSE]
  <2>3. rows' = Append(rows, r) /\ r.session = cmd[p].sid /\ r.etag # "none"
    BY <1>record, <2>2 DEF Record
  <2>4. executed[cmd[p].sid] # 0
    BY <1>record DEF Record
  <2> HIDE DEF r
  <2>5. RowsInv'
    BY <2>1, <2>3, <2>4, AddedRow DEF bucket, bounds
  <2> QED BY <1>p, <1>record, <2>1, <2>5 DEF Record, bounds
<1>endArchive. CASE EndArchive(p)
  BY <1>p, <1>endArchive, <1>quiet DEF EndArchive
<1>end. CASE EndExecute(p)
  BY <1>p, <1>end, <1>quiet DEF EndExecute
<1> QED BY <1>execute, <1>open, <1>missing, <1>damaged, <1>taken, <1>free, <1>put,
           <1>record, <1>endArchive, <1>end DEF ExecuteStep

LEMMA CleanupSession ==
  ASSUME RestorationAssumption, OneOperator, RestoreTypes, SessionInv,
         NEW p \in Operators, CleanupStep(p)
  PROVE  SessionInv'
<1> USE DEF RestorationAssumption, RestoreTypes, TypeOK, CmdInv, At,
            SessionInv, RowsInv, LabelInv, StuckInv, Stuck, Serving,
            Executing, Cleaning, Visiting, Keys, RowsOf, Current
<1>p. /\ \A q \in Operators : q = p
      /\ cmd[p] \in Commands
  BY DEF OneOperator
<1>rows. \A i \in DOMAIN rows : /\ rows[i].session \in Sessions /\ rows[i].key \in Keys
                               /\ i \in Nat
  BY RowsTyped
<1>work. cmd[p].work \subseteq DOMAIN rows
  BY <1>p DEF Commands
<1>quiet. ASSUME UNCHANGED bucket, UNCHANGED rows, UNCHANGED bounds
          PROVE  RowsInv'
  BY <1>quiet DEF bucket, bounds
<1>ends. ASSUME Return(p), UNCHANGED crashes,
                \/ session' = session /\ session[cmd[p].sid] # "cleaning"
                \/ \E t \in {"cleaned", "failed"} : SetSession(cmd[p].sid, t)
         PROVE  LabelInv' /\ StuckInv'
  <2>1. cmd'[p].pc = "idle" /\ cmd'[p].sid = NoSession
    BY <1>ends DEF Return, NoCommand
  <2>2. \A s \in Sessions : session'[s] = "cleaning" => session[s] = "cleaning" /\ s # cmd[p].sid
    BY <1>ends DEF SetSession
  <2> QED BY <1>p, <1>ends, <2>1, <2>2
<1>cleanup. ASSUME NEW s \in Sessions, Cleanup(p, s) PROVE SessionInv'
  <2>1. /\ cmd'[p].pc = "list" /\ cmd'[p].sid = s /\ session[s] # "cleaning"
        /\ session' = session /\ UNCHANGED bounds
    BY <1>p, <1>cleanup DEF Cleanup
  <2> QED BY <1>p, <1>cleanup, <1>quiet, <2>1 DEF Cleanup, bounds
<1>nothing. CASE NothingListed(p)
  BY <1>nothing, <1>quiet, <1>ends DEF NothingListed, bounds
<1>list. CASE ListRows(p)
  <2>1. /\ cmd'[p].pc = "claim" /\ cmd'[p].sid = cmd[p].sid
        /\ cmd'[p].work = {i \in RowsOf(cmd[p].sid) : ~rows[i].cleaned}
        /\ session' = session /\ UNCHANGED bounds /\ rows' = rows
    BY <1>p, <1>list DEF ListRows
  <2> QED BY <1>p, <1>list, <1>quiet, <2>1 DEF ListRows, bounds
<1>claim. CASE ClaimSession(p)
  <2>1. /\ cmd'[p].pc = "clean" /\ cmd'[p].sid = cmd[p].sid /\ cmd'[p].work = cmd[p].work
        /\ session'[cmd[p].sid] = "cleaning" /\ UNCHANGED bounds /\ rows' = rows
        /\ \A s \in Sessions : s # cmd[p].sid => session'[s] = session[s]
    BY <1>p, <1>claim DEF ClaimSession, SetSession
  <2> QED BY <1>p, <1>claim, <1>quiet, <2>1 DEF ClaimSession, bounds
\* The loop goes on with fewer rows.
<1>next. ASSUME Cleaning(p), cmd'[p].pc = "clean", cmd'[p].sid = cmd[p].sid,
                UNCHANGED session, UNCHANGED crashes, cmd'[p].work \subseteq cmd[p].work,
                DOMAIN rows' = DOMAIN rows,
                \A i \in cmd'[p].work : rows'[i].session = rows[i].session /\ ~rows'[i].cleaned
         PROVE  LabelInv' /\ StuckInv'
  <2>1. \A i \in cmd'[p].work : i \in DOMAIN rows /\ rows[i].session = cmd[p].sid
    BY <1>p, <1>next, <1>work
  <2> QED BY <1>p, <1>next, <2>1
<1>refused. ASSUME NEW i \in DOMAIN rows, RowRefused(p, i) PROVE SessionInv'
  <2>1. /\ cmd'[p].pc = "clean" /\ cmd'[p].sid = cmd[p].sid
        /\ cmd'[p].work \subseteq cmd[p].work
    BY <1>p, <1>refused DEF RowRefused, Visits
  <2> QED BY <1>refused, <1>quiet, <1>next, <2>1 DEF RowRefused, Visits, bounds
<1>gone. ASSUME NEW i \in DOMAIN rows, RowGone(p, i) PROVE SessionInv'
  <2>1. /\ cmd'[p].pc = "clean" /\ cmd'[p].sid = cmd[p].sid
        /\ cmd'[p].work = cmd[p].work \ {i}
    BY <1>p, <1>gone DEF RowGone, Visits
  <2>2. /\ DOMAIN rows' = DOMAIN rows
        /\ \A j \in DOMAIN rows : /\ rows'[j].session = rows[j].session
                                  /\ rows'[j].etag = rows[j].etag
                                  /\ rows'[j].cleaned = (rows[j].cleaned \/ j = i)
    BY <1>gone, MarkedRow DEF RowGone
  <2>3. RowsInv'
    BY <1>gone, <2>2 DEF RowGone, bucket, bounds
  <2>4. \A j \in cmd'[p].work : j \in DOMAIN rows /\ ~rows'[j].cleaned
    BY <1>p, <1>work, <1>gone, <2>1, <2>2 DEF Visits, RowGone
  <2> QED BY <1>gone, <1>next, <2>1, <2>2, <2>3, <2>4 DEF RowGone, Visits, bounds
<1>passes. ASSUME NEW i \in DOMAIN rows, RowPasses(p, i) PROVE SessionInv'
  <2>1. /\ cmd'[p].pc = "delete" /\ cmd'[p].sid = cmd[p].sid
        /\ cmd'[p].work = cmd[p].work /\ cmd'[p].cur = rows[i].key
    BY <1>p, <1>passes DEF RowPasses, Visits
  <2>2. Min(cmd[p].work) = i /\ i \in cmd[p].work
    BY <1>passes, <1>work, <1>rows, LeastIsMin DEF RowPasses, Visits
  <2> QED BY <1>p, <1>passes, <1>quiet, <2>1, <2>2 DEF RowPasses, Visits, bounds
<1>gone2. ASSUME NEW k, Deleted(k), UNCHANGED rows, UNCHANGED bounds PROVE RowsInv'
  BY <1>gone2 DEF Deleted, bounds
<1>delete. CASE DeleteUpload(p)
  <2>1. /\ cmd'[p].pc = "mark" /\ cmd'[p].sid = cmd[p].sid /\ cmd'[p].cur = cmd[p].cur
        /\ cmd'[p].work = cmd[p].work /\ UNCHANGED rows /\ UNCHANGED bounds
    BY <1>p, <1>delete DEF DeleteUpload
  <2>2. RowsInv'
    BY <1>delete, <1>quiet, <1>gone2, <2>1 DEF DeleteUpload
  <2> QED BY <1>p, <1>delete, <2>1, <2>2 DEF DeleteUpload, bounds
<1>raises. CASE DeleteRaises(p)
  <2>1. /\ cmd'[p].pc = "clean" /\ cmd'[p].sid = cmd[p].sid
        /\ cmd'[p].work \subseteq cmd[p].work /\ UNCHANGED rows /\ UNCHANGED bounds
    BY <1>p, <1>raises DEF DeleteRaises
  <2>2. RowsInv'
    BY <1>raises, <1>quiet, <1>gone2, <2>1 DEF DeleteRaises
  <2> QED BY <1>raises, <1>next, <2>1, <2>2 DEF DeleteRaises, bounds
<1>mark. CASE MarkCleaned(p)
  <2> DEFINE i == Min(cmd[p].work)
  <2>0. i \in DOMAIN rows /\ i \in cmd[p].work
    BY <1>mark, <1>work DEF MarkCleaned
  <2>1. /\ cmd'[p].pc = "clean" /\ cmd'[p].sid = cmd[p].sid
        /\ cmd'[p].work = cmd[p].work \ {i} /\ rows' = [rows EXCEPT ![i].cleaned = TRUE]
    BY <1>p, <1>mark DEF MarkCleaned
  <2> HIDE DEF i
  <2>2. /\ DOMAIN rows' = DOMAIN rows
        /\ \A j \in DOMAIN rows : /\ rows'[j].session = rows[j].session
                                  /\ rows'[j].etag = rows[j].etag
                                  /\ rows'[j].cleaned = (rows[j].cleaned \/ j = i)
    BY <2>0, <2>1, MarkedRow
  <2>3. RowsInv'
    BY <1>mark, <2>2 DEF MarkCleaned, bucket, bounds
  <2>4. \A j \in cmd'[p].work : j \in DOMAIN rows /\ ~rows'[j].cleaned
    BY <1>p, <1>work, <1>mark, <2>1, <2>2 DEF MarkCleaned
  <2> QED BY <1>mark, <1>next, <2>1, <2>2, <2>3, <2>4 DEF MarkCleaned, bounds
<1>end. CASE EndCleanup(p)
  BY <1>end, <1>quiet, <1>ends DEF EndCleanup, Outcome, bounds
<1> QED BY <1>cleanup, <1>nothing, <1>list, <1>claim, <1>refused, <1>gone, <1>passes,
           <1>delete, <1>raises, <1>mark, <1>end DEF CleanupStep

LEMMA SessionInvHolds ==
  ASSUME RestorationAssumption, OneOperator, RestoreTypes, SessionInv, [Next]_vars
  PROVE  SessionInv'
<1> USE DEF RestorationAssumption, RestoreTypes, TypeOK, CmdInv, At,
            SessionInv, RowsInv, LabelInv, StuckInv, Stuck, Serving,
            Executing, Cleaning, Visiting, Keys, RowsOf, Current
<1>crash. ASSUME NEW p \in Operators, Crash(p) PROVE SessionInv'
  <2>1. /\ cmd'[p].pc = "idle" /\ cmd'[p].sid = NoSession /\ crashes' # 0
        /\ \A q \in Operators : q = p
    BY <1>crash DEF Crash, Return, NoCommand, OneOperator
  <2> QED BY <1>crash, <2>1 DEF Crash, bucket
<1>delete. ASSUME NEW o \in Objects, ReapDelete(o) PROVE SessionInv'
  <2>1. \A k \in Keys : obs'[k] = "none" <=> putBy'[k] = "nobody"
    BY <1>delete DEF ReapDelete, Deleted
  <2> QED BY <1>delete, <2>1 DEF ReapDelete, bounds
<1>mark. ASSUME NEW o \in Objects, ReapMark(o) PROVE SessionInv'
  BY <1>mark DEF ReapMark, bucket, bounds
<1>stutter. CASE UNCHANGED vars
  BY <1>stutter DEF vars, bucket, bounds
<1> QED BY <1>crash, <1>delete, <1>mark, <1>stutter, ExecuteSession, CleanupSession DEF Next

-----------------------------------------------------------------------------
(* Live rows                                                               *)

\* No command touches a stuck session that has rows.
LEMMA StuckStays ==
  ASSUME RestorationAssumption, OneOperator, NoLateExecute, RestoreTypes, SessionInv,
         [Next]_vars, NEW s \in Sessions, Stuck(s), executed[s] # 0
  PROVE  Stuck(s)'
<1> USE DEF RestorationAssumption, RestoreTypes, TypeOK, At, Stuck, Serving
<1>0. MaxCrashes # 0 /\ MaxExecutes <= 1 /\ executed[s] = 1
  BY DEF SessionInv, StuckInv, NoLateExecute
<1>same. ASSUME UNCHANGED session, UNCHANGED cmd PROVE Stuck(s)'
  BY <1>same
<1>p. ASSUME NEW p \in Operators, ExecuteStep(p) \/ CleanupStep(p) \/ Crash(p)
      PROVE  Stuck(s)'
  <2>q. \A q \in Operators : q = p
    BY DEF OneOperator
  <2>1. s # cmd[p].sid /\ session[s] = "cleaning"
    OBVIOUS
  <2>on. ASSUME \/ session' = session
                \/ \E t \in SessionStatuses : SetSession(cmd[p].sid, t),
                cmd'[p].sid = cmd[p].sid \/ Return(p)
         PROVE  Stuck(s)'
    <3>1. session'[s] = "cleaning"
      BY <2>1, <2>on DEF SetSession
    <3>2. cmd'[p].sid # s
      BY <2>1, <2>on DEF Return, NoCommand
    <3> QED BY <2>q, <3>1, <3>2
  <2>execute. ASSUME NEW t \in Sessions, Execute(p, t) PROVE Stuck(s)'
    <3>1. t # s
      BY <1>0, <2>execute DEF Execute
    <3>2. cmd'[p].sid = t
      BY <2>execute DEF Execute, Commands
    <3> QED BY <2>q, <2>1, <2>execute, <3>1, <3>2 DEF Execute, SetSession
  <2>open. CASE OpenArchive(p)
    BY <2>on, <2>open DEF OpenArchive
  <2>missing. CASE ArchiveMissing(p)
    BY <2>on, <2>missing DEF ArchiveMissing
  <2>damaged. CASE ArchiveDamaged(p)
    BY <2>on, <2>damaged DEF ArchiveDamaged, SessionStatuses
  <2>taken. ASSUME NEW k \in Keys, KeyTaken(p, k) PROVE Stuck(s)'
    BY <2>on, <2>taken DEF KeyTaken, SessionStatuses
  <2>free. ASSUME NEW k \in Keys, KeyFree(p, k) PROVE Stuck(s)'
    BY <2>on, <2>free DEF KeyFree
  <2>put. CASE Put(p)
    BY <2>on, <2>put DEF Put
  <2>record. CASE Record(p)
    BY <2>on, <2>record DEF Record
  <2>endArchive. CASE EndArchive(p)
    BY <2>on, <2>endArchive DEF EndArchive
  <2>end. CASE EndExecute(p)
    BY <2>on, <2>end DEF EndExecute, SessionStatuses
  <2>cleanup. ASSUME NEW t \in Sessions, Cleanup(p, t) PROVE Stuck(s)'
    <3>1. t # s /\ cmd'[p].sid = t /\ session' = session
      BY <2>1, <2>cleanup DEF Cleanup, Commands
    <3> QED BY <2>q, <2>1, <3>1
  <2>nothing. CASE NothingListed(p)
    BY <2>on, <2>nothing DEF NothingListed, SessionStatuses
  <2>list. CASE ListRows(p)
    BY <2>on, <2>list DEF ListRows
  <2>claim. CASE ClaimSession(p)
    BY <2>on, <2>claim DEF ClaimSession, SessionStatuses
  <2>refused. ASSUME NEW i \in DOMAIN rows, RowRefused(p, i) PROVE Stuck(s)'
    BY <2>on, <2>refused DEF RowRefused
  <2>gone. ASSUME NEW i \in DOMAIN rows, RowGone(p, i) PROVE Stuck(s)'
    BY <2>on, <2>gone DEF RowGone
  <2>passes. ASSUME NEW i \in DOMAIN rows, RowPasses(p, i) PROVE Stuck(s)'
    BY <2>on, <2>passes DEF RowPasses
  <2>delete. CASE DeleteUpload(p)
    BY <2>on, <2>delete DEF DeleteUpload
  <2>raises. CASE DeleteRaises(p)
    BY <2>on, <2>raises DEF DeleteRaises
  <2>mark. CASE MarkCleaned(p)
    BY <2>on, <2>mark DEF MarkCleaned
  <2>ended. CASE EndCleanup(p)
    BY <2>on, <2>ended DEF EndCleanup, Outcome, SessionStatuses
  <2>crash. CASE Crash(p)
    BY <2>on, <2>crash DEF Crash
  <2> QED BY <1>p, <2>execute, <2>open, <2>missing, <2>damaged, <2>taken, <2>free, <2>put,
             <2>record, <2>endArchive, <2>end, <2>cleanup, <2>nothing, <2>list, <2>claim,
             <2>refused, <2>gone, <2>passes, <2>delete, <2>raises, <2>mark, <2>ended,
             <2>crash DEF ExecuteStep, CleanupStep
<1> QED BY <1>p, <1>same DEF Next, ReapDelete, ReapMark, vars

\* What a step does to the rows: it adds one, marks one cleaned, or neither.
LEMMA RowsKept ==
  ASSUME RestorationAssumption, RestoreTypes, SessionInv, [Next]_vars
  PROVE  /\ DOMAIN rows' = DOMAIN rows \/ \E p \in Operators : Record(p)
         /\ \A i \in DOMAIN rows : /\ i \in DOMAIN rows'
                                   /\ rows'[i].session = rows[i].session
                                   /\ rows'[i].key = rows[i].key
                                   /\ rows'[i].etag = rows[i].etag
                                   /\ rows[i].cleaned => rows'[i].cleaned
<1>1. ASSUME NEW p \in Operators, Record(p)
      PROVE  \A i \in DOMAIN rows : i \in DOMAIN rows' /\ rows'[i] = rows[i]
  <2>1. \E r : rows' = Append(rows, r)
    BY <1>1 DEF Record
  <2> QED BY <2>1, AddedRow
<1>2. ASSUME NEW n \in DOMAIN rows, rows' = [rows EXCEPT ![n].cleaned = TRUE]
      PROVE  /\ DOMAIN rows' = DOMAIN rows
             /\ \A i \in DOMAIN rows : /\ rows'[i].session = rows[i].session
                                       /\ rows'[i].key = rows[i].key
                                       /\ rows'[i].etag = rows[i].etag
                                       /\ rows[i].cleaned => rows'[i].cleaned
  BY <1>2, MarkedRow
<1>3. ASSUME NEW p \in Operators, MarkCleaned(p)
      PROVE  \E n \in DOMAIN rows : rows' = [rows EXCEPT ![n].cleaned = TRUE]
  <2>1. Min(cmd[p].work) \in DOMAIN rows
    BY <1>3 DEF MarkCleaned, At, SessionInv, LabelInv, Visiting, Cleaning, RowsOf, Current
  <2> QED BY <1>3, <2>1 DEF MarkCleaned
<1>4. ASSUME NEW p \in Operators, NEW i \in DOMAIN rows, RowGone(p, i)
      PROVE  \E n \in DOMAIN rows : rows' = [rows EXCEPT ![n].cleaned = TRUE]
  BY <1>4 DEF RowGone
<1>execute. ASSUME NEW p \in Operators, ExecuteStep(p) PROVE Record(p) \/ rows' = rows
  BY <1>execute DEF ExecuteStep, Execute, OpenArchive, ArchiveMissing, ArchiveDamaged,
                    KeyTaken, KeyFree, Put, EndArchive, EndExecute
<1>cleanup. ASSUME NEW p \in Operators, CleanupStep(p)
            PROVE  MarkCleaned(p) \/ (\E i \in DOMAIN rows : RowGone(p, i)) \/ rows' = rows
  BY <1>cleanup DEF CleanupStep, Cleanup, NothingListed, ListRows, ClaimSession, RowRefused,
                    RowPasses, DeleteUpload, DeleteRaises, EndCleanup
<1>same. CASE rows' = rows
  BY <1>same
<1> QED BY <1>1, <1>2, <1>3, <1>4, <1>execute, <1>cleanup, <1>same
        DEF Next, Crash, ReapDelete, ReapMark, vars

\* From where the row of a deleted object is marked, or the command dies.
LEMMA FromMark ==
  ASSUME RestoreTypes, OneOperator, NEW p \in Operators, At(p, "mark"), [Next]_vars
  PROVE  \/ MarkCleaned(p) \/ Crash(p)
         \/ UNCHANGED cmd /\ UNCHANGED rows /\ UNCHANGED session
<1>q. \A q \in Operators : q = p
  BY DEF OneOperator
<1>1. ~ExecuteStep(p)
  BY DEF At, ExecuteStep, Execute, OpenArchive, ArchiveMissing, ArchiveDamaged,
         KeyTaken, KeyFree, Put, Record, EndArchive, EndExecute
<1>2. CleanupStep(p) => MarkCleaned(p)
  BY DEF At, CleanupStep, Cleanup, NothingListed, ListRows, ClaimSession, RowRefused,
         RowGone, RowPasses, Visits, DeleteUpload, DeleteRaises, EndCleanup
<1> QED BY <1>q, <1>1, <1>2 DEF Next, ReapDelete, ReapMark, vars

\* No row becomes live again.
LEMMA LiveBefore ==
  ASSUME RestorationAssumption, OneOperator, NoLateExecute, RestoreTypes, SessionInv,
         [Next]_vars, NEW i \in DOMAIN rows, Live(i)'
  PROVE  Live(i)
<1>1. ~rows[i].cleaned
  BY RowsKept DEF Live
<1>2. rows'[i].session = rows[i].session /\ rows[i].session \in Sessions
      /\ executed[rows[i].session] # 0
  BY RowsKept, RowsTyped DEF SessionInv, RowsInv
<1>3. ~Stuck(rows[i].session)
  <2> SUFFICES ASSUME Stuck(rows[i].session) PROVE FALSE
    OBVIOUS
  <2>1. PICK s \in Sessions : s = rows[i].session
    BY <1>2
  <2>2. Stuck(s)'
    BY <1>2, <2>1, StuckStays
  <2> QED BY <1>2, <2>1, <2>2 DEF Live, Stuck, Serving
<1>4. ASSUME NEW p \in Operators, At(p, "mark"), i = Current(p) PROVE FALSE
  <2>0. /\ rows[i].session = cmd[p].sid /\ session[cmd[p].sid] = "cleaning"
        /\ \A q \in Operators : q = p
    BY <1>4 DEF SessionInv, LabelInv, Visiting, Cleaning, At, RowsOf, OneOperator
  <2>1. CASE MarkCleaned(p)
    <3>1. rows'[i].cleaned
      BY <1>4, <2>1, MarkedRow DEF MarkCleaned, Current
    <3> QED BY <3>1 DEF Live
  <2>2. CASE Crash(p)
    <3>1. session' = session /\ cmd'[p].sid = NoSession
      BY <2>2 DEF Crash, Return, NoCommand, RestoreTypes, TypeOK
    <3>2. PICK s \in Sessions : s = rows[i].session
      BY <1>2
    <3>3. Stuck(s)'
      BY <1>2, <2>0, <3>1, <3>2 DEF Stuck, Serving, RestorationAssumption
    <3> QED BY <1>2, <3>2, <3>3 DEF Live, Stuck, Serving
  <2>3. CASE UNCHANGED cmd /\ UNCHANGED rows /\ UNCHANGED session
    BY <1>4, <2>3 DEF Live, At, Current
  <2> QED BY <1>4, <2>1, <2>2, <2>3, FromMark
<1> QED BY <1>1, <1>3, <1>4 DEF Live

-----------------------------------------------------------------------------

\* What moves the bucket: a put, the reaper, and cleanup.
LEMMA BucketSteps ==
  ASSUME [Next]_vars
  PROVE  \/ UNCHANGED bucket
         \/ \E p \in Operators :
              \/ Put(p)
              \/ Deleted(cmd[p].cur) /\ (DeleteUpload(p) \/ "reply" \in Faults)
         \/ \E o \in Objects : ReapDelete(o)
<1>1. ASSUME NEW p \in Operators, ExecuteStep(p) PROVE UNCHANGED bucket \/ Put(p)
  BY <1>1 DEF ExecuteStep, Execute, OpenArchive, ArchiveMissing, ArchiveDamaged,
              KeyTaken, KeyFree, Record, EndArchive, EndExecute
<1>2. ASSUME NEW p \in Operators, CleanupStep(p)
      PROVE  \/ UNCHANGED bucket
             \/ Deleted(cmd[p].cur) /\ (DeleteUpload(p) \/ "reply" \in Faults)
  <2>1. DeleteUpload(p) \/ DeleteRaises(p) \/ UNCHANGED bucket
    BY <1>2 DEF CleanupStep, Cleanup, NothingListed, ListRows, ClaimSession, RowRefused,
                RowGone, RowPasses, MarkCleaned, EndCleanup
  <2>2. DeleteUpload(p) => Deleted(cmd[p].cur) \/ UNCHANGED bucket
    BY DEF DeleteUpload
  <2>3. DeleteRaises(p) => UNCHANGED bucket \/ (Deleted(cmd[p].cur) /\ "reply" \in Faults)
    BY DEF DeleteRaises
  <2> QED BY <2>1, <2>2, <2>3
<1>3. (\E p \in Operators : Crash(p)) \/ (\E o \in Objects : ReapMark(o)) \/ UNCHANGED vars
        => UNCHANGED bucket
  BY DEF Crash, ReapMark, vars
<1> QED BY <1>1, <1>2, <1>3 DEF Next

\* What cleanup is about to delete belongs to a live row of its session.
LEMMA DeletesLive ==
  ASSUME OneOperator, RestoreTypes, SessionInv, UploadInv,
         NEW p \in Operators, At(p, "delete")
  PROVE  /\ Current(p) \in DOMAIN rows /\ Live(Current(p))
         /\ rows[Current(p)].key = cmd[p].cur
         /\ putBy[cmd[p].cur] = cmd[p].sid
<1>1. /\ Current(p) \in DOMAIN rows /\ rows[Current(p)].key = cmd[p].cur
      /\ rows[Current(p)].session = cmd[p].sid /\ ~rows[Current(p)].cleaned
  BY DEF SessionInv, LabelInv, At, Visiting, Cleaning, RowsOf
<1>2. Live(Current(p))
  BY <1>1 DEF Live, Stuck, Serving, At, OneOperator
<1> QED BY <1>1, <1>2 DEF UploadInv, LiveRowsInv

\* An upload leaves the bucket only when its own session's cleanup deletes it.
LEMMA UploadStays ==
  ASSUME RestorationAssumption, "reply" \notin Faults, OneOperator, RestoreTypes, BackupInv,
         SessionInv, UploadInv, [Next]_vars,
         NEW k \in Keys, NEW s \in Sessions, putBy[k] = s
  PROVE  \/ putBy'[k] = s /\ obs'[k] = obs[k]
         \/ \E p \in Operators : DeleteUpload(p) /\ k = cmd[p].cur /\ s = cmd[p].sid
<1> USE DEF RestoreTypes, TypeOK
<1>1. ASSUME NEW p \in Operators, Put(p) PROVE putBy'[k] = s /\ obs'[k] = obs[k]
  <2>1. cmd[p].cur \in Keys /\ obs[cmd[p].cur] = "none"
    BY <1>1 DEF Put, At, CmdInv, UploadInv, UploadingInv
  <2>2. k # cmd[p].cur
    BY <2>1 DEF SessionInv, RowsInv, RestorationAssumption
  <2> QED BY <1>1, <2>2 DEF Put
<1>2. ASSUME NEW p \in Operators, DeleteUpload(p), Deleted(cmd[p].cur)
      PROVE  \/ putBy'[k] = s /\ obs'[k] = obs[k]
             \/ k = cmd[p].cur /\ s = cmd[p].sid
  <2>1. putBy[cmd[p].cur] = cmd[p].sid
    BY <1>2, DeletesLive DEF DeleteUpload
  <2> QED BY <1>2, <2>1 DEF Deleted
<1>3. ASSUME NEW o \in Objects, ReapDelete(o) PROVE putBy'[k] = s /\ obs'[k] = obs[k]
  <2>1. putBy[o] = "gaussdb"
    BY <1>3 DEF ReapDelete, BackupInv, BackupsUntouched
  <2> QED BY <1>3, <2>1 DEF ReapDelete, Deleted, RestorationAssumption
<1> QED BY <1>1, <1>2, <1>3, BucketSteps DEF bucket

\* Where nothing is, nothing is but for a put.
LEMMA EmptyStays ==
  ASSUME RestorationAssumption, RestoreTypes, "reply" \notin Faults, [Next]_vars,
         NEW k \in Keys, obs[k] = "none", \A p \in Operators : ~Put(p)
  PROVE  obs'[k] = "none"
<1> USE DEF RestoreTypes, TypeOK
<1>1. ASSUME NEW j, Deleted(j) PROVE obs'[k] = "none"
  BY <1>1 DEF Deleted
<1> QED BY <1>1, BucketSteps DEF ReapDelete, bucket

LEMMA LiveRowsHold ==
  ASSUME RestorationAssumption, "reply" \notin Faults, OneOperator, NoLateExecute,
         RestoreTypes, BackupInv, SessionInv, UploadInv, [Next]_vars
  PROVE  LiveRowsInv'
<1>old. ASSUME NEW i \in DOMAIN rows, Live(i)'
        PROVE  /\ putBy'[rows'[i].key] = rows'[i].session
               /\ obs'[rows'[i].key] = rows'[i].etag
  <2>1. Live(i) /\ putBy[rows[i].key] = rows[i].session /\ obs[rows[i].key] = rows[i].etag
    BY <1>old, LiveBefore DEF UploadInv, LiveRowsInv
  <2>2. rows[i].key \in Keys /\ rows[i].session \in Sessions
    BY RowsTyped
  <2>3. ASSUME NEW p \in Operators, DeleteUpload(p), rows[i].key = cmd[p].cur PROVE FALSE
    <3>1. i = Current(p)
      BY <2>1, <2>3, DeletesLive DEF DeleteUpload, UploadInv, LiveRowsInv
    <3>2. cmd'[p].pc = "mark" /\ cmd'[p].work = cmd[p].work
      BY <2>3 DEF DeleteUpload, RestoreTypes, TypeOK
    <3>3. At(p, "mark")' /\ i = Current(p)'
      BY <3>1, <3>2 DEF At, Current
    <3> QED BY <1>old, <3>3 DEF Live
  <2>4. putBy'[rows[i].key] = rows[i].session /\ obs'[rows[i].key] = obs[rows[i].key]
    BY <2>1, <2>2, <2>3, UploadStays
  <2>5. rows'[i].session = rows[i].session /\ rows'[i].key = rows[i].key
        /\ rows'[i].etag = rows[i].etag
    BY RowsKept
  <2> QED BY <2>1, <2>4, <2>5
<1>pair. ASSUME NEW i \in DOMAIN rows, NEW j \in DOMAIN rows, Live(i)', Live(j)',
                rows'[i].key = rows'[j].key
         PROVE  i = j
  <2>1. Live(i) /\ Live(j)
    BY <1>pair, LiveBefore
  <2>2. rows[i].key = rows[j].key
    BY <1>pair, RowsKept
  <2> QED BY <2>1, <2>2 DEF UploadInv, LiveRowsInv
<1>1. CASE DOMAIN rows' = DOMAIN rows
  BY <1>1, <1>old, <1>pair DEF LiveRowsInv
<1>2. ASSUME NEW p \in Operators, Record(p) PROVE LiveRowsInv'
  <2> DEFINE r == [session |-> cmd[p].sid, key |-> cmd[p].cur,
                   etag |-> ContentIn(Opening(p), cmd[p].cur), cleaned |-> FALSE]
  <2>1. rows' = Append(rows, r) /\ UNCHANGED bucket
    BY <1>2 DEF Record
  <2>2. /\ r.session = cmd[p].sid /\ r.key = cmd[p].cur
        /\ r.etag = ContentIn(Opening(p), cmd[p].cur)
    OBVIOUS
  <2>3. /\ putBy[r.key] = r.session /\ obs[r.key] = r.etag
        /\ \A i \in DOMAIN rows : Live(i) => rows[i].key # r.key
    BY <1>2, <2>2 DEF Record, UploadInv, UploadingInv, Uploaded
  <2> HIDE DEF r
  <2>4. PICK n \in Nat : /\ n \notin DOMAIN rows /\ rows'[n] = r
                         /\ DOMAIN rows' = DOMAIN rows \cup {n}
                         /\ \A i \in DOMAIN rows : rows'[i] = rows[i]
    BY <2>1, AddedRow
  <2>5. putBy'[rows'[n].key] = rows'[n].session /\ obs'[rows'[n].key] = rows'[n].etag
    BY <2>1, <2>3, <2>4 DEF bucket
  <2>6. \A i \in DOMAIN rows : Live(i)' => rows'[i].key # rows'[n].key
    BY <2>3, <2>4, LiveBefore
  <2> QED BY <1>old, <1>pair, <2>4, <2>5, <2>6 DEF LiveRowsInv
<1> QED BY <1>1, <1>2, RowsKept

LEMMA RestoredHold ==
  ASSUME RestorationAssumption, "reply" \notin Faults, OneOperator, NoLateExecute,
         RestoreTypes, BackupInv, SessionInv, UploadInv, [Next]_vars
  PROVE  RestoredInv'
<1>keys. \A a \in Archives : Holds(a) \subseteq Keys
  BY DEF Holds, Keys, RestorationAssumption
<1>1. ASSUME NEW s \in Sessions, session[s] = "restored" \/ \E p \in Operators : EndExecute(p) /\ s = cmd[p].sid,
             NEW n \in DOMAIN Plan[s], NEW k \in Holds(Plan[s][n])
      PROVE  Uploaded(s, Plan[s][n], k)'
  <2>1. k \in Keys
    BY <1>keys DEF RestorationAssumption
  <2>2. Uploaded(s, Plan[s][n], k)
    <3>1. CASE session[s] = "restored"
      BY <3>1 DEF UploadInv, RestoredInv
    <3>2. ASSUME NEW p \in Operators, EndExecute(p), s = cmd[p].sid
          PROVE  Uploaded(s, Plan[s][n], k)
      <4>1. Executing(p) /\ cmd[p].queue = <<>>
        BY <3>2 DEF EndExecute, At, Executing
      <4>2. Plan[s] \in Seq(Archives) /\ Done(p) = Len(Plan[s])
        BY <3>2, <4>1 DEF Done, RestorationAssumption
      <4>3. n \in 1..Done(p)
        BY <4>2
      <4> QED BY <3>2, <4>1, <4>3 DEF UploadInv, ProgressInv
    <3> QED BY <1>1, <3>1, <3>2
  <2>3. ASSUME NEW p \in Operators, DeleteUpload(p), s = cmd[p].sid PROVE FALSE
    <3>1. session[s] = "cleaning" /\ \A q \in Operators : q = p
      BY <2>3 DEF SessionInv, LabelInv, Cleaning, DeleteUpload, At, OneOperator
    <3>2. ~EndExecute(p)
      BY <2>3 DEF EndExecute, DeleteUpload, At
    <3> QED BY <1>1, <3>1, <3>2
  <2>4. putBy'[k] = s /\ obs'[k] = obs[k]
    BY <2>1, <2>2, <2>3, UploadStays DEF Uploaded
  <2> QED BY <2>2, <2>4 DEF Uploaded
<1>2. ASSUME NEW s \in Sessions, session'[s] = "restored"
      PROVE  session[s] = "restored" \/ \E p \in Operators : EndExecute(p) /\ s = cmd[p].sid
  <2>0. \A p, t : SetSession(cmd[p].sid, t) /\ t # "restored" => session[s] = "restored"
    BY <1>2 DEF SetSession, RestoreTypes, TypeOK
  <2>1. ASSUME NEW p \in Operators, ExecuteStep(p)
        PROVE  session[s] = "restored" \/ (EndExecute(p) /\ s = cmd[p].sid)
    <3>1. ASSUME NEW t \in Sessions, Execute(p, t) PROVE session[s] = "restored"
      BY <1>2, <3>1 DEF Execute, SetSession, RestoreTypes, TypeOK
    <3>2. EndExecute(p) => session[s] = "restored" \/ s = cmd[p].sid
      BY <1>2 DEF EndExecute, SetSession, RestoreTypes, TypeOK
    <3> QED BY <1>2, <2>0, <2>1, <3>1, <3>2
            DEF ExecuteStep, OpenArchive, ArchiveMissing, ArchiveDamaged,
                KeyTaken, KeyFree, Put, Record, EndArchive
  <2>2. ASSUME NEW p \in Operators, CleanupStep(p) PROVE session[s] = "restored"
    BY <1>2, <2>0, <2>2 DEF CleanupStep, Cleanup, NothingListed, ListRows, ClaimSession, RowRefused,
                      RowGone, RowPasses, DeleteUpload, DeleteRaises, MarkCleaned, EndCleanup,
                      Outcome
  <2> QED BY <1>2, <2>1, <2>2 DEF Next, Crash, ReapDelete, ReapMark, vars
<1> QED BY <1>1, <1>2 DEF RestoredInv

LEMMA UploadedStays ==
  ASSUME RestorationAssumption, "reply" \notin Faults, OneOperator, RestoreTypes, BackupInv,
         SessionInv, UploadInv, [Next]_vars, \A p \in Operators : ~DeleteUpload(p),
         NEW s \in Sessions, NEW a, NEW k \in Keys, Uploaded(s, a, k)
  PROVE  Uploaded(s, a, k)'
BY UploadStays DEF Uploaded

\* Where a command is after a step, as far as the uploads are concerned.
LEMMA Labels ==
  ASSUME RestoreTypes, NEW p \in Operators
  PROVE  /\ ExecuteStep(p) => \/ cmd'[p].pc = "idle" \/ \E s \in Sessions : Execute(p, s)
                              \/ OpenArchive(p) \/ Put(p) \/ Record(p) \/ EndArchive(p)
                              \/ \E k \in Keys : KeyFree(p, k)
         /\ CleanupStep(p) => cmd'[p].pc \notin {"open", "upload", "put", "record"}
         /\ Crash(p) => cmd'[p].pc = "idle"
         /\ OpenArchive(p) \/ Record(p) => cmd'[p].pc = "upload"
         /\ EndArchive(p) => cmd'[p].pc = "open"
         /\ \A s \in Sessions : Execute(p, s) => cmd'[p].pc = "open"
<1> USE DEF RestoreTypes, TypeOK
<1>0. cmd \in [Operators -> Commands] /\ cmd[p] \in Commands
  OBVIOUS
<1>1. Return(p) => cmd'[p].pc = "idle"
  BY DEF Return, NoCommand
<1>2. ExecuteStep(p) => \/ Return(p) \/ \E s \in Sessions : Execute(p, s)
                        \/ OpenArchive(p) \/ Put(p) \/ Record(p) \/ EndArchive(p)
                        \/ \E k \in Keys : KeyFree(p, k)
  BY DEF ExecuteStep, ArchiveMissing, ArchiveDamaged, KeyTaken, EndExecute
<1>3. ASSUME NEW i \in DOMAIN rows
      PROVE  /\ RowRefused(p, i) => cmd'[p].pc = "clean"
             /\ RowGone(p, i) => cmd'[p].pc = "clean"
             /\ RowPasses(p, i) => cmd'[p].pc = "delete"
  <2>1. RowRefused(p, i) => cmd'[p].pc = "clean"
    BY <1>0 DEF RowRefused, Visits, At, Commands
  <2>2. RowGone(p, i) => cmd'[p].pc = "clean"
    BY <1>0 DEF RowGone, Visits, At, Commands
  <2>3. RowPasses(p, i) => cmd'[p].pc = "delete"
    BY <1>0 DEF RowPasses, Commands
  <2> QED BY <2>1, <2>2, <2>3
<1>4. /\ \A s \in Sessions : Cleanup(p, s) => cmd'[p].pc = "list"
      /\ ListRows(p) => cmd'[p].pc = "claim"
      /\ ClaimSession(p) => cmd'[p].pc = "clean"
      /\ DeleteUpload(p) => cmd'[p].pc = "mark"
      /\ DeleteRaises(p) => cmd'[p].pc = "clean"
      /\ MarkCleaned(p) => cmd'[p].pc = "clean"
  <2>1. \A s \in Sessions : Cleanup(p, s) => cmd'[p].pc = "list"
    BY <1>0 DEF Cleanup, Commands
  <2>2. ListRows(p) => cmd'[p].pc = "claim"
    BY <1>0 DEF ListRows, Commands
  <2>3. ClaimSession(p) => cmd'[p].pc = "clean"
    BY <1>0 DEF ClaimSession, Commands
  <2>4. DeleteUpload(p) => cmd'[p].pc = "mark"
    BY <1>0 DEF DeleteUpload, Commands
  <2>5. DeleteRaises(p) => cmd'[p].pc = "clean"
    BY <1>0 DEF DeleteRaises, Commands
  <2>6. MarkCleaned(p) => cmd'[p].pc = "clean"
    BY <1>0 DEF MarkCleaned, Commands
  <2> QED BY <2>1, <2>2, <2>3, <2>4, <2>5, <2>6
<1>5. NothingListed(p) \/ EndCleanup(p) \/ Crash(p) => Return(p)
  BY DEF NothingListed, EndCleanup, Crash
<1>6. CleanupStep(p) => cmd'[p].pc \notin {"open", "upload", "put", "record"}
  BY <1>1, <1>3, <1>4, <1>5 DEF CleanupStep
<1>7. /\ OpenArchive(p) => cmd'[p].pc = "upload"
      /\ Record(p) => cmd'[p].pc = "upload"
      /\ EndArchive(p) => cmd'[p].pc = "open"
      /\ \A s \in Sessions : Execute(p, s) => cmd'[p].pc = "open"
  <2>1. OpenArchive(p) => cmd'[p].pc = "upload"
    BY <1>0 DEF OpenArchive, Commands
  <2>2. Record(p) => cmd'[p].pc = "upload"
    BY <1>0 DEF Record, Commands
  <2>3. EndArchive(p) => cmd'[p].pc = "open"
    BY <1>0 DEF EndArchive, Commands
  <2>4. \A s \in Sessions : Execute(p, s) => cmd'[p].pc = "open"
    BY <1>0 DEF Execute, Commands
  <2> QED BY <2>1, <2>2, <2>3, <2>4
<1> QED BY <1>1, <1>2, <1>5, <1>6, <1>7

LEMMA UploadingHold ==
  ASSUME RestorationAssumption, Faults \subseteq {"delete"}, OneOperator, NoLateExecute,
         RestoreTypes, BackupInv, SessionInv, UploadInv, [Next]_vars
  PROVE  UploadingInv'
<1>f. "reply" \notin Faults /\ "head" \notin Faults
  OBVIOUS
<1>away. ASSUME \A p \in Operators : cmd'[p].pc \notin {"put", "record"}
         PROVE  UploadingInv'
  BY <1>away DEF UploadingInv, At
<1>free. ASSUME NEW p \in Operators, NEW k \in Keys, KeyFree(p, k) PROVE UploadingInv'
  <2>1. cmd'[p].pc = "put" /\ cmd'[p].cur = k /\ obs'[k] = "none"
    BY <1>f, <1>free DEF KeyFree, HeadMisses, bucket, RestoreTypes, TypeOK
  <2> QED BY <2>1 DEF UploadingInv, At, OneOperator
<1>put. ASSUME NEW p \in Operators, Put(p) PROVE UploadingInv'
  <2>1. /\ cmd[p].cur \in Keys /\ obs[cmd[p].cur] = "none"
        /\ cmd'[p].pc = "record" /\ cmd'[p].cur = cmd[p].cur /\ cmd'[p].sid = cmd[p].sid
        /\ cmd'[p].queue = cmd[p].queue /\ rows' = rows
    BY <1>put DEF Put, At, RestoreTypes, TypeOK, CmdInv, UploadInv, UploadingInv
  <2>2. Uploaded(cmd[p].sid, Opening(p), cmd[p].cur)'
    BY <1>put, <2>1 DEF Put, Uploaded, Opening, ContentIn, RestoreTypes, TypeOK
  <2>3. ASSUME NEW i \in DOMAIN rows, Live(i)' PROVE rows[i].key # cmd[p].cur
    <3>1. obs[rows[i].key] = rows[i].etag
      BY <2>3, LiveBefore DEF UploadInv, LiveRowsInv
    <3> QED BY <2>1, <3>1 DEF SessionInv, RowsInv
  <2> QED BY <2>1, <2>2, <2>3 DEF UploadingInv, At, OneOperator
<1>same. ASSUME UNCHANGED <<cmd, rows, session>> PROVE UploadingInv'
  <2>1. ASSUME NEW p \in Operators, At(p, "put") PROVE obs'[cmd[p].cur] = "none"
    <3>1. cmd[p].cur \in Keys /\ obs[cmd[p].cur] = "none"
      BY <2>1 DEF At, RestoreTypes, CmdInv, UploadInv, UploadingInv
    <3>2. \A q \in Operators : ~Put(q)
      <4> SUFFICES ASSUME NEW q \in Operators, Put(q) PROVE FALSE
        OBVIOUS
      <4>1. q = p /\ cmd'[q].pc = "put"
        BY <1>same, <2>1 DEF At, OneOperator
      <4>2. cmd'[q].pc = "record"
        BY DEF Put, RestoreTypes, TypeOK, Commands
      <4> QED BY <4>1, <4>2
    <3> QED BY <1>f, <3>1, <3>2, EmptyStays
  <2>2. ASSUME NEW p \in Operators, At(p, "record")
        PROVE  Uploaded(cmd[p].sid, Opening(p), cmd[p].cur)'
    <3>0. /\ cmd[p].sid \in Sessions /\ cmd[p].cur \in Keys
          /\ cmd[p].queue # <<>> /\ cmd[p].queue \in Seq(Archives)
      BY <2>2 DEF At, RestoreTypes, TypeOK, CmdInv, Commands
    <3>1. PICK s \in Sessions, a \in Archives, k \in Keys :
            s = cmd[p].sid /\ a = Opening(p) /\ k = cmd[p].cur
      BY <3>0 DEF Opening
    <3>2. Uploaded(s, a, k)
      BY <2>2, <3>1 DEF UploadInv, UploadingInv
    <3>3. \A q \in Operators : ~DeleteUpload(q)
      BY <2>2 DEF DeleteUpload, At, OneOperator
    <3>4. Uploaded(s, a, k)'
      BY <1>f, <3>2, <3>3, UploadedStays
    <3> QED BY <1>same, <3>1, <3>4 DEF Uploaded, Opening
  <2>3. \A i \in DOMAIN rows : Live(i)' => Live(i)
    BY LiveBefore
  <2> QED BY <1>same, <2>1, <2>2, <2>3 DEF At, UploadInv, UploadingInv
<1>q. \A p, q \in Operators : p = q
  BY DEF OneOperator
<1>1. ASSUME NEW p \in Operators, ExecuteStep(p) \/ CleanupStep(p) \/ Crash(p)
      PROVE  UploadingInv'
  BY <1>q, <1>1, <1>away, <1>free, <1>put, Labels
<1> QED BY <1>1, <1>same DEF Next, ReapDelete, ReapMark, vars

LEMMA ProgressHold ==
  ASSUME RestorationAssumption, Faults \subseteq {"delete"}, OneOperator, NoLateExecute,
         RestoreTypes, BackupInv, SessionInv, UploadInv, [Next]_vars
  PROVE  ProgressInv'
<1>f. "reply" \notin Faults /\ "head" \notin Faults
  OBVIOUS
<1>q. \A p, q \in Operators : p = q
  BY DEF OneOperator
<1>holds. \A a \in Archives : Holds(a) \subseteq Keys
  BY DEF Holds, Keys, RestorationAssumption
<1>away. ASSUME \A p \in Operators : ~Executing(p)' PROVE ProgressInv'
  BY <1>away DEF ProgressInv
<1>execute. ASSUME NEW p \in Operators, NEW s \in Sessions, Execute(p, s) PROVE ProgressInv'
  <2>1. cmd'[p].pc = "open" /\ cmd'[p].sid = s /\ cmd'[p].queue = Plan[s]
    BY <1>execute DEF Execute, RestoreTypes, TypeOK
  <2>2. Plan[s] \in Seq(Archives) /\ Len(Plan[s]) \in Nat
    BY DEF RestorationAssumption
  <2>3. Done(p)' = 0
    BY <2>1, <2>2 DEF Done
  <2> QED BY <1>q, <2>1, <2>2, <2>3 DEF ProgressInv, At
\* The command is at work and stays at work on the same archive.
<1>goOn. ASSUME NEW p \in Operators, Executing(p), UNCHANGED <<cmd[p].sid, cmd[p].queue>>,
                At(p, "open")' \/ \A k \in Holds(Opening(p)) :
                   \/ k \in cmd'[p].todo
                   \/ cmd'[p].pc = "put" /\ k = cmd'[p].cur
                   \/ Uploaded(cmd[p].sid, Opening(p), k)'
         PROVE  ProgressInv'
  <2>0. PICK s \in Sessions : s = cmd[p].sid
    BY <1>goOn DEF Executing, At, RestoreTypes, CmdInv
  <2>1. /\ Plan[s] \in Seq(Archives) /\ Len(Plan[s]) \in Nat
        /\ cmd[p].queue \in Seq(Archives) /\ Len(cmd[p].queue) \in Nat
    BY DEF RestorationAssumption, RestoreTypes, TypeOK, Commands
  <2>i. Done(p) = Len(Plan[s]) - Len(cmd[p].queue)
    BY <2>0 DEF Done
  <2>d. PICK d \in Int : d = Done(p) /\ d <= Len(Plan[s])
    BY <2>i, <2>1
  <2>3. ASSUME NEW n \in 1..d, NEW k \in Holds(Plan[s][n]) PROVE Uploaded(s, Plan[s][n], k)'
    <3>1. k \in Keys /\ Plan[s][n] \in Archives
      BY <1>holds, <2>1, <2>d
    <3>2. Uploaded(s, Plan[s][n], k)
      BY <1>goOn, <2>0, <2>d DEF UploadInv, ProgressInv
    <3>3. \A q \in Operators : ~DeleteUpload(q)
      BY <1>q, <1>goOn DEF Executing, DeleteUpload, At
    <3> QED BY <1>f, <3>1, <3>2, <3>3, UploadedStays
  <2>4. /\ d >= 0
        /\ \A n \in 1..Len(cmd[p].queue) : cmd[p].queue[n] = Plan[cmd[p].sid][d + n]
    BY <1>goOn, <2>d DEF UploadInv, ProgressInv
  <2>5. Done(p)' = d /\ cmd'[p].sid = s /\ cmd'[p].queue = cmd[p].queue
    BY <1>goOn, <2>0, <2>d DEF Done
  <2>6. Opening(p)' = Opening(p)
    BY <1>goOn DEF Opening
  <2>7. ASSUME ~At(p, "open")', NEW k \in Holds(Opening(p))'
        PROVE  \/ k \in cmd'[p].todo
               \/ At(p, "put")' /\ k = cmd'[p].cur
               \/ Uploaded(cmd[p].sid, Opening(p), k)'
    <3>1. k \in Holds(Opening(p))
      BY <2>6, <2>7 DEF Holds
    <3> QED BY <1>goOn, <2>7, <3>1 DEF At
  <2>8. /\ Done(p)' >= 0
        /\ \A n \in 1..Len(cmd'[p].queue) : cmd'[p].queue[n] = Plan[cmd'[p].sid][Done(p)' + n]
        /\ \A n \in 1..Done(p)' : \A k \in Holds(Plan[cmd'[p].sid][n]) :
             Uploaded(cmd[p].sid, Plan[cmd[p].sid][n], k)'
    BY <2>0, <2>3, <2>4, <2>5
  <2> QED BY <1>q, <2>7, <2>8 DEF ProgressInv
\* What was uploaded of the open archive still is.
<1>open. ASSUME NEW p \in Operators, Executing(p), ~At(p, "open"),
                UNCHANGED <<cmd[p].sid, cmd[p].queue>>,
                NEW k \in Holds(Opening(p)), Uploaded(cmd[p].sid, Opening(p), k)
         PROVE  Uploaded(cmd[p].sid, Opening(p), k)'
  <2>1. /\ cmd[p].sid \in Sessions /\ cmd[p].queue # <<>>
        /\ cmd[p].queue \in Seq(Archives)
    BY <1>open DEF Executing, At, RestoreTypes, TypeOK, CmdInv, Commands
  <2>2. PICK s \in Sessions, a \in Archives : s = cmd[p].sid /\ a = Opening(p)
    BY <2>1 DEF Opening
  <2>3. k \in Keys /\ Uploaded(s, a, k)
    BY <1>holds, <1>open, <2>2
  <2>4. \A q \in Operators : ~DeleteUpload(q)
    BY <1>q, <1>open DEF Executing, DeleteUpload, At
  <2>5. Uploaded(s, a, k)'
    BY <1>f, <2>3, <2>4, UploadedStays
  <2> QED BY <1>open, <2>2, <2>5 DEF Uploaded, Opening
<1>now. ASSUME NEW p \in Operators, Executing(p), ~At(p, "open"), NEW k \in Holds(Opening(p))
        PROVE  \/ k \in cmd[p].todo
               \/ At(p, "put") /\ k = cmd[p].cur
               \/ Uploaded(cmd[p].sid, Opening(p), k)
  BY <1>now DEF UploadInv, ProgressInv
<1>openArchive. ASSUME NEW p \in Operators, OpenArchive(p) PROVE ProgressInv'
  <2>1. Executing(p) /\ UNCHANGED <<cmd[p].sid, cmd[p].queue>>
        /\ cmd'[p].todo = Holds(Opening(p))
    BY <1>openArchive DEF OpenArchive, At, Executing, Holds, RestoreTypes, TypeOK
  <2> QED BY <1>goOn, <2>1
<1>free. ASSUME NEW p \in Operators, NEW j \in Keys, KeyFree(p, j) PROVE ProgressInv'
  <2>1. /\ Executing(p) /\ ~At(p, "open") /\ ~At(p, "put")
        /\ UNCHANGED <<cmd[p].sid, cmd[p].queue>>
        /\ cmd'[p].pc = "put" /\ cmd'[p].todo = cmd[p].todo \ {j} /\ cmd'[p].cur = j
    BY <1>free DEF KeyFree, At, Executing, RestoreTypes, TypeOK
  <2> QED BY <1>goOn, <1>open, <1>now, <2>1
<1>put. ASSUME NEW p \in Operators, Put(p) PROVE ProgressInv'
  <2>1. /\ Executing(p) /\ ~At(p, "open")
        /\ UNCHANGED <<cmd[p].sid, cmd[p].queue>> /\ cmd'[p].todo = cmd[p].todo
    BY <1>put DEF Put, At, Executing, RestoreTypes, TypeOK
  <2>2. cmd[p].cur \in Keys
    BY <1>put DEF Put, At, RestoreTypes, CmdInv
  <2>3. Uploaded(cmd[p].sid, Opening(p), cmd[p].cur)'
    BY <1>put, <2>1, <2>2 DEF Put, Uploaded, Opening, ContentIn, RestoreTypes, TypeOK
  <2>4. \A k : k = cmd[p].cur => Uploaded(cmd[p].sid, Opening(p), k)'
    BY <1>put, <2>1, <2>2 DEF Put, Uploaded, Opening, ContentIn, RestoreTypes, TypeOK
  <2> QED BY <1>goOn, <1>open, <1>now, <2>1, <2>4
<1>record. ASSUME NEW p \in Operators, Record(p) PROVE ProgressInv'
  <2>1. /\ Executing(p) /\ ~At(p, "open") /\ ~At(p, "put")
        /\ UNCHANGED <<cmd[p].sid, cmd[p].queue>> /\ cmd'[p].todo = cmd[p].todo
    BY <1>record DEF Record, At, Executing, RestoreTypes, TypeOK
  <2> QED BY <1>goOn, <1>open, <1>now, <2>1
<1>endArchive. ASSUME NEW p \in Operators, EndArchive(p) PROVE ProgressInv'
  <2>1. /\ Executing(p) /\ ~At(p, "open") /\ ~At(p, "put") /\ cmd[p].todo = {}
        /\ cmd'[p].sid = cmd[p].sid /\ cmd'[p].queue = Tail(cmd[p].queue)
        /\ cmd'[p].pc = "open"
    BY <1>endArchive DEF EndArchive, AllUploaded, At, Executing, RestoreTypes, TypeOK
  <2>2. /\ cmd[p].sid \in Sessions /\ cmd[p].queue # <<>> /\ cmd[p].queue \in Seq(Archives)
    BY <1>endArchive, <2>1 DEF EndArchive, At, RestoreTypes, TypeOK, CmdInv, Commands
  <2>0. /\ Plan[cmd[p].sid] \in Seq(Archives) /\ Len(Plan[cmd[p].sid]) \in Nat
        /\ Len(cmd[p].queue) \in Nat
    BY <2>2 DEF RestorationAssumption
  <2>i. Done(p) \in Int
    BY <2>0 DEF Done
  <2>3. PICK s \in Sessions, d \in Int, w \in Seq(Archives) :
          s = cmd[p].sid /\ d = Done(p) /\ w = cmd[p].queue
    BY <2>i, <2>2
  <2>4. /\ d >= 0 /\ d = Len(Plan[s]) - Len(w) /\ Plan[s] \in Seq(Archives) /\ w # <<>>
        /\ \A n \in 1..Len(w) : w[n] = Plan[s][d + n]
    BY <2>1, <2>2, <2>3 DEF UploadInv, ProgressInv, Done, RestorationAssumption
  <2>5. Opening(p) = Plan[s][d + 1]
    <3>1. Len(w) \in Nat /\ Len(w) # 0
      BY <2>4
    <3>2. 1 \in 1..Len(w)
      BY <3>1
    <3>3. Head(w) = w[1]
      BY <2>4
    <3>4. w[1] = Plan[s][d + 1]
      BY <2>4, <3>2
    <3> QED BY <2>3, <3>3, <3>4 DEF Opening
  <2>6. \A n \in 1..(d + 1) : \A k \in Holds(Plan[s][n]) : Uploaded(s, Plan[s][n], k)
    <3>1. \A k \in Holds(Opening(p)) : Uploaded(s, Opening(p), k)
      BY <1>now, <2>1, <2>3
    <3>2. \A n \in 1..d : \A k \in Holds(Plan[s][n]) : Uploaded(s, Plan[s][n], k)
      BY <2>1, <2>3 DEF UploadInv, ProgressInv
    <3>3. ASSUME NEW n \in 1..(d + 1), n \notin 1..d PROVE n = d + 1
      BY <3>3, <2>4
    <3> QED BY <2>5, <3>1, <3>2, <3>3
  <2>7. ASSUME NEW n \in 1..(d + 1), NEW k \in Holds(Plan[s][n])
        PROVE  Uploaded(s, Plan[s][n], k)'
    <3>1. k \in Keys
      BY <1>holds, <2>4
    <3>2. Uploaded(s, Plan[s][n], k)
      BY <2>6
    <3>3. \A q \in Operators : ~DeleteUpload(q)
      BY <1>q, <2>1 DEF Executing, DeleteUpload, At
    <3> QED BY <1>f, <3>1, <3>2, <3>3, UploadedStays
  <2>8. /\ Len(Tail(w)) = Len(w) - 1
        /\ \A n \in 1..Len(Tail(w)) : Tail(w)[n] = w[n + 1]
    BY <2>4
  <2>9. /\ Done(p)' = d + 1 /\ cmd'[p].sid = s /\ cmd'[p].queue = Tail(w)
    <3>1. Len(Plan[s]) - (Len(w) - 1) = d + 1
      BY <2>0, <2>3, <2>4
    <3> QED BY <2>1, <2>3, <2>8, <3>1 DEF Done
  <2>10. \A n \in 1..Len(Tail(w)) : Tail(w)[n] = Plan[s][(d + 1) + n]
    <3> SUFFICES ASSUME NEW n \in 1..Len(Tail(w)) PROVE Tail(w)[n] = Plan[s][(d + 1) + n]
      OBVIOUS
    <3>1. n + 1 \in 1..Len(w) /\ d + (n + 1) = (d + 1) + n
      BY <2>8
    <3> QED BY <2>4, <2>8, <3>1
  <2>11. d + 1 >= 0
    BY <2>4
  <2> QED BY <1>q, <2>1, <2>7, <2>9, <2>10, <2>11 DEF ProgressInv, At
<1>same. ASSUME UNCHANGED cmd PROVE ProgressInv'
  <2>1. CASE \E p \in Operators : Executing(p)
    <3>1. PICK p \in Operators : Executing(p)
      BY <2>1
    <3>2. UNCHANGED <<cmd[p].sid, cmd[p].queue>> /\ (At(p, "open")' <=> At(p, "open"))
          /\ (At(p, "put")' <=> At(p, "put"))
      BY <1>same DEF At
    <3> QED BY <1>goOn, <1>open, <1>now, <1>same, <3>1, <3>2 DEF At
  <2>2. CASE \A p \in Operators : ~Executing(p)
    BY <1>away, <1>same, <2>2 DEF Executing
  <2> QED BY <2>1, <2>2
<1>1. ASSUME NEW p \in Operators, cmd'[p].pc \notin {"open", "upload", "put", "record"}
      PROVE  ProgressInv'
  BY <1>q, <1>1, <1>away DEF Executing
<1>2. ASSUME NEW p \in Operators, ExecuteStep(p) \/ CleanupStep(p) \/ Crash(p)
      PROVE  ProgressInv'
  BY <1>1, <1>2, <1>execute, <1>openArchive, <1>free, <1>put, <1>record, <1>endArchive,
     Labels
<1> QED BY <1>2, <1>same DEF Next, ReapDelete, ReapMark, vars

-----------------------------------------------------------------------------

\* Only a put makes a key a session's.
LEMMA PutBySession ==
  ASSUME RestorationAssumption, RestoreTypes, [Next]_vars,
         NEW k \in Keys, NEW s \in Sessions, putBy'[k] = s, putBy[k] # s
  PROVE  \E p \in Operators : Put(p) /\ cmd[p].cur = k /\ cmd[p].sid = s
<1> USE DEF RestoreTypes, TypeOK
<1>1. ASSUME NEW j, Deleted(j) PROVE FALSE
  BY <1>1 DEF Deleted, RestorationAssumption
<1>2. ASSUME NEW p \in Operators, Put(p) PROVE cmd[p].cur = k /\ cmd[p].sid = s
  BY <1>2 DEF Put
<1>3. ~UNCHANGED bucket
  BY DEF bucket
<1> QED BY <1>1, <1>2, <1>3, BucketSteps DEF ReapDelete

\* A row is marked cleaned when nothing is under its key.
LEMMA FreshlyCleaned ==
  ASSUME RestorationAssumption, "head" \notin Faults, RestoreTypes, SessionInv, VisitedInv,
         [Next]_vars, NEW i \in DOMAIN rows, ~rows[i].cleaned, rows'[i].cleaned
  PROVE  obs[rows[i].key] = "none" /\ UNCHANGED bucket
<1>1. rows'[i] # rows[i]
  OBVIOUS
<1>2. ASSUME NEW p \in Operators, ExecuteStep(p) PROVE FALSE
  <2>1. Record(p) \/ rows' = rows
    BY <1>2 DEF ExecuteStep, Execute, OpenArchive, ArchiveMissing, ArchiveDamaged,
                KeyTaken, KeyFree, Put, EndArchive, EndExecute
  <2>2. Record(p) => \E r : rows' = Append(rows, r)
    BY DEF Record
  <2> QED BY <1>1, <2>1, <2>2, AddedRow
<1>3. ASSUME NEW p \in Operators, NEW j \in DOMAIN rows, RowGone(p, j)
      PROVE  obs[rows[i].key] = "none" /\ UNCHANGED bucket
  <2>1. j = i
    BY <1>1, <1>3 DEF RowGone, RestoreTypes, TypeOK
  <2> QED BY <1>3, <2>1 DEF RowGone, HeadMisses
<1>4. ASSUME NEW p \in Operators, MarkCleaned(p)
      PROVE  obs[rows[i].key] = "none" /\ UNCHANGED bucket
  <2>1. i = Current(p)
    BY <1>1, <1>4 DEF MarkCleaned, Current, RestoreTypes, TypeOK
  <2>2. rows[i].key = cmd[p].cur /\ obs[cmd[p].cur] = "none"
    BY <1>4, <2>1 DEF MarkCleaned, At, SessionInv, LabelInv, VisitedInv
  <2> QED BY <1>4, <2>2 DEF MarkCleaned
<1>5. ASSUME NEW p \in Operators, CleanupStep(p)
      PROVE  MarkCleaned(p) \/ (\E j \in DOMAIN rows : RowGone(p, j)) \/ rows' = rows
  BY <1>5 DEF CleanupStep, Cleanup, NothingListed, ListRows, ClaimSession, RowRefused,
                    RowPasses, DeleteUpload, DeleteRaises, EndCleanup
<1> QED BY <1>1, <1>2, <1>3, <1>4, <1>5 DEF Next, Crash, ReapDelete, ReapMark, vars

LEMMA FromRecord ==
  ASSUME RestoreTypes, OneOperator, NEW p \in Operators, At(p, "record"), [Next]_vars
  PROVE  Record(p) \/ Crash(p) \/ UNCHANGED <<cmd, rows>>
<1>q. \A q \in Operators : q = p
  BY DEF OneOperator
<1>1. ExecuteStep(p) => Record(p)
  BY DEF At, ExecuteStep, Execute, OpenArchive, ArchiveMissing, ArchiveDamaged,
         KeyTaken, KeyFree, Put, EndArchive, EndExecute
<1>2. ~CleanupStep(p)
  BY DEF At, CleanupStep, Cleanup, NothingListed, ListRows, ClaimSession, RowRefused,
         RowGone, RowPasses, Visits, DeleteUpload, DeleteRaises, MarkCleaned, EndCleanup
<1> QED BY <1>q, <1>1, <1>2 DEF Next, ReapDelete, ReapMark, vars

\* A row a step adds is not cleaned.
LEMMA NewRow ==
  ASSUME RestorationAssumption, RestoreTypes, SessionInv, [Next]_vars,
         NEW i \in DOMAIN rows', i \notin DOMAIN rows
  PROVE  \E p \in Operators : /\ Record(p) /\ rows'[i].session = cmd[p].sid
                              /\ rows'[i].key = cmd[p].cur /\ ~rows'[i].cleaned
<1>1. PICK p \in Operators : Record(p)
  BY RowsKept
<1> DEFINE r == [session |-> cmd[p].sid, key |-> cmd[p].cur,
                 etag |-> ContentIn(Opening(p), cmd[p].cur), cleaned |-> FALSE]
<1>2. rows' = Append(rows, r)
  BY <1>1 DEF Record
<1>3. r.session = cmd[p].sid /\ r.key = cmd[p].cur /\ ~r.cleaned
  OBVIOUS
<1> HIDE DEF r
<1>4. rows'[i] = r
  BY <1>2, AddedRow
<1> QED BY <1>1, <1>3, <1>4

LEMMA CleanedRowsHold ==
  ASSUME RestorationAssumption, "head" \notin Faults, OneOperator, NoLateExecute,
         RestoreTypes, SessionInv, CleanInv, [Next]_vars
  PROVE  CleanedRowsInv'
<1> SUFFICES ASSUME NEW i \in DOMAIN rows', rows'[i].cleaned,
                    putBy'[rows'[i].key] = rows'[i].session
             PROVE  \/ \E j \in DOMAIN rows' : /\ rows'[j].session = rows'[i].session
                                               /\ rows'[j].key = rows'[i].key
                                               /\ ~rows'[j].cleaned
                    \/ \E p \in Operators : At(p, "record")' /\ cmd'[p].sid = rows'[i].session
                                                             /\ cmd'[p].cur = rows'[i].key
  BY DEF CleanedRowsInv, RowsOf
<1>0. i \in DOMAIN rows
  BY NewRow
<1>1. PICK k \in Keys, s \in Sessions :
        k = rows[i].key /\ s = rows[i].session /\ rows'[i].key = k /\ rows'[i].session = s
  BY <1>0, RowsTyped, RowsKept
<1>2. rows[i].cleaned
  <2> SUFFICES ASSUME ~rows[i].cleaned PROVE FALSE
    OBVIOUS
  <2>1. obs[k] = "none" /\ putBy' = putBy
    BY <1>0, <1>1, FreshlyCleaned DEF CleanInv, bucket
  <2>2. putBy[k] = "nobody"
    BY <2>1 DEF SessionInv, RowsInv
  <2> QED BY <1>1, <2>1, <2>2 DEF RestorationAssumption
<1>3. CASE putBy[k] # s
  <2>1. PICK p \in Operators : Put(p) /\ cmd[p].cur = k /\ cmd[p].sid = s
    <3>1. putBy'[k] = s
      BY <1>1
    <3> QED BY <1>3, <3>1, PutBySession
  <2>2. cmd'[p].pc = "record" /\ cmd'[p].cur = k /\ cmd'[p].sid = s
    BY <2>1 DEF Put, RestoreTypes, TypeOK
  <2> QED BY <1>1, <2>2 DEF At
<1>4. ASSUME putBy[k] = s, NEW j \in DOMAIN rows, rows[j].session = s, rows[j].key = k,
             ~rows[j].cleaned
      PROVE  /\ j \in DOMAIN rows' /\ rows'[j].session = s /\ rows'[j].key = k
             /\ ~rows'[j].cleaned
  <2>1. j \in DOMAIN rows' /\ rows'[j].session = s /\ rows'[j].key = k
    BY <1>4, RowsKept
  <2>2. ASSUME rows'[j].cleaned PROVE FALSE
    <3>1. obs[k] = "none"
      BY <1>4, <2>2, FreshlyCleaned DEF CleanInv
    <3> QED BY <1>4, <3>1 DEF SessionInv, RowsInv, RestorationAssumption
  <2> QED BY <2>1, <2>2
<1>5. ASSUME NEW p \in Operators, At(p, "record"), cmd[p].sid = s, cmd[p].cur = k
      PROVE  \/ \E j \in DOMAIN rows' : /\ rows'[j].session = s /\ rows'[j].key = k
                                        /\ ~rows'[j].cleaned
             \/ At(p, "record")' /\ cmd'[p].sid = s /\ cmd'[p].cur = k
  <2>1. CASE Record(p)
    <3> DEFINE r == [session |-> cmd[p].sid, key |-> cmd[p].cur,
                     etag |-> ContentIn(Opening(p), cmd[p].cur), cleaned |-> FALSE]
    <3>1. rows' = Append(rows, r) /\ r.session = s /\ r.key = k /\ ~r.cleaned
      BY <1>5, <2>1 DEF Record
    <3> HIDE DEF r
    <3> QED BY <3>1, AddedRow
  <2>2. CASE Crash(p)
    <3>1. MaxExecutes <= 1
      BY <2>2 DEF Crash, NoLateExecute, RestoreTypes, TypeOK, RestorationAssumption
    <3>2. ~rows[i].cleaned
      BY <1>0, <1>1, <1>5, <3>1 DEF CleanInv, VisitedInv, Executing, At, RowsOf
    <3> QED BY <1>2, <3>2
  <2>3. CASE UNCHANGED <<cmd, rows>>
    BY <1>5, <2>3 DEF At
  <2> QED BY <1>5, <2>1, <2>2, <2>3, FromRecord
<1>6. CASE putBy[k] = s
  <2>1. \/ \E j \in RowsOf(s) : rows[j].key = k /\ ~rows[j].cleaned
        \/ \E p \in Operators : At(p, "record") /\ cmd[p].sid = s /\ cmd[p].cur = k
    BY <1>0, <1>1, <1>2, <1>6 DEF CleanInv, CleanedRowsInv
  <2> QED BY <1>1, <1>4, <1>5, <1>6, <2>1 DEF RowsOf
<1> QED BY <1>3, <1>6

LEMMA CleanedHold ==
  ASSUME RestorationAssumption, OneOperator, RestoreTypes, SessionInv, CleanInv, [Next]_vars
  PROVE  CleanedInv'
<1> SUFFICES ASSUME NEW s \in Sessions, session'[s] = "cleaned",
                    NEW i \in DOMAIN rows', rows'[i].session = s
             PROVE  rows'[i].cleaned
  BY DEF CleanedInv, RowsOf
<1>1. CASE session[s] = "cleaned"
  <2>1. ASSUME i \notin DOMAIN rows PROVE FALSE
    <3>1. PICK p \in Operators : Record(p) /\ cmd[p].sid = s
      BY <2>1, NewRow
    <3> QED BY <1>1, <3>1 DEF Record, At, SessionInv, LabelInv, Executing
  <2>2. rows[i].session = s
    BY <2>1, RowsKept
  <2>3. rows[i].cleaned
    BY <1>1, <2>1, <2>2 DEF CleanInv, CleanedInv, RowsOf
  <2> QED BY <2>1, <2>3, RowsKept
<1>2. ASSUME NEW p \in Operators, NothingListed(p), cmd[p].sid = s PROVE FALSE
  BY <1>2 DEF NothingListed, RowsOf
<1>3. ASSUME NEW p \in Operators, EndCleanup(p), cmd[p].sid = s PROVE rows'[i].cleaned
  <2>1. ~cmd[p].failed /\ cmd[p].work = {} /\ Visiting(p) /\ rows' = rows
    BY <1>3 DEF EndCleanup, Outcome, SetSession, RestoreTypes, TypeOK, At, Visiting, Cleaning
  <2> QED BY <1>3, <2>1 DEF CleanInv, VisitedInv, RowsOf
<1>4. CASE session[s] # "cleaned"
  <2>0. \A p, t : SetSession(cmd[p].sid, t) => t = "cleaned" /\ cmd[p].sid = s
    BY <1>4 DEF SetSession, RestoreTypes, TypeOK
  <2>1. ASSUME NEW p \in Operators, ExecuteStep(p) PROVE FALSE
    <3>1. ASSUME NEW t \in Sessions, Execute(p, t) PROVE FALSE
      BY <1>4, <3>1 DEF Execute, SetSession, RestoreTypes, TypeOK
    <3>2. \/ \E t \in Sessions : Execute(p, t)
          \/ session' = session \/ SetSession(cmd[p].sid, "failed")
          \/ SetSession(cmd[p].sid, "restored")
      BY <2>1 DEF ExecuteStep, OpenArchive, ArchiveMissing, ArchiveDamaged,
                  KeyTaken, KeyFree, Put, Record, EndArchive, EndExecute
    <3>3. ASSUME NEW t \in {"failed", "restored"}, SetSession(cmd[p].sid, t) PROVE FALSE
      BY <2>0, <3>3
    <3> QED BY <1>4, <3>1, <3>2, <3>3
  <2>2. ASSUME NEW p \in Operators, CleanupStep(p)
        PROVE  (NothingListed(p) \/ EndCleanup(p)) /\ cmd[p].sid = s
    BY <1>4, <2>0, <2>2 DEF CleanupStep, Cleanup, NothingListed, ListRows, ClaimSession,
         RowRefused, RowGone, RowPasses, DeleteUpload, DeleteRaises, MarkCleaned, EndCleanup
  <2> QED BY <1>2, <1>3, <1>4, <2>1, <2>2 DEF Next, Crash, ReapDelete, ReapMark, vars
<1> QED BY <1>1, <1>4

LEMMA VisitedHold ==
  ASSUME RestorationAssumption, Faults \subseteq {"reply"}, OneOperator,
         RestoreTypes, SessionInv, CleanInv, [Next]_vars
  PROVE  VisitedInv'
<1> USE DEF At, Visiting, Cleaning, Executing
<1>f. "delete" \notin Faults /\ "head" \notin Faults
  OBVIOUS
<1>q. \A p, q \in Operators : p = q
  BY DEF OneOperator
<1>c. \A p \in Operators : cmd[p] \in Commands
  BY DEF RestoreTypes, TypeOK
<1> DEFINE Idle(p) == cmd'[p].pc \in {"idle", "list"}
<1>idle. ASSUME NEW p \in Operators, Idle(p) PROVE VisitedInv'
  BY <1>q, <1>idle DEF VisitedInv
\* The rows and the session of the command stay what they are, and the rows
\* that are dealt with have been cleaned.
<1>visit. ASSUME NEW p \in Operators, Visiting(p)', cmd'[p].sid = cmd[p].sid,
                 DOMAIN rows' = DOMAIN rows, At(p, "mark")' => obs'[cmd'[p].cur] = "none",
                 \/ cmd'[p].failed
                 \/ /\ Visiting(p) /\ ~cmd[p].failed
                    /\ \A i \in cmd[p].work \ cmd'[p].work : rows'[i].cleaned
                 \/ \A i \in RowsOf(cmd[p].sid) : rows[i].cleaned \/ i \in cmd'[p].work
          PROVE  VisitedInv'
  <2>1. \A i \in DOMAIN rows : /\ rows'[i].session = rows[i].session
                               /\ rows[i].cleaned => rows'[i].cleaned
    BY RowsKept
  <2>2. ~cmd'[p].failed =>
          \A i \in RowsOf(cmd[p].sid) : rows'[i].cleaned \/ i \in cmd'[p].work
    BY <1>visit, <2>1 DEF CleanInv, VisitedInv, RowsOf
  <2> QED BY <1>q, <1>visit, <2>1, <2>2 DEF VisitedInv, RowsOf
\* Execute goes on.
<1>goOn. ASSUME NEW p \in Operators, Executing(p), Executing(p)', cmd'[p].sid = cmd[p].sid,
                rows' = rows \/ Record(p)
         PROVE  VisitedInv'
  <2>1. ASSUME MaxExecutes <= 1, NEW i \in DOMAIN rows', rows'[i].session = cmd[p].sid
        PROVE  ~rows'[i].cleaned
    <3>1. CASE i \in DOMAIN rows
      <4>1. rows'[i] = rows[i]
        <5>1. Record(p) => \E r : rows' = Append(rows, r)
          BY DEF Record
        <5> QED BY <1>goOn, <3>1, <5>1, AddedRow
      <4> QED BY <1>goOn, <2>1, <3>1, <4>1 DEF CleanInv, VisitedInv, RowsOf
    <3>2. CASE i \notin DOMAIN rows
      BY <2>1, <3>2, NewRow
    <3> QED BY <3>1, <3>2
  <2> QED BY <1>q, <1>goOn, <2>1 DEF VisitedInv, RowsOf
<1>execute. ASSUME NEW p \in Operators, NEW s \in Sessions, Execute(p, s) PROVE VisitedInv'
  <2>1. cmd'[p].pc = "open" /\ cmd'[p].sid = s /\ rows' = rows /\ executed[s] < MaxExecutes
    BY <1>execute DEF Execute, RestoreTypes, TypeOK, Commands
  <2>2. MaxExecutes <= 1 => executed[s] = 0
    BY <2>1 DEF RestoreTypes, TypeOK, RestorationAssumption
  <2>3. MaxExecutes <= 1 => \A i \in DOMAIN rows : rows[i].session # s
    BY <2>2 DEF SessionInv, RowsInv
  <2> QED BY <1>q, <2>1, <2>3 DEF VisitedInv, RowsOf
<1>same. ASSUME UNCHANGED <<cmd, rows>> PROVE VisitedInv'
  <2>1. ASSUME NEW p \in Operators, At(p, "mark") PROVE obs'[cmd[p].cur] = "none"
    <3>1. PICK k \in Keys : k = cmd[p].cur
      BY <2>1 DEF RestoreTypes, CmdInv
    <3>2. obs[k] = "none"
      BY <2>1, <3>1 DEF CleanInv, VisitedInv
    <3>3. ASSUME NEW q \in Operators, Put(q) PROVE FALSE
      BY <1>same, <1>c, <3>3 DEF Put, RestoreTypes, TypeOK, Commands
    <3>4. ASSUME NEW j, Deleted(j) PROVE obs'[k] = "none"
      BY <3>2, <3>4 DEF Deleted, RestoreTypes, TypeOK
    <3>5. UNCHANGED bucket \/ (\E q \in Operators : Put(q)) \/ \E j : Deleted(j)
      BY BucketSteps DEF ReapDelete
    <3> QED BY <3>1, <3>2, <3>3, <3>4, <3>5 DEF bucket
  <2> QED BY <1>same, <2>1 DEF CleanInv, VisitedInv, RowsOf
<1>1. ASSUME NEW p \in Operators, ExecuteStep(p) PROVE VisitedInv'
  <2>1. CASE OpenArchive(p) \/ Put(p) \/ Record(p) \/ EndArchive(p)
             \/ \E k \in Keys : KeyFree(p, k)
    <3>k. ASSUME NEW k \in Keys, KeyFree(p, k)
          PROVE  cmd'[p].pc = "put" /\ cmd'[p].sid = cmd[p].sid
      BY <1>c, <3>k DEF KeyFree, RestoreTypes, TypeOK, Commands
    <3>o. OpenArchive(p) => cmd'[p].pc = "upload" /\ cmd'[p].sid = cmd[p].sid
      BY <1>c DEF OpenArchive, RestoreTypes, TypeOK, Commands
    <3>p. Put(p) => cmd'[p].pc = "record" /\ cmd'[p].sid = cmd[p].sid
      BY <1>c DEF Put, RestoreTypes, TypeOK, Commands
    <3>r. Record(p) => cmd'[p].pc = "upload" /\ cmd'[p].sid = cmd[p].sid
      BY <1>c DEF Record, RestoreTypes, TypeOK, Commands
    <3>e. EndArchive(p) => cmd'[p].pc = "open" /\ cmd'[p].sid = cmd[p].sid
      BY <1>c DEF EndArchive, RestoreTypes, TypeOK, Commands
    <3>1. cmd'[p].pc \in {"open", "upload", "put", "record"} /\ cmd'[p].sid = cmd[p].sid
      BY <2>1, <3>k, <3>o, <3>p, <3>r, <3>e
    <3>2. Executing(p) /\ (rows' = rows \/ Record(p))
      BY <2>1 DEF OpenArchive, Put, Record, EndArchive, KeyFree
    <3> QED BY <1>goOn, <3>1, <3>2
  <2> QED BY <1>1, <1>execute, <1>idle, <2>1, Labels
<1>2. ASSUME NEW p \in Operators, CleanupStep(p) PROVE VisitedInv'
  <2> USE <1>c DEF RestoreTypes, TypeOK
  <2>cleanup. ASSUME NEW s \in Sessions, Cleanup(p, s) PROVE VisitedInv'
    BY <1>idle, <2>cleanup DEF Cleanup, Commands
  <2>nothing. CASE NothingListed(p)
    BY <1>idle, <2>nothing DEF NothingListed, Return, NoCommand
  <2>list. CASE ListRows(p)
    <3>1. /\ cmd'[p].pc = "claim" /\ cmd'[p].sid = cmd[p].sid /\ rows' = rows
          /\ cmd'[p].work = {i \in RowsOf(cmd[p].sid) : ~rows[i].cleaned}
      BY <2>list DEF ListRows, Commands
    <3> QED BY <1>visit, <3>1
  <2>claim. CASE ClaimSession(p)
    <3>1. /\ cmd'[p].pc = "clean" /\ cmd'[p].sid = cmd[p].sid /\ rows' = rows
          /\ cmd'[p].work = cmd[p].work /\ cmd'[p].failed = cmd[p].failed /\ Visiting(p)
      BY <2>claim DEF ClaimSession, Commands
    <3> QED BY <1>visit, <3>1
  <2>refused. ASSUME NEW i \in DOMAIN rows, RowRefused(p, i) PROVE VisitedInv'
    <3>1. cmd'[p].pc = "clean" /\ cmd'[p].sid = cmd[p].sid /\ rows' = rows /\ cmd'[p].failed
      BY <2>refused DEF RowRefused, Visits, Commands
    <3> QED BY <1>visit, <3>1
  <2>gone. ASSUME NEW i \in DOMAIN rows, RowGone(p, i) PROVE VisitedInv'
    <3>1. /\ cmd'[p].pc = "clean" /\ cmd'[p].sid = cmd[p].sid /\ Visiting(p)
          /\ cmd'[p].work = cmd[p].work \ {i} /\ cmd'[p].failed = cmd[p].failed
      BY <2>gone DEF RowGone, Visits, Commands
    <3>2. DOMAIN rows' = DOMAIN rows /\ rows'[i].cleaned
      BY <2>gone, MarkedRow DEF RowGone
    <3> QED BY <1>visit, <3>1, <3>2
  <2>passes. ASSUME NEW i \in DOMAIN rows, RowPasses(p, i) PROVE VisitedInv'
    <3>1. /\ cmd'[p].pc = "delete" /\ cmd'[p].sid = cmd[p].sid /\ rows' = rows
          /\ cmd'[p].work = cmd[p].work /\ cmd'[p].failed = cmd[p].failed /\ Visiting(p)
      BY <2>passes DEF RowPasses, Visits, Commands
    <3> QED BY <1>visit, <3>1
  <2>delete. CASE DeleteUpload(p)
    <3>1. /\ cmd'[p].pc = "mark" /\ cmd'[p].sid = cmd[p].sid /\ rows' = rows
          /\ cmd'[p].cur = cmd[p].cur /\ cmd[p].cur \in Keys
          /\ cmd'[p].work = cmd[p].work /\ cmd'[p].failed = cmd[p].failed /\ Visiting(p)
      BY <2>delete DEF DeleteUpload, CmdInv, Commands
    <3>2. obs'[cmd[p].cur] = "none"
      BY <1>f, <2>delete, <3>1 DEF DeleteUpload, Deleted
    <3> QED BY <1>visit, <3>1, <3>2
  <2>raises. CASE DeleteRaises(p)
    <3>1. cmd'[p].pc = "clean" /\ cmd'[p].sid = cmd[p].sid /\ rows' = rows /\ cmd'[p].failed
      BY <2>raises DEF DeleteRaises, Commands
    <3> QED BY <1>visit, <3>1
  <2>mark. CASE MarkCleaned(p)
    <3> DEFINE i == Min(cmd[p].work)
    <3>1. /\ cmd'[p].pc = "clean" /\ cmd'[p].sid = cmd[p].sid /\ Visiting(p)
          /\ cmd'[p].work = cmd[p].work \ {i} /\ cmd'[p].failed = cmd[p].failed
          /\ rows' = [rows EXCEPT ![i].cleaned = TRUE]
      BY <2>mark DEF MarkCleaned, Commands
    <3>2. i \in DOMAIN rows
      BY <2>mark DEF MarkCleaned, SessionInv, LabelInv, RowsOf, Current
    <3> HIDE DEF i
    <3>3. DOMAIN rows' = DOMAIN rows /\ rows'[i].cleaned
      BY <3>1, <3>2, MarkedRow
    <3> QED BY <1>visit, <3>1, <3>3
  <2>end. CASE EndCleanup(p)
    BY <1>idle, <2>end DEF EndCleanup, Return, NoCommand
  <2> QED BY <1>2, <2>cleanup, <2>nothing, <2>list, <2>claim, <2>refused, <2>gone, <2>passes,
             <2>delete, <2>raises, <2>mark, <2>end DEF CleanupStep
<1>3. ASSUME NEW p \in Operators, Crash(p) PROVE VisitedInv'
  BY <1>3, <1>idle, Labels
<1> QED BY <1>1, <1>2, <1>3, <1>same DEF Next, ReapDelete, ReapMark, vars

-----------------------------------------------------------------------------
(* What restore_objects is worth, with one command at a time.              *)

\* The status of a session, its rows and the command that works on it agree,
\* under any faults of the client.
THEOREM SessionsAgree ==
  ASSUME OneOperator
  PROVE  Spec => []SessionInv
<1>1. Init => SessionInv
  BY RestorationAssumption
     DEF RestorationAssumption, Init, SessionInv, RowsInv, LabelInv, StuckInv, Stuck, Serving,
         Executing, Cleaning, Visiting, At, NoCommand, Keys
<1>2. RestoreTypes /\ SessionInv /\ [Next]_vars => SessionInv'
  BY RestorationAssumption, SessionInvHolds
<1> QED BY <1>1, <1>2, RestoreTyping, PTL DEF Spec

\* While HEAD is right and a DELETE that raises deleted nothing, each row that
\* is not cleaned names what its session put under the key, and no two rows name
\* the same object, up to the crash of the command that cleans the session.
THEOREM UploadsKept ==
  ASSUME OneOperator, NoLateExecute, Faults \subseteq {"delete"}
  PROVE  Spec => []UploadInv
<1>1. Init => UploadInv
  BY RestorationAssumption
     DEF RestorationAssumption, Init, UploadInv, LiveRowsInv, UploadingInv, ProgressInv,
         RestoredInv, Executing, At, NoCommand
<1>2. "head" \notin Faults /\ "reply" \notin Faults
  OBVIOUS
<1>3. RestoreTypes /\ BackupInv /\ SessionInv /\ UploadInv /\ [Next]_vars => UploadInv'
  BY <1>2, RestorationAssumption, LiveRowsHold, UploadingHold, ProgressHold, RestoredHold
     DEF UploadInv
<1> QED BY <1>1, <1>2, <1>3, RestoreTyping, BackupsStay, SessionsAgree, PTL DEF Spec

\* Cleanup deletes nothing but what the session it cleans uploaded, although it
\* looks at the ETag and at the status of the source, and at no owner.
THEOREM OnlyOwnUploadsDeleted ==
  ASSUME OneOperator, NoLateExecute, Faults \subseteq {"delete"}
  PROVE  Spec => []CleansOwnUploads
<1>1. RestoreTypes /\ SessionInv /\ UploadInv => CleansOwnUploads
  BY DeletesLive DEF CleansOwnUploads
<1> QED BY <1>1, UploadsKept, SessionsAgree, RestoreTyping, PTL

\* All the archives of a restored session are in the bucket, member by member and
\* put there by that session, until it is cleaned or executed again, whatever
\* happens to the other sessions.
THEOREM RestoredStaysUsable ==
  ASSUME OneOperator, NoLateExecute, Faults \subseteq {"delete"}
  PROVE  Spec => []RestoredIsUsable
<1>1. UploadInv => RestoredIsUsable
  BY DEF UploadInv, RestoredInv, RestoredIsUsable, Uploaded, Holds
<1> QED BY <1>1, UploadsKept, PTL

\* Every row of a session being cleaned is cleaned or still to be visited, and
\* what a cleaned row named is gone unless its session put it back since.
THEOREM RowsAccountedFor ==
  ASSUME OneOperator, NoLateExecute, Faults \subseteq {"reply"}
  PROVE  Spec => []CleanInv
<1>1. Init => CleanInv
  BY DEF Init, CleanInv, CleanedRowsInv, VisitedInv, CleanedInv, Executing, Visiting, Cleaning,
         At, NoCommand
<1>2. RestoreTypes /\ SessionInv /\ CleanInv /\ [Next]_vars => CleanInv'
  BY RestorationAssumption, CleanedRowsHold, VisitedHold, CleanedHold DEF CleanInv
<1> QED BY <1>1, <1>2, RestoreTyping, SessionsAgree, PTL DEF Spec

\* Once a session is cleaned nothing it recorded as its upload is left in the
\* bucket, even if a DELETE that raised was carried out all the same.
THEOREM CleanedLeavesNothing ==
  ASSUME OneOperator, NoLateExecute, Faults \subseteq {"reply"}
  PROVE  Spec => []CleanedIsComplete
<1>1. CleanInv => CleanedIsComplete
  <2> SUFFICES ASSUME CleanInv, NEW s \in Sessions, session[s] = "cleaned", ~Serving(s),
                      NEW i \in RowsOf(s)
               PROVE  rows[i].cleaned /\ putBy[rows[i].key] # s
    BY DEF CleanedIsComplete
  <2>1. \A j \in RowsOf(s) : rows[j].cleaned
    BY DEF CleanInv, CleanedInv
  <2>2. putBy[rows[i].key] # s
    BY <2>1 DEF CleanInv, CleanedRowsInv, RowsOf, Serving
  <2> QED BY <2>1, <2>2
<1> QED BY <1>1, RowsAccountedFor, PTL
-----------------------------------------------------------------------------
(* Tenancy                                                                 *)

\* A step that changes a status sets one, to something else than restored
\* unless it ends execute, and leaves the bucket alone.
LEMMA SessionSteps ==
  ASSUME RestorationAssumption, RestoreTypes, [Next]_vars
  PROVE  \/ UNCHANGED session
         \/ UNCHANGED bucket /\ \E p \in Operators : EndExecute(p)
         \/ UNCHANGED bucket /\ \E s \in Sessions, t \in SessionStatuses \ {"restored"} :
                                  SetSession(s, t)
<1> DEFINE Set == \E s \in Sessions, t \in SessionStatuses \ {"restored"} : SetSession(s, t)
<1>0. {"extracting", "cleaning", "cleaned", "failed"} \subseteq SessionStatuses \ {"restored"}
  BY DEF SessionStatuses
<1>1. ASSUME NEW p \in Operators, ExecuteStep(p)
      PROVE  UNCHANGED session \/ (UNCHANGED bucket /\ (EndExecute(p) \/ Set))
  <2>0. ~At(p, "idle") => cmd[p].sid \in Sessions
    BY DEF RestoreTypes, CmdInv
  <2>1. ASSUME NEW s \in Sessions, Execute(p, s) PROVE Set /\ UNCHANGED bucket
    BY <1>0, <2>1 DEF Execute
  <2>2. ArchiveDamaged(p) \/ (\E k \in Keys : KeyTaken(p, k)) => Set /\ UNCHANGED bucket
    BY <1>0, <2>0 DEF ArchiveDamaged, KeyTaken, At
  <2>3. EndExecute(p) => UNCHANGED bucket
    BY DEF EndExecute
  <2>4. \/ \E s \in Sessions : Execute(p, s)
        \/ ArchiveDamaged(p) \/ (\E k \in Keys : KeyTaken(p, k)) \/ EndExecute(p)
        \/ UNCHANGED session
    BY <1>1 DEF ExecuteStep, OpenArchive, ArchiveMissing, KeyFree, Put, Record, EndArchive
  <2> QED BY <2>1, <2>2, <2>3, <2>4
<1>2. ASSUME NEW p \in Operators, CleanupStep(p)
      PROVE  UNCHANGED session \/ (UNCHANGED bucket /\ Set)
  <2>0. ~At(p, "idle") => cmd[p].sid \in Sessions
    BY DEF RestoreTypes, CmdInv
  <2>1. NothingListed(p) => UNCHANGED session \/ (UNCHANGED bucket /\ Set)
    BY <1>0, <2>0 DEF NothingListed, At
  <2>2. ClaimSession(p) => UNCHANGED bucket /\ Set
    BY <1>0, <2>0 DEF ClaimSession, At
  <2>3. EndCleanup(p) => UNCHANGED bucket /\ Set
    BY <1>0, <2>0 DEF EndCleanup, Outcome, At
  <2>4. NothingListed(p) \/ ClaimSession(p) \/ EndCleanup(p) \/ UNCHANGED session
    BY <1>2 DEF CleanupStep, Cleanup, ListRows, RowRefused, RowGone, RowPasses,
                DeleteUpload, DeleteRaises, MarkCleaned
  <2> QED BY <2>1, <2>2, <2>3, <2>4
<1>3. (\E p \in Operators : Crash(p)) \/ (\E o \in Objects : ReapDelete(o) \/ ReapMark(o))
        \/ UNCHANGED vars => UNCHANGED session
  BY DEF Crash, ReapDelete, ReapMark, vars
<1> QED BY <1>1, <1>2, <1>3 DEF Next

LEMMA TenancyStep ==
  ASSUME RestorationAssumption, OneOperator, Faults \subseteq {"delete"}, RestoreTypes,
         BackupInv, SessionInv, UploadInv, [Next]_vars
  PROVE  [Tenants!Next]_<<putBy, session>>
<1> USE DEF RestoreTypes, TypeOK
<1>put. ASSUME NEW p \in Operators, Put(p) PROVE Tenants!Next
  <2>1. PICK s \in Sessions, k \in Keys : s = cmd[p].sid /\ k = cmd[p].cur
    BY <1>put DEF Put, At, CmdInv
  <2>2. session[s] = "extracting" /\ obs[k] = "none"
    BY <1>put, <2>1 DEF Put, At, SessionInv, LabelInv, Executing, UploadInv, UploadingInv
  <2>3. putBy[k] = "nobody"
    BY <2>2 DEF SessionInv, RowsInv
  <2>4. Tenants!MoveIn(s, k)
    BY <1>put, <2>1, <2>2, <2>3 DEF Put, Tenants!MoveIn
  <2> QED BY <2>4 DEF Tenants!Next
<1>delete. ASSUME NEW p \in Operators, DeleteUpload(p), Deleted(cmd[p].cur)
           PROVE  Tenants!Next
  <2>1. PICK s \in Sessions, k \in Keys : s = cmd[p].sid /\ k = cmd[p].cur
    BY <1>delete DEF DeleteUpload, At, CmdInv
  <2>2. session[s] = "cleaning" /\ putBy[k] = s
    BY <1>delete, <2>1, DeletesLive DEF DeleteUpload, At, SessionInv, LabelInv, Cleaning
  <2>3. Tenants!MoveOut(s, k)
    BY <1>delete, <2>1, <2>2 DEF DeleteUpload, Deleted, Tenants!MoveOut
  <2> QED BY <2>3 DEF Tenants!Next
<1>reap. ASSUME NEW o \in Objects, ReapDelete(o) PROVE Tenants!Next
  <2>1. putBy[o] = "gaussdb" /\ o \in Keys
    BY <1>reap DEF ReapDelete, BackupInv, BackupsUntouched, Keys
  <2>2. Tenants!Depart(o)
    BY <1>reap, <2>1 DEF ReapDelete, Deleted, Tenants!Depart
  <2> QED BY <2>1, <2>2 DEF Tenants!Next
<1>end. ASSUME NEW p \in Operators, EndExecute(p) PROVE Tenants!Next
  <2>1. PICK s \in Sessions : s = cmd[p].sid
    BY <1>end DEF EndExecute, At, CmdInv
  <2>2. session[s] = "extracting"
    BY <1>end, <2>1 DEF EndExecute, At, SessionInv, LabelInv, Executing
  <2>3. \A n \in DOMAIN Plan[s] : \A k \in Holds(Plan[s][n]) : putBy[k] = s
    <3>1. Executing(p) /\ cmd[p].queue = <<>>
      BY <1>end DEF EndExecute, At, Executing
    <3>2. Plan[s] \in Seq(Archives) /\ Done(p) = Len(Plan[s])
      BY <2>1, <3>1 DEF Done, RestorationAssumption
    <3>3. DOMAIN Plan[s] = 1..Done(p)
      BY <3>2
    <3> QED BY <2>1, <3>1, <3>3 DEF UploadInv, ProgressInv, Uploaded
  <2>4. \A k \in Needed[s] : putBy[k] = s
    BY <2>3 DEF Needed, Holds
  <2>5. Tenants!Complete(s)
    BY <1>end, <2>1, <2>2, <2>4 DEF EndExecute, SetSession, bucket, Tenants!Complete
  <2> QED BY <2>5 DEF Tenants!Next
<1>turn. ASSUME UNCHANGED bucket, NEW s \in Sessions, NEW t \in SessionStatuses \ {"restored"},
                SetSession(s, t)
         PROVE  Tenants!Next
  <2>1. Tenants!Turn(s)
    BY <1>turn DEF SetSession, bucket, Tenants!Turn
  <2> QED BY <2>1 DEF Tenants!Next
<1>1. "reply" \notin Faults
  OBVIOUS
<1>2. CASE ~UNCHANGED bucket
  BY <1>1, <1>2, <1>put, <1>delete, <1>reap, BucketSteps
<1>3. CASE UNCHANGED bucket /\ ~UNCHANGED session
  BY <1>3, <1>end, <1>turn, SessionSteps
<1> QED BY <1>2, <1>3 DEF bucket

\* Restore and cleanup keep the promise of Tenancy: whatever they find out from a
\* HEAD, an ETag and a status, the effect is that a session puts where nobody's
\* object is, deletes what is its own, and is restored once it holds all its plan.
THEOREM RestoreImplementsTenancy ==
  ASSUME OneOperator, NoLateExecute, Faults \subseteq {"delete"}
  PROVE  Spec => KeepsTenancy
<1>1. Init => Tenants!Init
  BY RestorationAssumption DEF RestorationAssumption, Init, Tenants!Init, SessionStatuses
<1>2. RestoreTypes /\ BackupInv /\ SessionInv /\ UploadInv /\ [Next]_vars
        => [Tenants!Next]_<<putBy, session>>
  BY RestorationAssumption, TenancyStep
<1>3. "head" \notin Faults
  OBVIOUS
<1> QED BY <1>1, <1>2, <1>3, RestoreTyping, BackupsStay, SessionsAgree, UploadsKept, PTL
        DEF Spec, KeepsTenancy, Tenants!Spec
=============================================================================
