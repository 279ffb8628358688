------------------------ MODULE RestorationInvariant ------------------------
(***************************************************************************)
(* Why cleanup deletes only its session's uploads, why a restored session  *)
(* is usable and why a cleaned one is complete: what restore_objects says  *)
(* of the bucket at every step.  It says it as long as one command runs at *)
(* a time and no session is executed again after a command has died; the   *)
(* Faults it bears are told at each part.                                  *)
(***************************************************************************)
EXTENDS Restoration

OneOperator == \A p, q \in Operators : p = q

\* No command dies, or no session is executed twice.
NoLateExecute == MaxCrashes = 0 \/ MaxExecutes <= 1

Executing(p) == cmd[p].pc \in {"open", "upload", "put", "record"}
Cleaning(p)  == cmd[p].pc \in {"clean", "delete", "mark"}
Visiting(p)  == Cleaning(p) \/ At(p, "claim")

\* The row cleanup deletes the object of, and then marks.
Current(p) == Min(cmd[p].work)

-----------------------------------------------------------------------------
(* Under any Faults.                                                       *)

\* Nothing is empty that someone put, and each row belongs to a session that
\* was executed.
RowsInv ==
  /\ \A k \in Keys : obs[k] = "none" <=> putBy[k] = "nobody"
  /\ \A i \in DOMAIN rows : rows[i].etag # "none" /\ executed[rows[i].session] # 0

\* What a label says of the session and of the rows it works on.
LabelInv ==
  \A p \in Operators :
    /\ At(p, "idle") => cmd[p].sid = NoSession
    /\ Executing(p) => session[cmd[p].sid] = "extracting" /\ executed[cmd[p].sid] # 0
    /\ cmd[p].pc \in {"list", "claim"} => session[cmd[p].sid] # "cleaning"
    /\ Cleaning(p) => session[cmd[p].sid] = "cleaning"
    /\ Visiting(p) => \A i \in cmd[p].work : i \in RowsOf(cmd[p].sid) /\ ~rows[i].cleaned
    /\ cmd[p].pc \in {"delete", "mark"} =>
         Current(p) \in cmd[p].work /\ rows[Current(p)].key = cmd[p].cur

\* The command that cleaned s has died: no command touches s any more, since
\* cleanup refuses the status and execute is not run again.
Stuck(s) == session[s] = "cleaning" /\ ~Serving(s)

StuckInv == \A s \in Sessions : Stuck(s) => crashes # 0

\* Status, rows and commands agree with one another.
SessionInv == RowsInv /\ LabelInv /\ StuckInv

-----------------------------------------------------------------------------
(* When HEAD is right and a DELETE that raises was not carried out.        *)

\* A row whose object cleanup has still to delete.
Live(i) ==
  /\ ~rows[i].cleaned /\ ~Stuck(rows[i].session)
  /\ \A p \in Operators : At(p, "mark") => i # Current(p)

Uploaded(s, a, k) == obs[k] = ContentIn(a, k) /\ putBy[k] = s

Holds(a) == Members[a] \cup {Manifest}

\* The live rows name different objects, each there as its session put it.
LiveRowsInv ==
  /\ \A i \in DOMAIN rows : Live(i) =>
       putBy[rows[i].key] = rows[i].session /\ obs[rows[i].key] = rows[i].etag
  /\ \A i, j \in DOMAIN rows :
       Live(i) /\ Live(j) /\ rows[i].key = rows[j].key => i = j

\* Between the HEAD of a key and its row, no live row has that key.
UploadingInv ==
  \A p \in Operators :
    /\ At(p, "put") => obs[cmd[p].cur] = "none"
    /\ At(p, "record") =>
         /\ Uploaded(cmd[p].sid, Opening(p), cmd[p].cur)
         /\ \A i \in DOMAIN rows : Live(i) => rows[i].key # cmd[p].cur

\* How many archives of its plan execute has uploaded whole.
Done(p) == Len(Plan[cmd[p].sid]) - Len(cmd[p].queue)

\* The queue is the rest of the plan; what is before it is in the bucket, and
\* so are the members of the open archive that are no longer to do.
ProgressInv ==
  \A p \in Operators : Executing(p) =>
    /\ Done(p) >= 0
    /\ \A n \in 1..Len(cmd[p].queue) : cmd[p].queue[n] = Plan[cmd[p].sid][Done(p) + n]
    /\ \A n \in 1..Done(p) : \A k \in Holds(Plan[cmd[p].sid][n]) :
         Uploaded(cmd[p].sid, Plan[cmd[p].sid][n], k)
    /\ ~At(p, "open") => \A k \in Holds(Opening(p)) :
         \/ k \in cmd[p].todo
         \/ At(p, "put") /\ k = cmd[p].cur
         \/ Uploaded(cmd[p].sid, Opening(p), k)

RestoredInv ==
  \A s \in Sessions : session[s] = "restored" =>
    \A n \in DOMAIN Plan[s] : \A k \in Holds(Plan[s][n]) : Uploaded(s, Plan[s][n], k)

\* What restore_objects says of the bucket while sessions are restored and
\* cleaned: it makes CleansOwnUploads and RestoredIsUsable inductive.
UploadInv == LiveRowsInv /\ UploadingInv /\ ProgressInv /\ RestoredInv

-----------------------------------------------------------------------------
(* When HEAD is right and a DELETE that says nothing was carried out.      *)

\* What a cleaned row named is gone, unless its session uploaded it again and
\* has a row for that upload, or is about to write one.
CleanedRowsInv ==
  \A i \in DOMAIN rows : rows[i].cleaned /\ putBy[rows[i].key] = rows[i].session =>
    \/ \E j \in RowsOf(rows[i].session) : rows[j].key = rows[i].key /\ ~rows[j].cleaned
    \/ \E p \in Operators : At(p, "record") /\ cmd[p].sid = rows[i].session
                                            /\ cmd[p].cur = rows[i].key

\* Cleanup has dealt with the rows it no longer has to visit.
VisitedInv ==
  \A p \in Operators :
    /\ At(p, "mark") => obs[cmd[p].cur] = "none"
    /\ Visiting(p) /\ ~cmd[p].failed =>
         \A i \in RowsOf(cmd[p].sid) : rows[i].cleaned \/ i \in cmd[p].work
    /\ Executing(p) /\ MaxExecutes <= 1 =>
         \A i \in RowsOf(cmd[p].sid) : ~rows[i].cleaned

CleanedInv ==
  \A s \in Sessions : session[s] = "cleaned" => \A i \in RowsOf(s) : rows[i].cleaned

\* What the mark of a row in cleaner.py 76-82 is worth: it makes
\* CleanedIsComplete inductive.
CleanInv == CleanedRowsInv /\ VisitedInv /\ CleanedInv
=============================================================================
