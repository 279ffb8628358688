-------------------------- MODULE ArchiveInvariant --------------------------
(***************************************************************************)
(* Why what is attached is archived: the inductive invariant behind        *)
(* AttachedIsArchived and RowMatchesFile.  It follows the objects a packer *)
(* listed from the staging directory through the temporary file into the   *)
(* archive, and holds when no two packers are started on archives of the   *)
(* same row: nothing in the code enforces that, cron and the operator do.  *)
(***************************************************************************)
EXTENDS ArchiveSystem

Partitioned ==
  \A p, q \in Packers : p # q =>
    \A i \in JobsOf[p], j \in JobsOf[q] : RowOf[i] # RowOf[j]

\* From the idempotence check to the row: the archive is nobody else's.
Filling == {"list", "download", "record", "store", "replace", "copy",
            "digest", "upsert"}
InPack  == Filling \cup {"attach"}
OnObject == {"scanned", "accepted", "record", "delete", "mark"}

ControlOK(p) ==
  /\ pc[p] \in InPack => p \in Packers /\ job[p] \in Jobs
                         /\ job[p] \in JobsOf[p]
  /\ pc[p] \in OnObject => cur[p] \in Objects

\* A row names an archive of its own date.
RowsNameTheirArchive ==
  \A r \in Rows : rowJob[r] # NoJob => RowOf[rowJob[r]] = r

Unclaimed(p) == pc[p] \in Filling => rowJob[RowOf[job[p]]] = NoJob

Staged(p, S)   == \A o \in S : staging[job[p]][o] # 0
Imaged(p, S)   == \A o \in S : image[p][1][o] # 0
Stored(p, S)   == \A o \in S : archive[job[p]][o] # 0

\* What has become of the objects a packer listed.
Carried(p) ==
  /\ pc[p] \in {"download", "record"} => Staged(p, listed[p] \ todo[p])
  /\ pc[p] \in {"store", "copy"} => Staged(p, listed[p])
  /\ pc[p] = "replace" => Imaged(p, listed[p])
  /\ pc[p] = "copy" => Stored(p, listed[p] \ todo[p])
  /\ pc[p] \in {"digest", "upsert", "attach"} => Stored(p, listed[p])
  /\ pc[p] = "attach" => todo[p] \subseteq listed[p]

\* A packer that attaches holds the id of the row it wrote.
HoldsItsRow(p) ==
  pc[p] = "attach" => /\ rid[p] = RowOf[job[p]]
                      /\ rowJob[rid[p]] = job[p]

\* The inductive invariant: it makes AttachedIsArchived inductive.  From the
\* listing of the window to the last attach, each object the packer listed is
\* in the place the packer will read it from next.
CarriedIntoArchive ==
  /\ RowsNameTheirArchive
  /\ \A p \in Procs : Unclaimed(p) /\ Carried(p) /\ HoldsItsRow(p)

\* The digest a packer is about to record is the published archive's.
DigestIsFresh ==
  \A p \in Procs : pc[p] = "upsert" => image[p] = Digest(job[p])

\* A key with a row, or in the hands of a process, was uploaded once; one
\* whose row is to be marked is out of the bucket.  With it DeletedIsGone is
\* inductive.
Uploaded(S) == \A o \in S : lastVersion[o] # 0
KnownWasUploaded ==
  /\ \A o \in Objects : obs[o] # 0 => lastVersion[o] # 0
  /\ Uploaded({o \in Objects : status[o] # "absent"})
  /\ \A p \in Procs :
       /\ Uploaded(listed[p]) /\ Uploaded(todo[p])
       /\ pc[p] \in OnObject => Uploaded({cur[p]})
       /\ pc[p] = "mark" => obs[cur[p]] = 0
=============================================================================
