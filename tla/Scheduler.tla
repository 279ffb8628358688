----------------------------- MODULE Scheduler -----------------------------
(***************************************************************************)
(* weekly_archive_job, the unattended pipeline: scan everything, promote   *)
(* every discovered object, pack the pending weeks (--pack-all) or the     *)
(* week it is now.  One process runs the three phases in order, cron       *)
(* starts it again and again, and a failed week is logged and passed over. *)
(***************************************************************************)
EXTENDS ArchiveSystem

CONSTANTS
  Worker,      \* the process that runs the job
  PackAll,     \* the pack_all argument
  WeekOf       \* WeekOf[o]: the week that o's backup_date falls into

ASSUME SchedulerAssumption ==
  /\ Worker \in Scanners \cap Packers
  /\ PackAll \in BOOLEAN
  /\ WeekOf \in [Objects -> Jobs]

VARIABLES
  phase,       \* "off", "scan", "promote" or "pack"
  toScan,      \* the keys of the listing still to come
  toPack       \* the weeks still to pack

jobVars == <<phase, toScan, toPack>>
systemVars == vars
allVars == <<systemVars, jobVars>>

SchedulerTypeOK ==
  /\ TypeOK
  /\ phase \in {"off", "scan", "promote", "pack"}
  /\ toScan \subseteq Objects
  /\ toPack \subseteq Jobs

SchedulerInit == Init /\ phase = "off" /\ toScan = {} /\ toPack = {}

WorkerIdle == pc[Worker] = "idle"

StartJob ==
  /\ phase = "off"
  /\ phase' = "scan"
  /\ toScan' = {o \in Objects : obs[o] # 0}
  /\ UNCHANGED <<systemVars, toPack>>

ScanPhase ==
  /\ phase = "scan"
  /\ \/ \E o \in toScan : ListObject(Worker, o) /\ toScan' = toScan \ {o}
     \/ ~WorkerIdle /\ ScannerStep(Worker) /\ UNCHANGED toScan
  /\ UNCHANGED <<image, expect, crashes, phase, toPack>>

\* Keys deleted since are no longer on the pages that remain.
EndScan ==
  /\ phase = "scan" /\ WorkerIdle
  /\ \A o \in toScan : obs[o] = 0
  /\ phase' = "promote" /\ toScan' = {}
  /\ UNCHANGED <<systemVars, toPack>>

PromotePhase ==
  /\ phase = "promote"
  /\ \/ PromoteList(Worker)
     \/ \E o \in Objects : PromoteWrite(Worker, o)
     \/ PromoteEnd(Worker)
  /\ UNCHANGED <<image, expect, crashes, jobVars>>

\* find_pending_weeks: the weeks some queued object is dated in.
PendingWeeks_mut ==
  {WeekOf[o] : o \in {x \in Objects : status[x] = "discovered"}}
PendingWeeks == {WeekOf[o] : o \in {x \in Objects : status[x] = "queued"}}

EndPromote ==
  /\ phase = "promote" /\ WorkerIdle
  /\ Discovered = {}
  /\ phase' = "pack"
  /\ IF PackAll THEN toPack' = PendingWeeks
                ELSE \E now \in Jobs : toPack' = {now}
  /\ UNCHANGED <<systemVars, toScan>>

PackPhase ==
  /\ phase = "pack"
  /\ \/ \E j \in toPack : BeginPack(Worker, j) /\ toPack' = toPack \ {j}
     \/ ~WorkerIdle /\ PackerStep(Worker) /\ UNCHANGED toPack
  /\ UNCHANGED <<seen, expect, crashes, phase, toScan>>

\* pack_weekly finds the row of the week there and returns it.
SkipWeek ==
  /\ phase = "pack" /\ WorkerIdle
  /\ \E j \in toPack : ~IsNew(j) /\ toPack' = toPack \ {j}
  /\ UNCHANGED <<systemVars, phase, toScan>>

EndJob ==
  /\ phase = "pack" /\ WorkerIdle /\ toPack = {}
  /\ phase' = "off"
  /\ UNCHANGED <<systemVars, toScan, toPack>>

\* The job is killed inside one of its commands or between two of them.
JobCrash ==
  /\ phase # "off"
  /\ \/ Crash(Worker)
     \/ /\ WorkerIdle /\ crashes < MaxCrashes
        /\ crashes' = crashes + 1
        /\ UNCHANGED <<storageVars, seen, image, expect>>
  /\ phase' = "off" /\ toScan' = {} /\ toPack' = {}

JobStep == \/ StartJob
           \/ ScanPhase \/ EndScan
           \/ PromotePhase \/ EndPromote
           \/ PackPhase \/ SkipWeek \/ EndJob

SchedulerNext ==
  \/ JobStep
  \/ JobCrash
  \/ /\ \/ \E o \in Objects : Write(o)
        \/ \E p \in Procs \ {Worker} : Reaping(p)
     /\ UNCHANGED jobVars

\* cron starts the job whenever the last one is over; a job once started runs.
SchedulerSpec ==
  SchedulerInit /\ [][SchedulerNext]_allVars /\ WF_allVars(JobStep)

-----------------------------------------------------------------------------

InTheArchives(o) == status[o] \in {"archived", "obs_deleted"}

\* README 41 and 586: whatever is queued, and the weeks it belongs to are
\* packed again and again, ends up archived.
QueuedIsArchived ==
  \A o \in {x \in Objects : Type[x] # "metadata"} :
    status[o] = "queued" ~> InTheArchives(o)

\* As long as no job is killed, what was uploaded before the first one is
\* archived: a job packs no week before it has promoted all that was there.
EarlyIsArchived ==
  [](crashes = 0) =>
    \A o \in {x \in Early : Type[x] # "metadata"} :
      status[o] = "queued" ~> InTheArchives(o)

\* A week with something queued gets its daily_archives row, however often
\* the job is killed on the way.
PendingWeekIsPacked ==
  \A o \in {x \in Objects : Type[x] # "metadata"} :
    status[o] = "queued" ~> rowJob[RowOf[WeekOf[o]]] # NoJob
=============================================================================
