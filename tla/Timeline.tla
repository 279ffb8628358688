------------------------------ MODULE Timeline ------------------------------
(***************************************************************************)
(* The times of a backup, from the scan that records it to the plan that   *)
(* restores it.  A full, a diff or a snapshot is dated by the timestamp in *)
(* its directory's name, an xlog by its LastModified; the scanner derives  *)
(* backup_date from them once, the packers select by windows of them, and  *)
(* after every scan the PITR chains are rebuilt from them.                 *)
(*                                                                         *)
(* A scan goes folder by folder while GaussDB writes, time passes and the  *)
(* other commands run; here those are one step each (Packer and Reaper     *)
(* interleave their insides).  A plan changes nothing another command      *)
(* reads, so it is an operator, and its properties hold for a plan made in *)
(* any state.                                                              *)
(***************************************************************************)
EXTENDS Calendar, FiniteSets

CONSTANTS
  Objects,      \* the OBS keys of the instance
  Folder,       \* Folder[o]: the part of the bucket o lies in
  Type,         \* Type[o]: the backup_type _classify_top_level derives
  Stamp,        \* Stamp[o]: the timestamp in its directory's name
  Instants,     \* bound: the instants at which something happens
  Policies,     \* the policies the configuration file may hold
  ForwardHours, \* plan's xlog_forward_hours, which restore-plan leaves at 6
  Early,        \* the keys that are there when the archiver first runs
  MaxPuts,      \* bound: MaxPuts[o] is how often o is written
  MaxScans,     \* bound: how many scans are started
  MaxArchives,  \* bound: how many archives are made
  Never, NoRow, Open

Folders     == {"Db", "Snapshot", "Difference", "Log", "root"}
Types       == {"full", "snapshot", "diff", "xlog", "metadata"}
InDirectory == {"full", "snapshot", "diff"}
TypesIn(f)  == CASE f = "Db" -> {"full"} [] f = "Snapshot" -> {"snapshot"}
                 [] f = "Difference" -> {"diff"} [] f = "root" -> {"metadata"}
                 [] f = "Log" -> {"xlog", "metadata"}

ASSUME TimelineAssumption ==
  /\ Folder \in [Objects -> Folders]
  /\ \A o \in Objects : Type[o] \in TypesIn(Folder[o])
  /\ Stamp \in [Objects -> Nat]
  /\ Instants \subseteq Nat
  /\ \A o \in Early, t \in Instants : Type[o] \in InDirectory => Stamp[o] <= t
  /\ Policies \subseteq PolicyShape
  /\ ForwardHours \in Nat /\ Early \subseteq Objects /\ MaxPuts \in [Objects -> Nat]
  /\ MaxScans \in Nat /\ MaxArchives \in Nat
  /\ Never \notin Nat /\ NoRow \notin Int /\ Open \notin Nat

VARIABLES
  now,
  policy,    \* the configuration every command is started with
  lm,        \* lm[o]: LastModified of o in the bucket (Never: not there)
  puts,      \* puts[o]: how often o was written
  status,    \* backup_objects.status ("absent": no row)
  rowTime,   \* backup_objects.obs_last_modified
  rowDate,   \* backup_objects.backup_date
  daId,      \* backup_objects.daily_archive_id, as that row's archive_date
  archives,  \* daily_archives, at most one per archive_date
  chains,    \* pitr_chains
  pc,        \* the folder the scan lists next, "rebuild", or "idle"
  asOf,      \* scan_instance's `now`
  scans,     \* how many scans were started
  moved,     \* history: the objects whose row a rescan gave another time
  indexed    \* history: the objects whose rows the last rebuild read

catalogVars == <<status, rowTime, rowDate, daId, archives>>
scanVars    == <<pc, asOf, scans>>
worldVars   == <<now, policy, lm, puts>>
vars == <<worldVars, catalogVars, chains, scanVars, moved, indexed>>

Recorded == {o \in Objects : status[o] # "absent"}
ChainShape == [base : Nat, end : Nat \cup {Open}, diffs : SUBSET Nat]
ArchiveShape == [date : Int, kind : {"weekly", "daily"}, members : SUBSET Objects]

TypeOK ==
  /\ now \in Nat
  /\ policy \in {p \in Policies : ValidPolicy(p)}
  /\ lm \in [Objects -> Nat \cup {Never}]
  /\ puts \in [Objects -> Nat]
  /\ status \in [Objects -> {"absent", "discovered", "queued", "archived",
                             "obs_deleted"}]
  /\ rowTime \in [Objects -> Nat]
  /\ rowDate \in [Objects -> Nat]
  /\ daId \in [Objects -> Int \cup {NoRow}]
  /\ archives \subseteq ArchiveShape
  /\ chains \subseteq ChainShape
  /\ pc \in Folders \cup {"idle", "rebuild"}
  /\ asOf \in Nat /\ scans \in Nat
  /\ moved \subseteq Objects
  /\ indexed \subseteq Recorded

Init ==
  /\ now \in Instants
  /\ \A t \in Instants : now <= t
  /\ policy \in {p \in Policies : ValidPolicy(p)}
  /\ lm = [o \in Objects |-> IF o \in Early THEN now ELSE Never]
  /\ puts = [o \in Objects |-> IF o \in Early THEN 1 ELSE 0]
  /\ status = [o \in Objects |-> "absent"]
  /\ rowTime = [o \in Objects |-> 0]
  /\ rowDate = [o \in Objects |-> 0]
  /\ daId = [o \in Objects |-> NoRow]
  /\ archives = {} /\ chains = {}
  /\ pc = "idle" /\ asOf = 0 /\ scans = 0
  /\ moved = {} /\ indexed = {}

-----------------------------------------------------------------------------
(* The world                                                               *)

Tick ==
  /\ \E t \in Instants : t > now /\ now' = t
  /\ UNCHANGED <<policy, lm, puts, catalogVars, chains, scanVars, moved, indexed>>

\* GaussDB writes a file of a backup that has begun, or a restore puts one
\* back; OBS stamps it with the time of the write.
Put(o) ==
  /\ puts[o] < MaxPuts[o]
  /\ Type[o] \in InDirectory => Stamp[o] <= now
  /\ lm' = [lm EXCEPT ![o] = now]
  /\ puts' = [puts EXCEPT ![o] = @ + 1]
  /\ UNCHANGED <<now, policy, catalogVars, chains, scanVars, moved, indexed>>

\* An operator edits the configuration; every command validates it and writes
\* it to the catalog first.  A scan keeps the one it was started with.
Configure(p) ==
  /\ pc = "idle"
  /\ ValidPolicy(p)
  /\ policy' = p
  /\ UNCHANGED <<now, lm, puts, catalogVars, chains, scanVars, moved, indexed>>

-----------------------------------------------------------------------------
(* scan_instance                                                           *)

Covers(p, f) ==
  CASE f = "Db" -> p.full [] f = "Snapshot" -> p.snapshot
    [] f = "Difference" -> p.diff [] f = "Log" -> p.xlog [] f = "root" -> TRUE

\* The order of the folders, and the rebuild that ends the scan.
Rank == [idle |-> 0, Db |-> 1, Snapshot |-> 2, Difference |-> 3, Log |-> 4,
         root |-> 5, rebuild |-> 6]
Ahead(f) == {g \in Folders : Rank[f] < Rank[g] /\ Covers(policy, g)}

GoOn ==
  IF Ahead(pc) = {} THEN pc' = "rebuild"
  ELSE \E g \in Ahead(pc) : (\A h \in Ahead(pc) : Rank[g] <= Rank[h]) /\ pc' = g

ScanStart ==
  /\ pc = "idle" /\ scans < MaxScans
  /\ GoOn
  /\ asOf' = now /\ scans' = scans + 1
  /\ UNCHANGED <<worldVars, catalogVars, chains, moved, indexed>>

\* _passes_age: whole days since the last write, 0 for no gate.
Young(o) ==
  policy.retentionDays = 0 \/ (asOf - lm[o]) \div 24 <= policy.retentionDays

\* What the listing of folder f gives and the scan records: a row that is
\* obs_deleted is not touched.
Accepted(f) ==
  {o \in Objects : /\ Folder[o] = f /\ lm[o] # Never
                   /\ Young(o) /\ status[o] # "obs_deleted"}

\* _date_from_dir, or the day of LastModified where there is no directory.
DateOf_mut(o) == DayOf(IF Type[o] \in InDirectory THEN Stamp[o] + 8 ELSE lm[o])
DateOf(o) == DayOf(IF Type[o] \in InDirectory THEN Stamp[o] ELSE lm[o])

\* upsert_backup_object on each of S: a row that is there keeps its status and
\* its backup_date, and takes the LastModified of the listing.
Record(S) ==
  LET new == S \ Recorded IN
  /\ rowTime' = [o \in Objects |-> IF o \in S THEN lm[o] ELSE rowTime[o]]
  /\ status' = [o \in Objects |-> IF o \in new THEN "discovered" ELSE status[o]]
  /\ rowDate' = [o \in Objects |-> IF o \in new THEN DateOf(o) ELSE rowDate[o]]
  /\ moved' = moved \cup {o \in S \ new : rowTime[o] # lm[o]}

ScanFolder ==
  /\ pc \in Folders
  /\ Record(Accepted(pc))
  /\ GoOn
  /\ UNCHANGED <<worldVars, daId, archives, chains, asOf, scans, indexed>>

\* The scan dies, or a call of the OBS client raises: what it has recorded
\* stays, part of a folder too, and the chains stay as they were.
ScanDies ==
  /\ pc # "idle"
  /\ \E S \in SUBSET Accepted(pc) : Record(S)
  /\ pc' = "idle" /\ asOf' = 0
  /\ UNCHANGED <<worldVars, daId, archives, chains, scans, indexed>>

\* The directories of one type the catalog knows, whatever became of them.
Dirs(type) == {Stamp[o] : o \in {x \in Recorded : Type[x] = type}}

Least(S) == CHOOSE n \in S : \A m \in S : n <= m

EndOf(B, b) == IF \E n \in B : n > b THEN Least({n \in B : n > b}) ELSE Open

\* The diffs after base b, up to and including the moment the next one starts.
DiffsOf_mut(D, b, end) == {d \in D : b <= d /\ (end = Open \/ d <= end)}
DiffsOf(D, b, end) == {d \in D : b < d /\ (end = Open \/ d <= end)}

ChainsOf(B, D) ==
  {[base |-> b, end |-> EndOf(B, b), diffs |-> DiffsOf(D, b, EndOf(B, b))] : b \in B}

\* _rebuild_pitr_chains: nothing without a base, else one transaction.
Rebuild ==
  /\ pc = "rebuild"
  /\ IF Dirs("full") = {}
     THEN UNCHANGED <<chains, indexed>>
     ELSE /\ chains' = ChainsOf(Dirs("full"), Dirs("diff"))
          /\ indexed' = Recorded
  /\ pc' = "idle" /\ asOf' = 0
  /\ UNCHANGED <<worldVars, catalogVars, scans, moved>>

-----------------------------------------------------------------------------
(* The weekly job's promotion, the packers and the reaper                  *)

Promoted_mut(s) == IF s = "discovered" THEN "packed" ELSE s
Promoted(s) == IF s = "discovered" THEN "queued" ELSE s

Promote ==
  /\ \E o \in Objects : status[o] = "discovered"
  /\ status' = [o \in Objects |-> Promoted(status[o])]
  /\ UNCHANGED <<worldVars, rowTime, rowDate, daId, archives, chains, scanVars,
                 moved, indexed>>

Selectable(o) ==
  status[o] \notin {"absent", "obs_deleted"} /\ Type[o] # "metadata"

\* list_backup_objects_weekly
WeeklyWindow(ws) ==
  {o \in Objects : /\ Selectable(o)
                   /\ InWeek(IF Type[o] = "xlog" THEN rowTime[o] ELSE Stamp[o], ws)}

\* list_backup_objects_daily
DailyWindow(d) ==
  {o \in Objects : /\ Selectable(o)
                   /\ IF Type[o] = "xlog" THEN InDay(rowTime[o], d) ELSE rowDate[o] = d}

\* A row of that archive_date ends the command as a success, and an empty
\* window as an error; else its objects are carried and attached.
Pack(date, kind, members) ==
  /\ Cardinality(archives) < MaxArchives
  /\ \A a \in archives : a.date # date
  /\ members # {}
  /\ archives' = archives \cup {[date |-> date, kind |-> kind, members |-> members]}
  /\ status' = [o \in Objects |-> IF o \in members THEN "archived" ELSE status[o]]
  /\ daId' = [o \in Objects |-> IF o \in members THEN date ELSE daId[o]]
  /\ UNCHANGED <<worldVars, rowTime, rowDate, chains, scanVars, moved, indexed>>

\* pack-weekly is given any day of the week, pack-daily the day.
PackWeekly(d) ==
  LET ws == WeekStart(d, policy.weekStartDay) IN Pack(ws, "weekly", WeeklyWindow(ws))
PackDaily(d) == Pack(d, "daily", DailyWindow(d))

\* reap on one archive, every object of which passes its checks.
Reap(a) ==
  LET gone == {o \in Objects : daId[o] = a.date} IN
  /\ \E o \in gone : status[o] # "obs_deleted"
  /\ lm' = [o \in Objects |-> IF o \in gone THEN Never ELSE lm[o]]
  /\ status' = [o \in Objects |-> IF o \in gone THEN "obs_deleted" ELSE status[o]]
  /\ UNCHANGED <<now, policy, puts, rowTime, rowDate, daId, archives, chains,
                 scanVars, moved, indexed>>

Days == {DayOf(t) : t \in Instants}

Next ==
  \/ Tick \/ ScanStart \/ ScanFolder \/ ScanDies \/ Rebuild \/ Promote
  \/ \E o \in Objects : Put(o)
  \/ \E p \in Policies : Configure(p)
  \/ \E d \in Days : PackWeekly(d) \/ PackDaily(d)
  \/ \E a \in archives : Reap(a)

Spec == Init /\ [][Next]_vars

-----------------------------------------------------------------------------
(* Restorer.plan                                                           *)

\* find_pitr_chain_at compares text: the command line's target has no UTC
\* offset, and sorts before the text of the same instant with one.
Hits(t, aware) ==
  {c \in chains : /\ c.base < t \/ (aware /\ c.base = t)
                  /\ c.end = Open \/ c.end >= t}

\* The chain plan rests on, for an instance that can be restored to a moment:
\* ORDER BY chain_start_time DESC LIMIT 1.
ChainAt_mut(t, aware) ==
  {c \in Hits(t, aware) : PitrCapable(policy) /\ \A other \in Hits(t, aware) : c.base <= other.base}
ChainAt(t, aware) ==
  {c \in Hits(t, aware) : PitrCapable(policy) /\ \A other \in Hits(t, aware) : other.base <= c.base}

\* The objects whose archives the plan of target t on chain c requires.
Wanted_mut(c, t) ==
  {o \in Recorded :
     \/ Type[o] \in {"full", "diff"} /\ Stamp[o] \in {c.base} \cup c.diffs
     \/ Type[o] = "xlog" /\ c.base < rowTime[o] /\ rowTime[o] <= t + ForwardHours}
Wanted(c, t) ==
  {o \in Recorded :
     \/ Type[o] \in {"full", "diff"} /\ Stamp[o] \in {c.base} \cup c.diffs
     \/ Type[o] = "xlog" /\ c.base <= rowTime[o] /\ rowTime[o] <= t + ForwardHours}

\* Its required_daily_archives: an object that is in none is passed over.
PlanArchives(c, t) == {daId[o] : o \in {x \in Wanted(c, t) : daId[x] # NoRow}}

-----------------------------------------------------------------------------
(* Properties                                                              *)

\* What find_pending_weeks and find_pending_daily_dates derive from the date of
\* a queued object are the week and the day whose window selects it: the date
\* from a directory name, the timestamp in milliseconds and the LastModified
\* as text agree at midnight and at the end of a week, whatever the day weeks
\* start on.  Not so for an xlog a rescan gave another LastModified: its date
\* stays the old one.
PendingIsSelected ==
  \A o \in Objects \ moved :
    status[o] = "queued" /\ Type[o] # "metadata" =>
      /\ o \in WeeklyWindow(WeekStart(rowDate[o], policy.weekStartDay))
      /\ o \in DailyWindow(rowDate[o])

\* Weeks do not overlap and neither do days, however often they are packed, in
\* whatever order and by whichever command: two archives of one kind share no
\* object but an xlog a rescan gave another LastModified.
CarriedOnce ==
  \A a, b \in archives : a.kind = b.kind /\ a # b => a.members \cap b.members \subseteq moved

\* The chains leave no gap and share no diff: each ends where another begins,
\* but for one, which is open, and a diff the rebuild knew of is in exactly one
\* unless it is older than every base.
ChainsCover ==
  /\ \A c \in chains : c.end # Open => \E next \in chains : next.base = c.end
  /\ \A b, c \in chains : b.end = c.end => b = c
  /\ \A o \in indexed : Type[o] = "diff" =>
       LET holding == {c \in chains : Stamp[o] \in c.diffs} IN
       /\ \A b, c \in holding : b = c
       /\ (\E c \in chains : c.base < Stamp[o]) => holding # {}

\* restore-plan replays from the last base there is before the target: of the
\* fulls the last rebuild knew of, none lies between its base and the target.
\* It is the only chain that could be chosen, so the plan is determined.
PlanUsesLatestBase ==
  \A t \in Instants, aware \in BOOLEAN : \A c \in ChainAt(t, aware) :
    /\ ChainAt(t, aware) = {c}
    /\ \A o \in indexed :
         Type[o] = "full" /\ (Stamp[o] < t \/ (aware /\ Stamp[o] = t)) => Stamp[o] <= c.base

\* Every full, diff and xlog a target needs from its base on, once archived, is
\* a member of an archive the plan names, also when a reap has deleted it from
\* the bucket since and when weekly and daily archives carry it.
PlanCarriesWhatIsArchived ==
  \A t \in Instants, aware \in BOOLEAN : \A c \in ChainAt(t, aware) :
    \A o \in Objects :
      /\ daId[o] # NoRow
      /\ \/ Type[o] = "full" /\ Stamp[o] = c.base
         \/ Type[o] = "diff" /\ o \in indexed /\ c.base < Stamp[o] /\ Stamp[o] <= t
         \/ Type[o] = "xlog" /\ c.base <= rowTime[o] /\ rowTime[o] <= t
      => \E a \in archives : a.date \in PlanArchives(c, t) /\ o \in a.members

\* README.md:422 and :733: --target is Beijing time.  Read so, the base of the
\* plan is no later than the target; the code takes the text as UTC.
PlanStartsBeforeTarget ==
  \A t \in Instants : \A c \in ChainAt(t + 8, FALSE) : c.base <= t
=============================================================================
