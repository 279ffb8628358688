# A TLA+ model of the GaussDB OBS archiver

The program moves GaussDB backups out of an OBS bucket into local archives and,
on demand, back. These modules model its own code (`src/*.py`, `main.py`,
`scheduler.py`) and the part of the vendored OBS SDK that every request goes
through (`obs/client.py`); line numbers below are of those files, "README n" is
the line of the repository's README.

## 1. The system

    GaussDB --writes--> OBS bucket <--LIST/HEAD/GET/PUT/DELETE-- commands
                                                             |
      scan -> (weekly job promotes) -> pack -> reap ... plan -> restore -> cleanup
                                                             |
                 SQLite catalog (WAL, autocommit)   work_dir   archive_dir

Every command is an operating-system process of its own, started by cron or by
an operator. Nothing stops two from running at once: no lock file, no lease; a
SQLite statement is its own transaction, and the catalog's UNIQUE constraints
are the only thing two processes meet at. A process may die between any two
statements, requests or file operations.

| Part | State it keeps | Operations | What is hard | Correct when |
|---|---|---|---|---|
| Catalog (`catalog.py`) | `backup_objects` (status, obs_etag, checksum, dates, daily_archive_id), `daily_archives`, `restore_sessions`, `restore_objects`, `pitr_chains` | single UPDATEs, upserts, queries | no UPDATE looks at the status it overwrites; `lastrowid` after an upsert; one instant kept as milliseconds, as ISO text and as a date | a status only moves forward; a row describes its file |
| Scanner (`scanner.py`) | none | list folder by folder, skip `obs_deleted`, upsert; rebuild the PITR chains | the page is older than the row it is written to; a scan that dies half-way | a rescan never changes what an archived row stands for |
| PITR chains (`scanner.py`, `catalog.py`) | `pitr_chains` | rebuild after a scan, look up by target | boundaries shared by two chains; comparison of texts | no gap, no diff twice; the last base before the target |
| Calendar, policy (`week_boundary.py`, `policy.py`) | none | week of a day, UTC windows, validation | what is pending and what is selected are computed from different columns | weeks do not overlap; a pending week selects its objects |
| Weekly job (`scheduler.py`, `storage_estimator.py`) | phase, weeks to pack | scan all, promote `discovered`, pack the pending weeks | killed anywhere and started again | whatever is queued ends up archived |
| Packer (`packer.py`) | staging directory, temporary tar, archive, `daily_archives` row | 10 steps: check, list, download, hash, manifest, store, hash, row, attach, clean up | the archive, its row and its attachments are written one after the other; two packers share a directory; overlapping windows | what is attached to a row is in the file the row names |
| Reaper (`reaper.py`) | none | gates, then HEAD, DELETE, mark for every object | rows read once; HEAD and DELETE apart; killed half-way | no content leaves the bucket that is in no recorded archive; full before diff before xlog |
| Restorer (`restorer.py`) | session, upload rows | plan; execute: verify an archive, HEAD, PUT, record | killed between PUT and record; keys that exist | a plan names every archive its target needs; never writes over a backup; a restored session is whole |
| Cleaner (`cleaner.py`) | session, upload rows | gates, HEAD, DELETE, mark | rows listed once; a DELETE that raises | deletes its own uploads and nothing else |
| OBS client (`obs_client.py`, `obs/client.py`) | none | list, GET, HEAD, PUT, DELETE over a retry loop | an attempt without an answer may have been carried out, or may be later; failures of HEAD and DELETE are hidden | retries end; what is acknowledged is there |
| Manifest, configuration, utilities | none | pure functions | | section 5 |

The parts interact through the catalog, the bucket and the two directories
only. The places where this can go wrong are the "hazards" of `PROJECT.json`,
each at its line and with the properties that watch it.

## 2. The modules

| Module | Models | Uses |
|---|---|---|
| `Storage` | the shared state: bucket, the two tables, `work_dir`, `archive_dir`, and where each process is | |
| `Scanner` | discovery and the promotion | `Storage` |
| `Packer` | `pack_weekly` and `pack_daily` | `Storage` |
| `Reaper` | `reap_daily_archive` | `Storage` |
| `ArchiveSystem` | any number of those processes, GaussDB, other clients of the bucket, crashes; the properties | the three above |
| `Custody` | abstract: what the archiver promises about contents | |
| `ArchiveInvariant` | the inductive invariant and its parts | `ArchiveSystem` |
| `ArchiveSystem_proofs` | theorems: types, what is attached is archived | `ArchiveInvariant`, TLAPS |
| `Checksum_proofs`, `Reaping_proofs`, `Deletion_proofs` | theorems: checksums of rows; what DELETE, the mark and the ETag gate may let go, the implementation of `Custody`; what obs_deleted means, the order of statuses and of the reap | `ArchiveSystem_proofs` |
| `Scheduler` | the weekly job, phase after phase, over `ArchiveSystem` | `ArchiveSystem` |
| `Scheduler_proofs` | theorems: what the system keeps, the job keeps; the job moves no status back beside reapers | `Scheduler`, `Reaping_proofs`, `Deletion_proofs`, `Checksum_proofs` |
| `Restoration` | `Restorer.execute`, `Cleaner.cleanup`, the reaper beside them | `Tenancy` |
| `Tenancy` | abstract: what restore and cleanup promise to those who share a bucket | |
| `RestorationInvariant` | the inductive invariants and their parts | `Restoration` |
| `Restoration_proofs` | theorems: every property of `Restoration`, the implementation of `Tenancy` | `RestorationInvariant`, TLAPS |
| `Calendar` | days, weeks, windows, the policy and its validation | |
| `Timeline` | the dates of a backup: scan folder by folder, chains, promotion, what the packers select, `plan` | `Calendar` |
| `Timeline_proofs` | theorems: types and every property of `Timeline` that holds | `Timeline`, TLAPS |
| `ObsService` | abstract: what a caller of the object store may rely on | |
| `ObsTransport` | `_RealObsClient` over the retry loop of the SDK, and the service that answers or does not | `ObsService` |
| `Transport_proofs` | theorems: types, bounded attempts, puts, the implementation of `ObsService` | `ObsTransport`, TLAPS |
| `MCArchiveSystem`, `MCScheduler`, `MCRestoration`, `MCTimeline`, `MCTransport` | the tables of the small instances | |

`ArchiveSystem` has the interleavings inside a pack and a reap and takes which
window selects which object as a constant; `Timeline` has the dates those
windows follow from and makes a pack or a reap one step. `Restoration` takes
the archives of a session as a constant, `Plan`; `Timeline` has the `plan` that
chooses them. `ObsTransport` has what becomes of one call on the bucket, which
is one step in the others.

### State and code

* `obs[o]` is the content under a key: 0 for none, v for the v-th content
  GaussDB wrote. ETag and SHA-256 are injective and so are version numbers too;
  an ETag is a function of the content. `lastVersion` keeps GaussDB from writing
  an earlier content again.
* `status`, `etag`, `checksum`, `daId` are columns of `backup_objects`;
  `rowJob[r]`, `rowSum[r]` are the `archive_filename` and `checksum_sha256` of a
  `daily_archives` row. There is one row per `archive_date`, so `RowOf` maps a
  job (a week, a day) to its row. The row's status is always `archived` and is
  left out, with gates 1 and the first half of 3 of the reaper, which it passes.
* `staging[j]`, `stagingDirs`, `archive[j]`, `meta[j]` are the files of job j.
  The staging directory carries the name of the archive, so two packers of one
  week share it. `meta` tells the metadata.json hashed from the one rewritten
  with the hash in it.
* `pc`, `job`, `rid`, `listed`, `todo`, `cur`, `seen`, `image`, `expect` are the
  local variables of a command: what it read earlier and will act on later.
* A step is one statement on the catalog, one request or one file operation,
  where another process can come between. `os.replace` is atomic; `rmtree` and
  `copytree` of a directory archive are one step per file.
* In `Restoration`, `putBy` records who uploaded what a key holds; the code
  keeps nothing of the kind. `cmd[p]` has the local variables of a command.
* In `Timeline` an instant is a number of hours and a date a number of days,
  UTC, counted from a Monday. `lm` is the LastModified of a key, `rowTime`,
  `rowDate` and `Stamp` are the columns `obs_last_modified`, `backup_date` and
  `backup_timestamp_ms`; `daId` names the archive by its `archive_date`, which
  weekly and daily archives share; a chain is its two times and the timestamps
  of its diffs. `pc` is the folder the scan lists next. `moved` and `indexed`
  are history: the objects whose row a rescan gave another time, and what the
  last rebuild of the chains read.
* In `ObsTransport` `flag` and `redirects` are the two counters of
  `_make_request_with_retry`; `call[p]` and `reply[p]` are what the adapter was
  asked and what it returned; `stray` counts abandoned attempts that may still
  reach the service. `tries`, `did`, `alone` and `steady` are history.

### Abstractions

* Which key is of which type, which week selects which objects, which sessions
  need which archives are CONSTANTS. The queries order by type and then by key;
  the order within a type is left open.
* GaussDB writes a key for the first time or over what is there; it does not
  write one again that was deleted. `ArchiveSystem` has no restores: what a
  restore puts back is only in `Restoration`, which starts from a packed archive.
  In `Timeline` a `Put` is either of them.
* `rmtree` and `mkdir` of a staging directory are one step (`ListWindow`). In
  the code a second packer can meet the directory half removed and fail with an
  exception; the model has the failures that follow, as `StagingLost`.
* In `Restoration` the catalog look-up and the HEAD of a gate are one step:
  `obs_deleted` is final, so the look-up could as well be made at the HEAD. The
  reaper there is what it does to an object, DELETE then mark, and is not
  killed. Members with policy `archive_only` are skipped by `execute` and are
  not in `Members`.
* In `ArchiveSystem`, `Restoration` and `Timeline` the bucket is that of the
  mock client the tests run on: a PUT, GET or DELETE that answers took place, a
  HEAD reports what is there, a listing lists, with its times. What the real
  client hides is in `Faults`: "head" (184-186: any exception is not_found) and
  "delete" (216-218: the status of the answer is not looked at); in
  `Restoration` also "reply", a DELETE that raises although it was carried out.
  A blank ETag in a HEAD, which gate 5 lets pass, is not modelled.
* In `Timeline` two backups of one instance have one timestamp only if they are
  of one directory or of two types. A scan records a folder in one step or,
  when it dies there, any part of it. The retention gate counts whole days.
* `ObsTransport` does not follow the location of a redirect or the waiting
  times between attempts, and has no signatures. A get with the vendored SDK
  ends in an exception, so no run asks for one. A list is done when it is answered
  2xx; that its body can be parsed is taken for granted.

## 3. What is checked

Eight runs must hold, four show a disagreement. Bounds are CONSTANTS:
`MaxVersion` contents per key, `MaxCrashes` processes that die in a behaviour,
`MaxExecutes` executions of a session; `Instants`, `MaxPuts`, `MaxScans` and
`MaxArchives` of `Timeline`; `MaxCalls` and `MaxStray` of `ObsTransport`.

| Run | Question and bounds | Shows |
|---|---|---|
| `seq` | One command at a time (one process that is scanner, packer and reaper), killed twice, rescans, faults of the client; a week, and a day in it stored as a directory. 380 698 states | `TypeOK`; `AttachedIsArchived`; `ReapOrder`: across refused and interrupted reaps a full goes before its diffs and these before xlogs; `StatusMovesForward` |
| `overwrite` | Two contents per key, written or deleted by others at any moment around pack and reap; one crash. 498 596 states | `ApprovedIsKept`: what the ETag gate approves is in a recorded archive, although the packer downloads whatever is there and the reaper opens no archive |
| `parallel` | Scanner/weekly packer, daily packer over an overlapping window and reaper at once; one crash, faults of the client. 1 009 554 states | `AttachedIsArchived`, `CarriedIntoArchive` (the invariant of the proof), `RowMatchesFile`, `DeleteIsSafe`, `DeletedIsKept`: what is marked obs_deleted is in a recorded archive, whatever the client hid; and that the system implements `Custody` (`KeepsCustody`) |
| `twins` | Two packers of one week, objects vanishing. 71 802 states | `CommandsEnd`: every command ends |
| `job` | The weekly job over two weeks, killed once, backups arriving at any time, beside a reaper, which may start while the job attaches. 143 337 states | `SchedulerTypeOK`; `DeletedIsGone`; `StatusMovesForward`; `PendingWeekIsPacked`; `EarlyIsArchived`; no deadlock |
| `restore` | Two sessions over archives that share an object, one of them maybe missing or damaged, restored and cleaned in any order, killed once, beside the reaper. 137 685 states | `TypeOK`, `BackupsUntouched`, `CleansOwnUploads`, `CleanedIsComplete`, `RestoredIsUsable`, the invariants of their proofs (`UploadInv`, `CleanInv`), and that restore and cleanup implement `Tenancy` (`KeepsTenancy`) |
| `timeline` | Two scans, two archives (weekly or daily) and their reaps around the midnight on which a week starts; backups arrive, an xlog is written twice, two policies. 1 736 798 states | `TypeOK`; `PendingIsSelected`; `CarriedOnce`; `ChainsCover`; `PlanUsesLatestBase`; `PlanCarriesWhatIsArchived` |
| `transport` | Two commands with a call each (put, delete, head) on one key, one retry, one redirect, one abandoned copy of each request. 476 031 states | `TypeOK`; `AttemptsBounded`; `SolePutIsThere`; the adapter implements `ObsService` (`KeepsPromise`); `CallsEnd` |
| `late_refresh` | a key written again is scanned again | refutes `ApprovedIsKept` |
| `lost_week` | the job killed once | refutes `QueuedIsArchived` |
| `listing` | a listing of two keys, one to a page | refutes `ListsEveryKey` |
| `beijing` | a target in Beijing time | refutes `PlanStartsBeforeTarget` |

Why the bounds are enough. The hazards are pairwise: a writer and a reader of
one row, one file or one key. Two rows with overlapping windows, three objects
of three types, and one process of each kind (two packers) give every pair;
one crash gives every cut of every command, and a second the crash of the
recovery. One content per key covers everything but overwriting, where a second
one is enough to make old and new differ. Two weeks are enough for the job to
leave one behind. In `timeline` the edges are what matters: the last hour of a
week, its first instant, which is also that of a base and of a diff, and the
next midnight are instants of the run; two bases make a closed chain and an
open one, two archives are a pair of one kind or of two, a second scan finds
what the first recorded, and what a third would find is no different. In
`transport` one retry and one redirect reach every branch of the loop, and
either limit before the other; a second command or an abandoned copy is all it
takes to write between an attempt and its answer. The instances are exhausted,
with no symmetry and no state constraint.

`CHECK_DEADLOCK FALSE`: when everything is archived and reaped and the bounds
are used up, nothing needs to happen. The weekly job never stops, and its runs
check for deadlock.

Each property of a run that holds is refuted when one of the definitions it
depends on is changed as a bug would change it (`*_mut`, listed in
`PROJECT.json`).

### Fairness

`FairSpec` of `ArchiveSystem` is weak fairness of the steps of a started
command, and `SchedulerSpec` weak fairness of the job's steps: the operating
system goes on scheduling a process that has not been killed, requests have
timeouts, and cron starts the job again. `FairSpec` of `ObsTransport` is weak
fairness of each caller's steps, the timeout of 60 seconds among them; the
service may stay silent for ever. Nothing is assumed of the environment
(writes, deletions, crashes) or of a command being started by an operator.

### Disagreements between code and documents

Four are recorded as findings in `PROJECT.json`, each with its run, the lines
and the sentence contradicted:

1. `late_refresh`. A rescan overwrites `obs_etag` of an archived row
   (`scanner.py` 244-246, `catalog.py` 348). The ETag gate then compares the new
   content with itself and deletes what no archive holds.
2. `lost_week`. Killed between row and attachments, a week counts as packed,
   and its objects are queued and its week pending for ever.
3. `listing`. The client pages by `isTruncated`, the SDK calls it
   `is_truncated`: a listing ends after its first page, without an error.
4. `beijing`. A target without an offset is taken as UTC, and the documents say
   Beijing time: the plan may rest on a base written after it.

Others were met and have no run; the constants in brackets reproduce them:

* The row is written before its objects are attached (`packer.py` 251-261),
  diffs first. A reap in between sees only diffs, passes and deletes them before
  the full. [`seq` with a scanner, a packer and a reaper: `ReapOrder`]
* After a reap was killed some objects are `obs_deleted`, and gate 2, which
  wants all of them archived, refuses every later one.
* A failed HEAD is not_found, on which the reaper marks the object deleted
  [`job` with `Faults` {"head"}: `DeletedIsGone`]; a refused DELETE is
  reported as success [with {"delete"}]. What is marked is in an archive all the
  same (`DeletedIsKept`, checked in `parallel` with both).
* With the SDK in `obs/` the failed HEAD is the rule: `GetResult.header` is a list
  (`obs/client.py` 947-957) and the client calls `.get` on it (`obs_client.py`
  178). Likewise the body stream of get_object reads None and raises, a common
  prefix is an object that cannot be sliced, an unparsable lastModified is
  replaced by the present moment, and a list answered with an HTTP error raises
  AttributeError. The tests use the mock client.
* A DELETE given up on may reach the service after the call returned and remove
  a content put there since. [`transport` without `alone` in `SolePutIsThere`]
* Each archive has a metadata.json, restored under that key; a restore of a
  second archive finds it and is aborted.
* `RowMatchesFile` fails for a directory archive: metadata.json is hashed and
  then rewritten (`packer.py` 415-419), and `pack-all-days` reports a checksum
  mismatch (`main.py` 213-219). [`seq`, with that invariant]
* Two packers of one week break `AttachedIsArchived` (a foreign `lastrowid`,
  `catalog.py` 541) and `RowMatchesFile`. [`twins`, with those invariants]
* `StatusMovesForward` fails with two processes: a packer sets back to archived
  what was reaped through another archive, a promotion sets back to queued what
  was packed. [`parallel`, with that property] The weekly job beside a reaper
  does not, unless two of its weeks share an object. [`job`, with an object added
  to the second week of `TwoWeeksWindow`]
* Objects uploaded after their week was packed are queued for ever. [`lost_week`,
  with `MaxCrashes` 0 and `Early` {f, m}]
* `CleansOwnUploads`: gate 3 reads a column that is always 1 and names no
  session (`cleaner.py:6`, `catalog.py:170`), gate 5 compares contents. A row
  left uncleaned lets a later cleanup delete the identical object another
  session restored since. [`restore` with `Faults` {"reply"}, or with two
  operators, whose HEAD and PUT also interleave] A session executed a second
  time after a crash may also be taken for cleaned when it is not. [`restore`
  with `MaxExecutes` 2]
* README 1363 has a dependency gate (one `parent_backup_dir`, all archived)
  that `reaper.py` lacks; README 1372 and 1375 have the cleaner demand a
  restored session and check all rows before it deletes any, and it does not.
* Weekly and daily archives share `UNIQUE(instance_id, archive_date)`: after
  pack-daily of the first day of a week, pack-weekly of that week returns the
  daily archive as its own, and the rest of the week is packed by neither.
* A rescan gives an xlog a new `obs_last_modified` and leaves `backup_date`: the
  week then pending is not the week whose window selects it. [`timeline` with
  `PendingIsSelected` for all of `Objects`]
* `week_start_day` edited after weeks were packed: weeks overlap, and an object
  is in two weekly archives. [`timeline` with a policy of another start day:
  `CarriedOnce`]
* restore-plan calls `plan` with its defaults (`main.py` 263): the instance's
  `xlog_forward_hours` is ignored. What is in no archive yet is passed over by
  the plan without a word.
* Without `--pack-all` the job packs the week of the local date
  (`scheduler.py`), while windows are UTC.

## 4. What is proved

The theorems hold for every set of objects, jobs, rows and processes, every
table and every bound that satisfies the named assumptions of the modules (they
give the constants their types; `TimelineAssumption` also dates the backups that
are there from the start no later than the start), and whatever else is named here.

The pipeline (`ArchiveSystem`):

* `TypeCorrect`: `Spec => []TypeOK`. `TypeOK` is not inductive: a packer writes
  into `archive[job[p]]`, which has a type only when `job[p]` is a job. `TypeInv`
  adds `ControlOK`, which ties what a process holds to where it is.
* `AttachedIsAlwaysArchived`: `Spec => []AttachedIsArchived`, assuming
  `Partitioned`: no two packers may be started on archives of one row. The code
  does not enforce this; without it the property is false (section 3).
* `ListedIsAlwaysCarried`: `Spec => []CarriedIntoArchive`, likewise.
* `RowAlwaysMatchesFile`: `Spec => []RowMatchesFile`, assuming `Partitioned` and
  `Compressed = Jobs`. Both are needed (section 3).
* `DeleteIsAlwaysSafe`: `Spec => []DeleteIsSafe`, assuming `Partitioned` and
  `MaxVersion = 1`.
* `SystemKeepsCustody`: `Spec => KeepsCustody`, that is, the system implements
  `Custody`, assuming `Partitioned`, `MaxVersion = 1` and `ExternalDelete = FALSE`.
* `ApprovedIsAlwaysKept`: `Spec => []ApprovedIsKept`, with any number of contents
  per key, assuming `Partitioned` and `ScannedOnce` (one scanner, no rescans;
  `late_refresh` shows what a second scan does).
* `ApprovedOnceWrittenIsKept`: the same for any number of scanners and rescans,
  assuming `Partitioned` and `MaxVersion = 1`: it takes the rescan and the second
  content together to mislead the gate.
* `DeletedIsAlwaysGone`: `Spec => []DeletedIsGone`, assuming `Faults = {}`.
* `DeletedIsAlwaysKept`: `Spec => []DeletedIsKept`, assuming `Partitioned` and
  nothing of the client, of other clients or of the number of contents.
* `StatusAlwaysMovesForward`: `Spec => StatusMovesForward` and `ReapAlwaysInOrder`:
  `Spec => []ReapOrder`, assuming `OneAtATime`: there is one process, which runs
  one command after another (section 3 has two at once).

`AttachedIsArchived` speaks of attached objects only. The strengthening,
`CarriedIntoArchive`, follows what a packer listed: downloaded objects are in
the staging directory, then in the temporary tar (or, file by file, in the
directory), then in the archive, until each is attached; while it fills the
archive, the job's row is not there; and when it attaches, the id it holds is
its own row's. Three kinds of step keep it:

* steps `Outside` (scanning, promoting, reaping, the environment, a crash)
  change no file, row or attachment and no packer's variables, except that they
  may let a process go idle (`OutsideKeeps`);
* steps `Inside` a packer's own job change that job's files only; by
  `Partitioned` no other packer is on them, and no row names an archive that is
  being filled (`InsideKeeps`, `UnclaimedKeeps`);
* each action of the packer hands its objects from one place to the next
  (`PackingKeeps`, one step per action).

The others build on this invariant. For the checksum it is enough that no
process but the one that fills an archive touches it, and that a row of a
filling archive is not there; what is added is `DigestIsFresh`, the digest in
the hands of a packer. A DELETE is safe because the reaper visits objects it
read as attached (`VisitsAttached`), an attachment is changed but never dropped
(`AttachmentsStay`), and an attached object is archived. For the same reason what
is marked is in an archive (`DeletedAttached`).

Nothing is kept but by the step that writes a row (`RecordingKept`,
`PackingKeptSame`, `OthersKeptSame`), and nothing kept is lost (`KeptStays`), so
that step is `Custody`'s `Record`, a DELETE its `Release`, an upload its `Write`,
and all others stutter. `Record` takes contents that are in the bucket; those a
reaper has removed since the download are already kept, which is `HeldOrKept`.
The ETag gate compares the row with the bucket and never looks at the archive;
that its approval is about the archived content is `GateInv`: a copy is at least
as new as the scan its row comes from (`Fresh`) and no newer than what GaussDB
wrote, and the bucket holds the newest or nothing (`RowsLag`). When the bucket
has the ETag of the row, there is no room between the two (`ApprovalIsKept`).

An object that is
marked stays out of the bucket because GaussDB adds to a key it uploaded only
while the key is there (`KnownWasUploaded`).

With one command at a time, what a command holds has the status it read
(`ReadIsCurrent`), so no UPDATE overwrites a later one. For the order of the reap,
`OrderKept` says of the reaper that every object of its row is still to be visited
or deleted, and that it is at one of the lowest type; and of a packer that nothing
of the row it attaches to is deleted, because that row was not there when the pack
began, and nothing is attached to a row that is not there.

The weekly job (`Scheduler`): a step of the job, or beside it, is a step of
`ArchiveSystem` or kills the job between two commands, which only counts
(`JobRunsTheSystem`). So the invariants carry over, over any number of weeks, runs
and kills:

* `JobTypeCorrect`: `SchedulerSpec => []SchedulerTypeOK`.
* `JobRevivesNothing`: `[]DeletedIsGone`, assuming `Faults = {}`.
* `JobArchivesWhatItAttaches`, `JobCarriesWhatItLists`, `JobKeepsTheDeleted`:
  `[]AttachedIsArchived`, `[]CarriedIntoArchive` and `[]DeletedIsKept`, assuming
  `OnePacker`, that the job is the only packer.
* `JobRowsMatchFiles`: `[]RowMatchesFile`, also assuming `Compressed = Jobs`, which
  holds of weekly archives.
* `ReapBesideJobIsSafe`, `GateBesideJobIsSound`: `[]DeleteIsSafe` and
  `[]ApprovedIsKept`, assuming `OnePacker` and `MaxVersion = 1`. The job rescans
  everything on every run, so `ApprovedIsAlwaysKept` says nothing of it.
* `JobKeepsCustody`: `SchedulerSpec => KeepsCustody`, also assuming
  `ExternalDelete = FALSE`: the unattended pipeline implements `Custody`.
* `JobMovesStatusForward`: `SchedulerSpec => StatusMovesForward` beside any number
  of reapers, assuming `OnePacker` and `WeeksApart`, that no two weeks share an
  object (of weeks of one start day `CarriedAlwaysOnce` proves it for every object
  no rescan moved). This one does not carry over: it is false of two processes in
  general. The invariant is `HandsInv`: what is archived or deleted is attached,
  to the row of the week it belongs to; so a week whose row is not there selects
  nothing that is attached (`SelectedIsUnattached`), and while the job promotes,
  packs and attaches, a reaper, which only touches what is attached, has its
  hands on something else.

The dates (`Timeline`), all of what its run checks:

* `TimelineTypeCorrect`, `PendingIsAlwaysSelected`, `ChainsAlwaysCover`,
  `PlanAlwaysUsesLatestBase`, `PlanAlwaysCarriesWhatIsArchived`: no further
  assumption. The invariant is `TimelineInv`: the date and time columns of a row
  no rescan moved agree with each other (`RowInv`); an attached object is
  recorded, and a member of the archive it is attached to (`AttachInv`); the chains
  are those of the rows in `indexed` (`ChainInv`). The rest is arithmetic of days
  and weeks (`DayHolds`, `WeekHolds`, `WeeksApart`) and of the next and the last
  base in a set of timestamps (`EndIsNext`, `GreatestBelow`).
* `CarriedAlwaysOnce`: `Spec => []CarriedOnce`, assuming that all policies have
  one `weekStartDay`. An edited one refutes it (section 3). The invariant is
  `CarriedInv`: the members of an archive lie in its window by the time the row
  has now, unless a rescan moved it.

The object store (`ObsTransport`):

* `TransportTypeCorrect`, `AttemptsAlwaysBounded`: the attempts of a call are tied
  to the two counters (`WireInv`): while a request is under way, `flag` and the
  redirects together count what was made.
* `SolePutIsAlwaysThere`: as long as a call is `alone`, whatever was served of it
  carries its own content, so every effect is the same one (`PutAgain`).
* `AdapterKeepsPromise`: `Spec => Service!Spec`. The mapping is the identity but
  for `late`, the requests with an abandoned attempt: a served attempt is an
  `Effect`, a lost one `Abandon`, a stray one `LateEffect`, all others stutter.

Restore and cleanup (`Restoration`):

* `RestorationTypeCorrect`: with `CmdInv`, which gives the local variables of a
  command their types where it is.
* `BackupsAlwaysUntouched`: `Spec => []BackupsUntouched` for any number of
  operators at once, assuming `"head" \notin Faults`. A key about to be put was
  found empty, and what GaussDB wrote and the bucket still holds is never empty;
  a key about to be deleted is one the reaper is through with, or the
  metadata.json GaussDB never writes (`BackupInv`).
* `SessionsAgree`: `Spec => []SessionInv` for one operator (`OneOperator`), under any
  faults: status, rows and the command at work agree.
* `UploadsKept`, `OnlyOwnUploadsDeleted`, `RestoredStaysUsable`: `[]UploadInv`,
  `[]CleansOwnUploads`, `[]RestoredIsUsable`, assuming `OneOperator`,
  `NoLateExecute` (no command dies, or no session is executed twice) and
  `Faults \subseteq {"delete"}`.
* `RowsAccountedFor`, `CleanedLeavesNothing`: `[]CleanInv` and
  `[]CleanedIsComplete`, assuming `OneOperator`, `NoLateExecute` and
  `Faults \subseteq {"reply"}`.
* `RestoreImplementsTenancy`: `Spec => KeepsTenancy`, assuming what `UploadsKept`
  does. The mapping is direct: `putBy` is the owner, `session` the phase. A PUT is
  a `MoveIn` because the key was found empty and one command runs at a time, a
  DELETE a `MoveOut` because what it deletes is the session's own, the end of
  execute a `Complete` because the whole plan is uploaded by then.

The code decides what to delete by a HEAD, an ETag, a status and a row, and none of
them names an owner. `UploadInv` says why that is enough: the rows cleanup has
still to visit (`Live`) name different keys, each holding what their session put
there (`LiveRowsInv`). A new row keeps that because `execute` puts only where HEAD
found nothing, and where a live row points there is something. A row stops being
live when its object is deleted and when the command that cleans its session
dies: no command touches that session again (`Stuck`), and its rows may dangle.
`ProgressInv` ties the queue of `execute` to the plan: what is before it is
uploaded, whole; so at the end all of the plan is (`RestoredInv`). `CleanInv` says
of a cleanup without a failure that every row is cleaned or still to visit, and
that what a cleaned row named is gone.

None of the assumptions can be dropped. TLC refutes `CleansOwnUploads`,
`RestoredIsUsable` and `CleanedIsComplete` in `restore` with `Faults` {"head"},
with two operators, and with `MaxExecutes` 2 (executed again after the command
that cleaned it died, a session comes back with rows that dangle); the first two
also with {"reply"}, where a row outlives its object, and the third with
{"delete"}, where an object outlives its row. `OneOperator` is how the commands
are meant to be run; nothing in the code enforces it.

Model-checked only: the liveness properties (`CommandsEnd`, `EarlyIsArchived`,
`PendingWeekIsPacked`, `CallsEnd`; the prover has no rules for fairness or
ENABLED). Every safety property and every action property of a run that holds is
proved. `KeepsCustody` and `DeleteIsSafe` are claimed with one content per key:
HEAD and DELETE are two requests, and a content written in between is lost
whatever the reaper does.

## 5. What is not modelled

* Parsing of keys, configuration and arguments, confirmation prompts, logs, the
  operation log, sizes and estimates, the rendering of manifest.json and
  metadata.json: pure functions or output that nothing reads back to decide on.
  What the configuration can change between two commands is `Configure`.
* `check_runtime_consistency` (`policy.py`) writes warnings nothing acts on.
* `plan_snapshot_restore`: one query for the archives of one snapshot directory.
* Of the vendored tree, `ObsTransport` has the retry loop and what a status is
  turned into. The rest (other SDK calls, signing, XML conversion, `urllib3`,
  `requests`, `idna`, `charset_normalizer`, `certifi`, `crcmod`) is third-party
  code and tables, which make up nearly all of the lines under `src/` and of
  which the archiver calls little or nothing. Every file of its own that keeps
  or changes state is modelled.

They are listed with reasons in `PROJECT.json`.

What is left to do: a `ReapOrder` for a reaper beside the weekly job, which is
false while the job attaches and may hold of rows that were complete when the reap
began; and, for two operators, what remains of `UploadInv` when their sessions
need different keys.
