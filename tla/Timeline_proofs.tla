-------------------------- MODULE Timeline_proofs --------------------------
(***************************************************************************)
(* Proofs about Timeline, for any objects, timestamps, instants and        *)
(* policies: its types, that a pending object is selected, that no archive *)
(* repeats another, and that plans rest on the right base.                 *)
(***************************************************************************)
EXTENDS Timeline, TLAPS, WellFoundedInduction

-----------------------------------------------------------------------------
(* The calendar                                                            *)

LEMMA DayHolds ==
  ASSUME NEW t \in Int
  PROVE  DayOf(t) \in Int /\ InDay(t, DayOf(t))
BY DEF DayOf, InDay, Midnight

LEMMA DayIsNat ==
  ASSUME NEW t \in Nat
  PROVE  DayOf(t) \in Nat
BY DEF DayOf

LEMMA WeekHolds ==
  ASSUME NEW t \in Int, NEW w \in 1..7
  PROVE  /\ WeekStart(DayOf(t), w) \in Int
         /\ InWeek(t, WeekStart(DayOf(t), w))
BY DEF DayOf, WeekStart, Weekday, InWeek, WeekEnd, Midnight

\* Two days that share an instant are one, and so are two weeks of one policy.
LEMMA DaysApart ==
  ASSUME NEW t \in Int, NEW d \in Int, NEW e \in Int, InDay(t, d), InDay(t, e)
  PROVE  d = e
BY DEF InDay, Midnight

LEMMA WeeksApart ==
  ASSUME NEW t \in Int, NEW d \in Int, NEW e \in Int, NEW w \in 1..7,
         InWeek(t, WeekStart(d, w)), InWeek(t, WeekStart(e, w))
  PROVE  WeekStart(d, w) = WeekStart(e, w)
BY DEF WeekStart, Weekday, InWeek, WeekEnd, Midnight

-----------------------------------------------------------------------------
(* Bases                                                                   *)

LEMMA LeastExists ==
  ASSUME NEW S \in SUBSET Nat, S # {}
  PROVE  /\ Least(S) \in S
         /\ \A m \in S : Least(S) <= m
<1>1. \E n \in S : \A m \in S : ~(<<m, n>> \in OpToRel(<, Nat))
  BY NatLessThanWellFounded, WFMin
<1>2. PICK n \in S : \A m \in S : ~(<<m, n>> \in OpToRel(<, Nat))
  BY <1>1
<1>3. ASSUME NEW m \in S PROVE n <= m
  <2>1. m \in Nat /\ n \in Nat
    OBVIOUS
  <2>2. ~(<<m, n>> \in OpToRel(<, Nat))
    BY <1>2
  <2>3. ~(m < n)
    BY <2>1, <2>2, Zenon DEF OpToRel
  <2> QED BY <2>1, <2>3
<1> QED BY <1>3 DEF Least

LEMMA GreatestBelow ==
  ASSUME NEW B \in SUBSET Nat, NEW s \in Nat, \E b \in B : b < s
  PROVE  \E b \in B : b < s /\ \A c \in B : c < s => c <= b
<1> DEFINE gaps == {n \in Nat : \E b \in B : b < s /\ n = s - b}
<1>1. gaps # {}
  <2>1. PICK b \in B : b < s
    OBVIOUS
  <2>2. s - b \in gaps
    BY <2>1
  <2> QED BY <2>2
<1>2. Least(gaps) \in gaps /\ \A m \in gaps : Least(gaps) <= m
  BY <1>1, LeastExists
<1>3. PICK b \in B : b < s /\ Least(gaps) = s - b
  BY <1>2
<1>4. ASSUME NEW c \in B, c < s PROVE c <= b
  <2>1. s - c \in gaps
    BY <1>4
  <2>2. s - b <= s - c
    BY <1>2, <1>3, <2>1
  <2> QED BY <2>2
<1> QED BY <1>3, <1>4

\* A chain ends at the next base, or at none.
LEMMA EndIsNext ==
  ASSUME Open \notin Nat, NEW B \in SUBSET Nat, NEW b \in B
  PROVE  \/ EndOf(B, b) = Open /\ \A n \in B : n <= b
         \/ /\ EndOf(B, b) \in B /\ b < EndOf(B, b)
            /\ \A n \in B : b < n => EndOf(B, b) <= n
<1>1. CASE \E n \in B : n > b
  <2>1. {n \in B : n > b} # {}
    BY <1>1
  <2>2. EndOf(B, b) = Least({n \in B : n > b})
    BY <1>1 DEF EndOf
  <2> QED BY <2>1, <2>2, LeastExists
<1>2. CASE ~\E n \in B : n > b
  BY <1>2 DEF EndOf
<1> QED BY <1>1, <1>2

-----------------------------------------------------------------------------
(* Types                                                                   *)

LEMMA RecordTypes ==
  ASSUME TimelineAssumption, TypeOK, NEW S \in SUBSET Objects, Record(S),
         \A o \in S : lm[o] # Never
  PROVE  /\ status' \in [Objects -> {"absent", "discovered", "queued", "archived",
                                     "obs_deleted"}]
         /\ rowTime' \in [Objects -> Nat]
         /\ rowDate' \in [Objects -> Nat]
         /\ moved' \in SUBSET Objects
         /\ Recorded \subseteq Recorded'
         /\ indexed \subseteq Recorded'
<1> USE DEF TimelineAssumption, TypeOK
<1>1. \A o \in S : lm[o] \in Nat
  OBVIOUS
<1>2. \A o \in S : DateOf(o) \in Nat
  BY <1>1, DayIsNat DEF DateOf
<1>3. S \ Recorded \subseteq S
  OBVIOUS
<1>4. rowTime' \in [Objects -> Nat]
  BY <1>1 DEF Record
<1>5. rowDate' \in [Objects -> Nat]
  BY <1>2, <1>3 DEF Record
<1>6. status' \in [Objects -> {"absent", "discovered", "queued", "archived",
                               "obs_deleted"}]
  BY DEF Record
<1>7. moved' \in SUBSET Objects
  BY DEF Record
<1>8. Recorded \subseteq Recorded'
  BY DEF Record, Recorded
<1> QED BY <1>4, <1>5, <1>6, <1>7, <1>8

LEMMA ChainsOfTypes ==
  ASSUME Open \notin Nat, NEW B \in SUBSET Nat, NEW D \in SUBSET Nat
  PROVE  ChainsOf(B, D) \subseteq ChainShape
<1>1. \A b \in B : EndOf(B, b) \in Nat \cup {Open}
  BY EndIsNext
<1>2. \A b \in B : DiffsOf(D, b, EndOf(B, b)) \in SUBSET Nat
  BY DEF DiffsOf
<1> QED BY <1>1, <1>2 DEF ChainsOf, ChainShape

LEMMA GoOnTypes ==
  ASSUME GoOn
  PROVE  pc' \in Folders \cup {"idle", "rebuild"}
BY DEF GoOn, Ahead

LEMMA WeekStartType ==
  ASSUME NEW d \in Int, NEW w \in 1..7
  PROVE  WeekStart(d, w) \in Int
BY DEF WeekStart, Weekday

LEMMA TypesHold ==
  ASSUME TimelineAssumption, TypeOK, [Next]_vars
  PROVE  TypeOK'
<1> USE DEF TimelineAssumption, TypeOK
<1>tick. CASE Tick
  BY <1>tick DEF Tick, catalogVars, scanVars, Recorded
<1>start. CASE ScanStart
  BY <1>start, GoOnTypes DEF ScanStart, catalogVars, worldVars, Recorded
<1>folder. CASE ScanFolder
  <2>1. Record(Accepted(pc)) /\ Accepted(pc) \in SUBSET Objects
        /\ \A o \in Accepted(pc) : lm[o] # Never
    BY <1>folder DEF ScanFolder, Accepted
  <2> QED BY <1>folder, <2>1, RecordTypes, GoOnTypes DEF ScanFolder, worldVars
<1>dies. CASE ScanDies
  <2>1. PICK S \in SUBSET Accepted(pc) : Record(S)
    BY <1>dies DEF ScanDies
  <2>2. S \in SUBSET Objects /\ \A o \in S : lm[o] # Never
    BY <2>1 DEF Accepted
  <2> QED BY <1>dies, <2>1, <2>2, RecordTypes DEF ScanDies, worldVars
<1>rebuild. CASE Rebuild
  <2>1. Dirs("full") \in SUBSET Nat /\ Dirs("diff") \in SUBSET Nat
    BY DEF Dirs, Recorded
  <2>2. chains' \subseteq ChainShape
    BY <1>rebuild, <2>1, ChainsOfTypes DEF Rebuild
  <2>3. Recorded' = Recorded
    BY <1>rebuild DEF Rebuild, catalogVars, Recorded
  <2>4. indexed' \subseteq Recorded'
    BY <1>rebuild, <2>3 DEF Rebuild
  <2> QED BY <1>rebuild, <2>2, <2>4 DEF Rebuild, worldVars, catalogVars
<1>promote. CASE Promote
  <2>1. status' \in [Objects -> {"absent", "discovered", "queued", "archived",
                                 "obs_deleted"}]
    BY <1>promote DEF Promote, Promoted
  <2>2. Recorded' = Recorded
    BY <1>promote DEF Promote, Promoted, Recorded
  <2> QED BY <1>promote, <2>1, <2>2 DEF Promote, worldVars, scanVars
<1>put. ASSUME NEW o \in Objects, Put(o) PROVE TypeOK'
  BY <1>put DEF Put, catalogVars, scanVars, Recorded
<1>configure. ASSUME NEW p \in Policies, Configure(p) PROVE TypeOK'
  BY <1>configure DEF Configure, catalogVars, scanVars, Recorded
<1>pack. ASSUME NEW date \in Int, NEW kind \in {"weekly", "daily"},
                NEW members \in SUBSET Objects, Pack(date, kind, members)
         PROVE  TypeOK'
  <2>1. archives' \subseteq ArchiveShape
    BY <1>pack DEF Pack, ArchiveShape
  <2>2. Recorded \subseteq Recorded'
    BY <1>pack DEF Pack, Recorded
  <2> QED BY <1>pack, <2>1, <2>2 DEF Pack, worldVars, scanVars
<1>weekly. ASSUME NEW d \in Days, PackWeekly(d) PROVE TypeOK'
  <2>1. d \in Int /\ policy.weekStartDay \in 1..7
    BY DayIsNat DEF Days, ValidPolicy
  <2>2. WeekStart(d, policy.weekStartDay) \in Int
    BY <2>1, WeekStartType
  <2> QED BY <1>weekly, <1>pack, <2>2 DEF PackWeekly, WeeklyWindow
<1>daily. ASSUME NEW d \in Days, PackDaily(d) PROVE TypeOK'
  <2>1. d \in Int
    BY DayIsNat DEF Days
  <2> QED BY <1>daily, <1>pack, <2>1 DEF PackDaily, DailyWindow
<1>reap. ASSUME NEW a \in archives, Reap(a) PROVE TypeOK'
  <2>1. Recorded \subseteq Recorded'
    BY <1>reap DEF Reap, Recorded
  <2> QED BY <1>reap, <2>1 DEF Reap, scanVars
<1>stutter. CASE UNCHANGED vars
  BY <1>stutter DEF vars, worldVars, catalogVars, scanVars, Recorded
<1> QED BY <1>tick, <1>start, <1>folder, <1>dies, <1>rebuild, <1>promote, <1>put,
           <1>configure, <1>weekly, <1>daily, <1>reap, <1>stutter DEF Next

\* Every variable of the timeline keeps its type, whatever the folders, the
\* timestamps, the policies and the instants are.
THEOREM TimelineTypeCorrect == Spec => []TypeOK
<1>1. Init => TypeOK
  BY TimelineAssumption DEF TimelineAssumption, Init, TypeOK, Recorded
<1>2. TypeOK /\ [Next]_vars => TypeOK'
  BY TypesHold, TimelineAssumption
<1> QED BY <1>1, <1>2, PTL DEF Spec

-----------------------------------------------------------------------------
(* What a row and a chain remember                                         *)

\* The date of a row is that of its directory, or of its LastModified as long
\* as no rescan gave it another one.
RowInv ==
  \A o \in Recorded :
    IF Type[o] \in InDirectory THEN rowDate[o] = DayOf(Stamp[o])
    ELSE o \notin moved => rowDate[o] = DayOf(rowTime[o])

\* An attached object is a member of the archive it is attached to.
AttachInv ==
  \A o \in Objects : daId[o] # NoRow =>
    o \in Recorded /\ \E a \in archives : a.date = daId[o] /\ o \in a.members

Known(type) == {Stamp[o] : o \in {x \in indexed : Type[x] = type}}

\* The chains are those of the objects the last rebuild read.
ChainInv == chains = ChainsOf(Known("full"), Known("diff"))

TimelineInv == TypeOK /\ RowInv /\ AttachInv /\ ChainInv

LEMMA RowsKept ==
  ASSUME TimelineAssumption, TypeOK, RowInv, NEW S \in SUBSET Objects, Record(S)
  PROVE  RowInv'
<1> SUFFICES ASSUME NEW o \in Recorded'
             PROVE  IF Type[o] \in InDirectory THEN rowDate'[o] = DayOf(Stamp[o])
                    ELSE o \notin moved' => rowDate'[o] = DayOf(rowTime'[o])
  BY DEF RowInv
<1> USE DEF TimelineAssumption, TypeOK
<1>1. o \in Objects
  BY DEF Recorded
<1>2. CASE o \in S \ Recorded
  <2>1. rowDate'[o] = DateOf(o) /\ rowTime'[o] = lm[o]
    BY <1>1, <1>2 DEF Record
  <2> QED BY <2>1 DEF DateOf
<1>3. CASE o \notin S \ Recorded
  <2>1. o \in Recorded
    BY <1>1, <1>3 DEF Record, Recorded
  <2>2. rowDate'[o] = rowDate[o]
    BY <1>1, <1>3 DEF Record
  <2>3. o \notin moved' => o \notin moved /\ rowTime'[o] = rowTime[o]
    BY <1>1, <1>3, <2>1 DEF Record
  <2> QED BY <2>1, <2>2, <2>3 DEF RowInv
<1> QED BY <1>2, <1>3

LEMMA RowInvHolds ==
  ASSUME TimelineAssumption, TypeOK, RowInv, AttachInv, [Next]_vars
  PROVE  RowInv'
<1>record. ASSUME NEW S \in SUBSET Objects, Record(S) PROVE RowInv'
  BY <1>record, RowsKept
<1>folder. CASE ScanFolder
  BY <1>folder, <1>record DEF ScanFolder, Accepted
<1>dies. CASE ScanDies
  BY <1>dies, <1>record DEF ScanDies, Accepted
<1>same. ASSUME rowTime' = rowTime, rowDate' = rowDate, moved' = moved,
                Recorded' \subseteq Recorded
         PROVE  RowInv'
  BY <1>same DEF RowInv
<1> USE DEF TimelineAssumption, TypeOK
<1>tick. CASE Tick
  BY <1>tick, <1>same DEF Tick, catalogVars, Recorded
<1>start. CASE ScanStart
  BY <1>start, <1>same DEF ScanStart, catalogVars, Recorded
<1>rebuild. CASE Rebuild
  BY <1>rebuild, <1>same DEF Rebuild, catalogVars, Recorded
<1>promote. CASE Promote
  BY <1>promote, <1>same DEF Promote, Promoted, Recorded
<1>put. ASSUME NEW o \in Objects, Put(o) PROVE RowInv'
  BY <1>put, <1>same DEF Put, catalogVars, Recorded
<1>configure. ASSUME NEW p \in Policies, Configure(p) PROVE RowInv'
  BY <1>configure, <1>same DEF Configure, catalogVars, Recorded
<1>pack. ASSUME NEW date, NEW kind, NEW members, \A o \in members : Selectable(o),
                Pack(date, kind, members)
         PROVE  RowInv'
  <2>1. Recorded' \subseteq Recorded
    BY <1>pack DEF Pack, Recorded, Selectable
  <2> QED BY <1>pack, <1>same, <2>1 DEF Pack
<1>weekly. ASSUME NEW d \in Days, PackWeekly(d) PROVE RowInv'
  BY <1>weekly, <1>pack DEF PackWeekly, WeeklyWindow
<1>daily. ASSUME NEW d \in Days, PackDaily(d) PROVE RowInv'
  BY <1>daily, <1>pack DEF PackDaily, DailyWindow
<1>reap. ASSUME NEW a \in archives, Reap(a) PROVE RowInv'
  <2>1. a.date # NoRow
    BY DEF ArchiveShape
  <2>2. Recorded' \subseteq Recorded
    BY <1>reap, <2>1 DEF Reap, Recorded, AttachInv
  <2> QED BY <1>reap, <1>same, <2>2 DEF Reap
<1>stutter. CASE UNCHANGED vars
  BY <1>stutter, <1>same DEF vars, catalogVars, Recorded
<1> QED BY <1>tick, <1>start, <1>folder, <1>dies, <1>rebuild, <1>promote, <1>put,
           <1>configure, <1>weekly, <1>daily, <1>reap, <1>stutter DEF Next

LEMMA AttachInvHolds ==
  ASSUME TimelineAssumption, TypeOK, AttachInv, [Next]_vars
  PROVE  AttachInv'
<1> USE DEF TimelineAssumption, TypeOK
<1>same. ASSUME daId' = daId, archives' = archives, Recorded \subseteq Recorded'
         PROVE  AttachInv'
  BY <1>same DEF AttachInv
<1>record. ASSUME NEW S \in SUBSET Objects, Record(S) PROVE Recorded \subseteq Recorded'
  BY <1>record DEF Record, Recorded
<1>tick. CASE Tick
  BY <1>tick, <1>same DEF Tick, catalogVars, Recorded
<1>start. CASE ScanStart
  BY <1>start, <1>same DEF ScanStart, catalogVars, Recorded
<1>folder. CASE ScanFolder
  BY <1>folder, <1>same, <1>record DEF ScanFolder, Accepted
<1>dies. CASE ScanDies
  BY <1>dies, <1>same, <1>record DEF ScanDies, Accepted
<1>rebuild. CASE Rebuild
  BY <1>rebuild, <1>same DEF Rebuild, catalogVars, Recorded
<1>promote. CASE Promote
  BY <1>promote, <1>same DEF Promote, Promoted, Recorded
<1>put. ASSUME NEW o \in Objects, Put(o) PROVE AttachInv'
  BY <1>put, <1>same DEF Put, catalogVars, Recorded
<1>configure. ASSUME NEW p \in Policies, Configure(p) PROVE AttachInv'
  BY <1>configure, <1>same DEF Configure, catalogVars, Recorded
<1>pack. ASSUME NEW date, NEW kind, NEW members \in SUBSET Objects,
                Pack(date, kind, members)
         PROVE  AttachInv'
  <2> DEFINE new == [date |-> date, kind |-> kind, members |-> members]
  <2>1. archives' = archives \cup {new} /\ Recorded \subseteq Recorded'
    BY <1>pack DEF Pack, Recorded
  <2>2. ASSUME NEW o \in Objects, daId'[o] # NoRow
        PROVE  o \in Recorded' /\ \E a \in archives' : a.date = daId'[o] /\ o \in a.members
    <3>1. CASE o \in members
      <4>1. o \in Recorded' /\ daId'[o] = date
        BY <1>pack, <3>1 DEF Pack, Recorded
      <4>2. new \in archives' /\ new.date = date /\ o \in new.members
        BY <2>1, <3>1
      <4> QED BY <4>1, <4>2
    <3>2. CASE o \notin members
      <4>1. daId'[o] = daId[o]
        BY <1>pack, <3>2 DEF Pack
      <4> QED BY <2>1, <2>2, <4>1 DEF AttachInv
    <3> QED BY <3>1, <3>2
  <2> QED BY <2>2 DEF AttachInv
<1>weekly. ASSUME NEW d \in Days, PackWeekly(d) PROVE AttachInv'
  BY <1>weekly, <1>pack DEF PackWeekly, WeeklyWindow
<1>daily. ASSUME NEW d \in Days, PackDaily(d) PROVE AttachInv'
  BY <1>daily, <1>pack DEF PackDaily, DailyWindow
<1>reap. ASSUME NEW a \in archives, Reap(a) PROVE AttachInv'
  <2>1. Recorded \subseteq Recorded'
    BY <1>reap DEF Reap, Recorded
  <2> QED BY <1>reap, <1>same, <2>1 DEF Reap
<1>stutter. CASE UNCHANGED vars
  BY <1>stutter, <1>same DEF vars, catalogVars, Recorded
<1> QED BY <1>tick, <1>start, <1>folder, <1>dies, <1>rebuild, <1>promote, <1>put,
           <1>configure, <1>weekly, <1>daily, <1>reap, <1>stutter DEF Next

LEMMA ChainInvHolds ==
  ASSUME ChainInv, [Next]_vars
  PROVE  ChainInv'
<1>same. ASSUME chains' = chains, indexed' = indexed PROVE ChainInv'
  BY <1>same DEF ChainInv, Known
<1>rebuild. CASE Rebuild
  <2>1. CASE Dirs("full") = {}
    BY <1>rebuild, <1>same, <2>1 DEF Rebuild
  <2>2. CASE Dirs("full") # {}
    <3>1. chains' = ChainsOf(Dirs("full"), Dirs("diff")) /\ indexed' = Recorded
      BY <1>rebuild, <2>2 DEF Rebuild
    <3>2. Known("full")' = Dirs("full") /\ Known("diff")' = Dirs("diff")
      BY <3>1 DEF Known, Dirs
    <3> QED BY <3>1, <3>2 DEF ChainInv
  <2> QED BY <2>1, <2>2
<1>other. ASSUME ~Rebuild PROVE chains' = chains /\ indexed' = indexed
  BY <1>other DEF Next, vars, Tick, ScanStart, ScanFolder, ScanDies, Promote, Put,
                  Configure, PackWeekly, PackDaily, Pack, Reap
<1> QED BY <1>same, <1>rebuild, <1>other

\* Rows, attachments and chains agree with one another at every step.
THEOREM TimelineInvariance == Spec => []TimelineInv
<1>1. Init => TimelineInv
  <2> SUFFICES ASSUME Init PROVE TimelineInv
    OBVIOUS
  <2>1. TypeOK
    BY TimelineAssumption DEF TimelineAssumption, Init, TypeOK, Recorded
  <2>2. RowInv
    BY DEF Init, RowInv, Recorded
  <2>3. AttachInv
    BY DEF Init, AttachInv
  <2>4. ChainInv
    BY DEF Init, ChainInv, ChainsOf, Known
  <2> QED BY <2>1, <2>2, <2>3, <2>4 DEF TimelineInv
<1>2. TimelineInv /\ [Next]_vars => TimelineInv'
  BY TimelineAssumption, TypesHold, RowInvHolds, AttachInvHolds, ChainInvHolds
     DEF TimelineInv
<1> QED BY <1>1, <1>2, PTL DEF Spec

-----------------------------------------------------------------------------
(* Selection                                                               *)

LEMMA SelectionFollows ==
  ASSUME TimelineAssumption, TypeOK, RowInv
  PROVE  PendingIsSelected
<1> SUFFICES ASSUME NEW o \in Objects \ moved, status[o] = "queued", Type[o] # "metadata"
             PROVE  /\ o \in WeeklyWindow(WeekStart(rowDate[o], policy.weekStartDay))
                    /\ o \in DailyWindow(rowDate[o])
  BY DEF PendingIsSelected
<1> DEFINE time == IF Type[o] = "xlog" THEN rowTime[o] ELSE Stamp[o]
<1>1. time \in Nat /\ policy.weekStartDay \in 1..7
  BY DEF TimelineAssumption, TypeOK, ValidPolicy
<1>2. Selectable(o) /\ o \in Recorded
  BY DEF Selectable, Recorded
<1>3. Type[o] = "xlog" \/ Type[o] \in InDirectory
  BY DEF TimelineAssumption, InDirectory, TypesIn, Folders
<1>4. rowDate[o] = DayOf(time)
  BY <1>2, <1>3 DEF RowInv, InDirectory
<1>5. InWeek(time, WeekStart(rowDate[o], policy.weekStartDay)) /\ InDay(time, rowDate[o])
  <2> HIDE DEF time
  <2>1. time \in Int
    BY <1>1
  <2>2. InWeek(time, WeekStart(DayOf(time), policy.weekStartDay))
    BY <1>1, <2>1, WeekHolds
  <2>3. InDay(time, DayOf(time))
    BY <2>1, DayHolds
  <2> QED BY <1>4, <2>2, <2>3
<1> QED BY <1>2, <1>5 DEF WeeklyWindow, DailyWindow

\* What is pending is selected by the archive of its week and of its day, for
\* any timestamps, policies and start days of the week.
THEOREM PendingIsAlwaysSelected == Spec => []PendingIsSelected
<1>1. TimelineInv => PendingIsSelected
  BY TimelineAssumption, SelectionFollows DEF TimelineInv
<1> QED BY <1>1, TimelineInvariance, PTL

-----------------------------------------------------------------------------
(* Chains                                                                  *)

LEMMA ChainParts ==
  ASSUME NEW B \in SUBSET Nat, NEW D \in SUBSET Nat, NEW c \in ChainsOf(B, D)
  PROVE  /\ c.base \in B /\ c.end = EndOf(B, c.base)
         /\ c.diffs = DiffsOf(D, c.base, c.end)
         /\ \A other \in ChainsOf(B, D) : other.base = c.base => other = c
BY DEF ChainsOf

LEMMA ChainOnBase ==
  ASSUME NEW B \in SUBSET Nat, NEW D \in SUBSET Nat, NEW b \in B
  PROVE  \E c \in ChainsOf(B, D) : c.base = b
<1> DEFINE c == [base |-> b, end |-> EndOf(B, b), diffs |-> DiffsOf(D, b, EndOf(B, b))]
<1>1. c \in ChainsOf(B, D)
  BY DEF ChainsOf
<1>2. c.base = b
  OBVIOUS
<1> QED BY <1>1, <1>2

\* A chain ends before the base of every later one, so two do not end together.
LEMMA ChainsApart ==
  ASSUME Open \notin Nat, NEW B \in SUBSET Nat, NEW D \in SUBSET Nat,
         NEW b \in ChainsOf(B, D), NEW c \in ChainsOf(B, D), b.base < c.base
  PROVE  b.end \in Nat /\ b.end <= c.base /\ b.end # c.end
<1>1. b.base \in B /\ c.base \in B /\ b.end = EndOf(B, b.base) /\ c.end = EndOf(B, c.base)
  BY ChainParts
<1> DEFINE m == b.base
           n == c.base
<1>2. m \in B /\ n \in B /\ m < n
  BY <1>1
<1>3. b.end = EndOf(B, m) /\ c.end = EndOf(B, n)
  BY <1>1
<1> HIDE DEF m, n
<1>4. m \in Nat /\ n \in Nat /\ ~(n <= m)
  BY <1>2
<1>5. EndOf(B, m) \in B /\ EndOf(B, m) <= n
  BY <1>2, <1>4, EndIsNext
<1>6. ASSUME EndOf(B, n) # Open PROVE EndOf(B, n) \in Nat /\ n < EndOf(B, n)
  <2>1. EndOf(B, n) \in B /\ n < EndOf(B, n)
    BY <1>2, <1>6, EndIsNext
  <2> QED BY <2>1
<1>7. EndOf(B, m) \in Nat /\ EndOf(B, m) # EndOf(B, n)
  <2> DEFINE e == EndOf(B, m)
             f == EndOf(B, n)
  <2>1. e \in Nat /\ e <= n /\ (f # Open => f \in Nat /\ n < f)
    BY <1>5, <1>6
  <2> HIDE DEF e, f
  <2>2. e # f
    BY <1>4, <2>1
  <2> QED BY <2>1, <2>2 DEF e, f
<1> QED BY <1>3, <1>5, <1>7 DEF n

LEMMA ChainsOfCover ==
  ASSUME Open \notin Nat, NEW B \in SUBSET Nat, NEW D \in SUBSET Nat
  PROVE  /\ \A c \in ChainsOf(B, D) :
              c.end # Open => \E next \in ChainsOf(B, D) : next.base = c.end
         /\ \A b, c \in ChainsOf(B, D) : b.end = c.end => b = c
         /\ \A s \in Nat : \A b, c \in ChainsOf(B, D) :
              s \in b.diffs /\ s \in c.diffs => b = c
         /\ \A s \in D : (\E c \in ChainsOf(B, D) : c.base < s) =>
              \E c \in ChainsOf(B, D) : s \in c.diffs
<1> DEFINE C == ChainsOf(B, D)
<1>1. ASSUME NEW c \in C, c.end # Open PROVE \E next \in C : next.base = c.end
  <2>1. c.base \in B /\ c.end = EndOf(B, c.base)
    BY ChainParts
  <2>2. c.end \in B
    BY <1>1, <2>1, EndIsNext
  <2> QED BY <2>2, ChainOnBase
<1>2. ASSUME NEW b \in C, NEW c \in C
      PROVE  b.base \in Nat /\ c.base \in Nat
             /\ (b = c \/ b.base < c.base \/ c.base < b.base)
  <2>1. b.base \in B /\ c.base \in B /\ (c.base = b.base => c = b)
    BY ChainParts
  <2>2. b.base \in Nat /\ c.base \in Nat
    BY <2>1
  <2>3. b.base = c.base \/ b.base < c.base \/ c.base < b.base
    BY <2>2
  <2> QED BY <2>1, <2>2, <2>3
<1>3. ASSUME NEW b \in C, NEW c \in C, b.end = c.end PROVE b = c
  BY <1>2, <1>3, ChainsApart
<1>4. ASSUME NEW s \in Nat, NEW b \in C, NEW c \in C, s \in b.diffs, s \in c.diffs
      PROVE  b = c
  <2>1. ASSUME NEW e \in C, s \in e.diffs PROVE e.base < s /\ (e.end = Open \/ s <= e.end)
    <3>1. e.diffs = DiffsOf(D, e.base, e.end)
      BY ChainParts
    <3> QED BY <2>1, <3>1 DEF DiffsOf
  <2>2. ASSUME NEW e \in C, NEW later \in C, s \in e.diffs, s \in later.diffs
        PROVE  ~(e.base < later.base)
    <3>1. SUFFICES ASSUME e.base < later.base PROVE FALSE
      OBVIOUS
    <3>2. e.end \in Nat /\ e.end <= later.base
      BY <3>1, ChainsApart
    <3>3. e.end # Open /\ s <= e.end /\ later.base < s /\ later.base \in Nat
      BY <1>2, <2>1, <2>2, <3>2
    <3> QED BY <3>2, <3>3
  <2>3. ~(b.base < c.base) /\ ~(c.base < b.base)
    BY <1>4, <2>2
  <2> QED BY <1>2, <2>3
<1>5. ASSUME NEW s \in D, \E c \in C : c.base < s
      PROVE  \E c \in C : s \in c.diffs
  <2>1. \E b \in B : b < s
    BY <1>5, ChainParts
  <2>2. PICK b \in B : b < s /\ \A n \in B : n < s => n <= b
    BY <2>1, GreatestBelow
  <2>3. PICK c \in C : c.base = b
    BY ChainOnBase
  <2>4. c.end = Open \/ s <= c.end
    <3>1. c.end = EndOf(B, b)
      BY <2>3, ChainParts
    <3>2. c.end # Open => c.end \in B /\ b < c.end
      BY <3>1, EndIsNext
    <3>3. ASSUME c.end # Open PROVE s <= c.end
      <4>1. c.end \in Nat /\ b \in Nat /\ s \in Nat /\ ~(c.end <= b)
        <5>1. c.end \in Nat /\ b \in Nat /\ s \in Nat
          BY <3>2, <3>3
        <5> QED BY <3>2, <3>3, <5>1
      <4>2. ~(c.end < s)
        BY <2>2, <3>2, <3>3, <4>1
      <4> QED BY <4>1, <4>2
    <3> QED BY <3>3
  <2>5. c.diffs = DiffsOf(D, b, c.end)
    BY <2>3, ChainParts
  <2> QED BY <2>2, <2>4, <2>5 DEF DiffsOf
<1> QED BY <1>1, <1>3, <1>4, <1>5

LEMMA KnownTypes ==
  ASSUME TimelineAssumption, TypeOK, NEW type
  PROVE  Known(type) \in SUBSET Nat
BY DEF TimelineAssumption, TypeOK, Known, Recorded

\* The chains leave no gap between bases and share no diff, however many fulls
\* and diffs there are.
THEOREM ChainsAlwaysCover == Spec => []ChainsCover
<1>1. ASSUME TimelineInv PROVE ChainsCover
  <2> DEFINE B == Known("full")
             D == Known("diff")
  <2>1. B \in SUBSET Nat /\ D \in SUBSET Nat /\ Open \notin Nat /\ chains = ChainsOf(B, D)
    BY <1>1, TimelineAssumption, KnownTypes DEF TimelineInv, TimelineAssumption, ChainInv
  <2>2. \A o \in indexed : Type[o] = "diff" => Stamp[o] \in D
    BY DEF Known
  <2> HIDE DEF B, D
  <2>3. \A c \in chains : c.end # Open => \E next \in chains : next.base = c.end
    BY <2>1, ChainsOfCover
  <2>4. \A b, c \in chains : b.end = c.end => b = c
    BY <2>1, ChainsOfCover
  <2>5. ASSUME NEW o \in indexed, Type[o] = "diff"
        PROVE  LET holding == {c \in chains : Stamp[o] \in c.diffs} IN
               /\ \A b, c \in holding : b = c
               /\ (\E c \in chains : c.base < Stamp[o]) => holding # {}
    <3>1. Stamp[o] \in D /\ Stamp[o] \in Nat
      BY <2>1, <2>2, <2>5
    <3>2. \A b, c \in chains : Stamp[o] \in b.diffs /\ Stamp[o] \in c.diffs => b = c
      BY <2>1, <3>1, ChainsOfCover
    <3>3. (\E c \in chains : c.base < Stamp[o]) => \E c \in chains : Stamp[o] \in c.diffs
      BY <2>1, <3>1, ChainsOfCover
    <3> QED BY <3>2, <3>3
  <2> QED BY <2>3, <2>4, <2>5 DEF ChainsCover
<1> QED BY <1>1, TimelineInvariance, PTL

-----------------------------------------------------------------------------
(* Plans                                                                   *)

\* No base lies between that of the plan and the target.
LEMMA LatestBase ==
  ASSUME Open \notin Nat, NEW B \in SUBSET Nat, NEW D \in SUBSET Nat,
         chains = ChainsOf(B, D), NEW t \in Nat, NEW aware \in BOOLEAN,
         NEW c \in ChainAt(t, aware), NEW s \in B, s < t \/ (aware /\ s = t)
  PROVE  s <= c.base
<1> SUFFICES ASSUME ~(s <= c.base) PROVE FALSE
  OBVIOUS
<1>1. c \in chains /\ c \in Hits(t, aware)
      /\ \A other \in Hits(t, aware) : other.base <= c.base
  BY DEF ChainAt, Hits
<1>2. c.base \in B /\ c.end = EndOf(B, c.base)
  BY <1>1, ChainParts
<1>3. c.base \in Nat /\ s \in Nat /\ c.base < s
  <2>1. c.base \in Nat /\ s \in Nat
    BY <1>2
  <2> QED BY <2>1
<1>4. c.end \in B /\ c.end <= s /\ c.end \in Nat
  <2> DEFINE m == c.base
  <2>1. m \in B /\ ~(s <= m)
    BY <1>2
  <2> HIDE DEF m
  <2>2. EndOf(B, m) \in B /\ EndOf(B, m) <= s
    <3>1. m \in Nat /\ s \in Nat /\ m < s
      BY <1>3 DEF m
    <3> QED BY <2>1, <3>1, EndIsNext
  <2> QED BY <1>2, <2>2 DEF m
<1>5. t <= c.end
  BY <1>1, <1>4 DEF Hits
<1>6. aware /\ s = t
  BY <1>3, <1>4, <1>5
<1>7. PICK e \in chains : e.base = s
  BY ChainOnBase
<1>8. e.end = EndOf(B, s)
  BY <1>7, ChainParts
<1>9. e.end = Open \/ t <= e.end
  <2>1. ASSUME e.end # Open PROVE e.end \in Nat /\ s < e.end
    <3>1. e.end \in B /\ s < e.end
      BY <1>8, <2>1, EndIsNext
    <3> QED BY <3>1
  <2> QED BY <1>3, <1>6, <2>1
<1>10. e \in Hits(t, aware)
  BY <1>6, <1>7, <1>9 DEF Hits
<1> QED BY <1>1, <1>3, <1>7, <1>10

\* The base of every plan is the last full before its target that the last
\* rebuild knew of, and no other chain could have been chosen.
THEOREM PlanAlwaysUsesLatestBase == Spec => []PlanUsesLatestBase
<1>1. ASSUME TimelineInv PROVE PlanUsesLatestBase
  <2> DEFINE B == Known("full")
             D == Known("diff")
  <2>1. B \in SUBSET Nat /\ D \in SUBSET Nat /\ Open \notin Nat /\ chains = ChainsOf(B, D)
    BY <1>1, TimelineAssumption, KnownTypes DEF TimelineInv, TimelineAssumption, ChainInv
  <2>2. \A o \in indexed : Type[o] = "full" => Stamp[o] \in B
    BY DEF Known
  <2> HIDE DEF B, D
  <2> SUFFICES ASSUME NEW t \in Instants, NEW aware \in BOOLEAN, NEW c \in ChainAt(t, aware)
               PROVE  /\ ChainAt(t, aware) = {c}
                      /\ \A o \in indexed :
                           Type[o] = "full" /\ (Stamp[o] < t \/ (aware /\ Stamp[o] = t))
                             => Stamp[o] <= c.base
    BY DEF PlanUsesLatestBase
  <2>3. t \in Nat
    BY TimelineAssumption DEF TimelineAssumption
  <2>4. ASSUME NEW d \in ChainAt(t, aware) PROVE d = c
    <3>1. d \in chains /\ c \in chains /\ d.base <= c.base /\ c.base <= d.base
      BY DEF ChainAt, Hits
    <3>2. d.base \in Nat /\ c.base \in Nat
      <4>1. d.base \in B /\ c.base \in B
        BY <2>1, <3>1, ChainParts
      <4> QED BY <2>1, <4>1
    <3>3. d.base = c.base
      BY <3>1, <3>2
    <3> QED BY <2>1, <3>1, <3>3, ChainParts
  <2>5. ASSUME NEW o \in indexed, Type[o] = "full", Stamp[o] < t \/ (aware /\ Stamp[o] = t)
        PROVE  Stamp[o] <= c.base
    BY <2>1, <2>2, <2>3, <2>5, LatestBase
  <2> QED BY <2>4, <2>5
<1> QED BY <1>1, TimelineInvariance, PTL

\* What a target needs and is archived is in an archive that the plan names.
THEOREM PlanAlwaysCarriesWhatIsArchived == Spec => []PlanCarriesWhatIsArchived
<1>1. ASSUME TimelineInv PROVE PlanCarriesWhatIsArchived
  <2> DEFINE B == Known("full")
             D == Known("diff")
  <2>1. B \in SUBSET Nat /\ D \in SUBSET Nat /\ Open \notin Nat /\ chains = ChainsOf(B, D)
    BY <1>1, TimelineAssumption, KnownTypes DEF TimelineInv, TimelineAssumption, ChainInv
  <2>2. \A o \in indexed : Type[o] = "diff" => Stamp[o] \in D
    BY DEF Known
  <2> HIDE DEF B, D
  <2> SUFFICES ASSUME NEW t \in Instants, NEW aware \in BOOLEAN, NEW c \in ChainAt(t, aware),
                      NEW o \in Objects, daId[o] # NoRow,
                      \/ Type[o] = "full" /\ Stamp[o] = c.base
                      \/ Type[o] = "diff" /\ o \in indexed /\ c.base < Stamp[o] /\ Stamp[o] <= t
                      \/ Type[o] = "xlog" /\ c.base <= rowTime[o] /\ rowTime[o] <= t
               PROVE  \E a \in archives : a.date \in PlanArchives(c, t) /\ o \in a.members
    BY DEF PlanCarriesWhatIsArchived
  <2>3. t \in Nat /\ ForwardHours \in Nat /\ rowTime[o] \in Nat /\ Stamp[o] \in Nat
    BY <1>1, TimelineAssumption DEF TimelineAssumption, TimelineInv, TypeOK
  <2>4. o \in Recorded /\ \E a \in archives : a.date = daId[o] /\ o \in a.members
    BY <1>1 DEF TimelineInv, AttachInv
  <2>5. o \in Wanted(c, t)
    <3>1. CASE Type[o] = "full" /\ Stamp[o] = c.base
      BY <2>4, <3>1 DEF Wanted
    <3>2. CASE Type[o] = "diff" /\ o \in indexed /\ c.base < Stamp[o] /\ Stamp[o] <= t
      <4>1. c \in ChainsOf(B, D) /\ (c.end = Open \/ c.end >= t)
        BY <2>1 DEF ChainAt, Hits
      <4>2. c.diffs = DiffsOf(D, c.base, c.end) /\ c.base \in Nat
        BY <2>1, <4>1, ChainParts
      <4>3. c.end = Open \/ Stamp[o] <= c.end
        <5>1. c.end = Open \/ c.end \in Nat
          <6>1. c.base \in B /\ c.end = EndOf(B, c.base)
            BY <2>1, <4>1, ChainParts
          <6>2. c.end = Open \/ c.end \in B
            BY <2>1, <6>1, EndIsNext
          <6> QED BY <2>1, <6>2
        <5> QED BY <2>3, <3>2, <4>1, <5>1
      <4>4. Stamp[o] \in c.diffs
        BY <2>2, <3>2, <4>2, <4>3 DEF DiffsOf
      <4> QED BY <2>4, <3>2, <4>4 DEF Wanted
    <3>3. CASE Type[o] = "xlog" /\ c.base <= rowTime[o] /\ rowTime[o] <= t
      <4>1. rowTime[o] <= t + ForwardHours
        BY <2>3, <3>3
      <4> QED BY <2>4, <3>3, <4>1 DEF Wanted
    <3> QED BY <3>1, <3>2, <3>3
  <2>6. daId[o] \in PlanArchives(c, t)
    BY <2>5 DEF PlanArchives
  <2> QED BY <2>4, <2>6
<1> QED BY <1>1, TimelineInvariance, PTL

-----------------------------------------------------------------------------
(* Archives of one kind                                                    *)

SameWeeks == \A p, q \in Policies : p.weekStartDay = q.weekStartDay

TimeOf(o) == IF Type[o] = "xlog" THEN rowTime[o] ELSE Stamp[o]

\* Archives differ in date, and the times of the members of each, but for the
\* moved ones, are still in its window.
CarriedInv ==
  /\ \A a, b \in archives : a.date = b.date => a = b
  /\ \A a \in archives :
       /\ a.members \subseteq Recorded
       /\ a.kind = "weekly" =>
            /\ \E d \in Int, p \in Policies :
                 p.weekStartDay \in 1..7 /\ a.date = WeekStart(d, p.weekStartDay)
            /\ \A o \in a.members \ moved : InWeek(TimeOf(o), a.date)
       /\ a.kind = "daily" => \A o \in a.members \ moved : InDay(TimeOf(o), a.date)

LEMMA CarriedInvKept ==
  ASSUME TimelineAssumption, TypeOK, CarriedInv, archives' = archives,
         Recorded \subseteq Recorded', moved \subseteq moved',
         \A o \in Recorded \ moved' : rowTime'[o] = rowTime[o]
  PROVE  CarriedInv'
<1>1. \A a \in archives : \A o \in a.members \ moved' :
        o \in a.members \ moved /\ TimeOf(o)' = TimeOf(o)
  BY DEF CarriedInv, TimeOf
<1> QED BY <1>1 DEF CarriedInv

LEMMA CarriedInvPacked ==
  ASSUME TimelineAssumption, TypeOK, CarriedInv, NEW date \in Int,
         NEW kind \in {"weekly", "daily"}, NEW members \in SUBSET Recorded,
         Pack(date, kind, members),
         kind = "weekly" =>
           /\ \E d \in Int, p \in Policies :
                p.weekStartDay \in 1..7 /\ date = WeekStart(d, p.weekStartDay)
           /\ \A o \in members \ moved : InWeek(TimeOf(o), date),
         kind = "daily" => \A o \in members \ moved : InDay(TimeOf(o), date)
  PROVE  CarriedInv'
<1> DEFINE new == [date |-> date, kind |-> kind, members |-> members]
<1>1. archives' = archives \cup {new} /\ \A a \in archives : a.date # date
  BY DEF Pack
<1>2. Recorded \subseteq Recorded'
  BY DEF Pack, Recorded, TypeOK
<1>3. moved' = moved /\ \A o : TimeOf(o)' = TimeOf(o)
  BY DEF Pack, TimeOf
<1>4. \A a, b \in archives' : a.date = b.date => a = b
  BY <1>1 DEF CarriedInv
<1>5. new.date = date /\ new.kind = kind /\ new.members = members
  OBVIOUS
<1> HIDE DEF new
<1>6. ASSUME NEW a \in archives'
      PROVE  /\ a.members \subseteq Recorded'
             /\ a.kind = "weekly" =>
                  /\ \E d \in Int, p \in Policies :
                       p.weekStartDay \in 1..7 /\ a.date = WeekStart(d, p.weekStartDay)
                  /\ \A o \in a.members \ moved : InWeek(TimeOf(o), a.date)
             /\ a.kind = "daily" => \A o \in a.members \ moved : InDay(TimeOf(o), a.date)
  <2>1. CASE a \in archives
    BY <1>2, <2>1 DEF CarriedInv
  <2>2. CASE a = new
    BY <1>2, <1>5, <2>2
  <2> QED BY <1>1, <2>1, <2>2
<1> QED BY <1>3, <1>4, <1>6 DEF CarriedInv

LEMMA CarriedInvHolds ==
  ASSUME TimelineAssumption, TypeOK, RowInv, AttachInv, CarriedInv, [Next]_vars
  PROVE  CarriedInv'
<1> USE DEF TimelineAssumption, TypeOK
<1>record. ASSUME NEW S \in SUBSET Objects, Record(S), archives' = archives
           PROVE  CarriedInv'
  <2>1. Recorded \subseteq Recorded' /\ moved \subseteq moved'
    BY <1>record DEF Record, Recorded
  <2>2. ASSUME NEW o \in Recorded \ moved' PROVE rowTime'[o] = rowTime[o]
    BY <1>record DEF Record, Recorded
  <2> QED BY <1>record, <2>1, <2>2, CarriedInvKept
<1>same. ASSUME archives' = archives, rowTime' = rowTime, moved' = moved,
                Recorded \subseteq Recorded'
         PROVE  CarriedInv'
  BY <1>same, CarriedInvKept
<1>tick. CASE Tick
  BY <1>tick, <1>same DEF Tick, catalogVars, Recorded
<1>start. CASE ScanStart
  BY <1>start, <1>same DEF ScanStart, catalogVars, Recorded
<1>folder. CASE ScanFolder
  BY <1>folder, <1>record DEF ScanFolder, Accepted
<1>dies. CASE ScanDies
  BY <1>dies, <1>record DEF ScanDies, Accepted
<1>rebuild. CASE Rebuild
  BY <1>rebuild, <1>same DEF Rebuild, catalogVars, Recorded
<1>promote. CASE Promote
  BY <1>promote, <1>same DEF Promote, Promoted, Recorded
<1>put. ASSUME NEW o \in Objects, Put(o) PROVE CarriedInv'
  BY <1>put, <1>same DEF Put, catalogVars, Recorded
<1>configure. ASSUME NEW p \in Policies, Configure(p) PROVE CarriedInv'
  BY <1>configure, <1>same DEF Configure, catalogVars, Recorded
<1>weekly. ASSUME NEW d \in Days, PackWeekly(d) PROVE CarriedInv'
  <2> DEFINE date == WeekStart(d, policy.weekStartDay)
  <2>1. d \in Int /\ policy \in Policies /\ policy.weekStartDay \in 1..7
    BY DayIsNat DEF Days, ValidPolicy
  <2>2. date \in Int
    BY <2>1, WeekStartType
  <2>3. Pack(date, "weekly", WeeklyWindow(date))
    BY <1>weekly DEF PackWeekly
  <2>4. WeeklyWindow(date) \in SUBSET Recorded
        /\ \A o \in WeeklyWindow(date) : InWeek(TimeOf(o), date)
    BY DEF WeeklyWindow, Selectable, Recorded, TimeOf
  <2>5. \E e \in Int, p \in Policies :
          p.weekStartDay \in 1..7 /\ date = WeekStart(e, p.weekStartDay)
    BY <2>1
  <2> HIDE DEF date
  <2> QED BY <2>2, <2>3, <2>4, <2>5, CarriedInvPacked
<1>daily. ASSUME NEW d \in Days, PackDaily(d) PROVE CarriedInv'
  <2>1. d \in Int /\ Pack(d, "daily", DailyWindow(d))
    BY <1>daily, DayIsNat DEF Days, PackDaily
  <2>2. DailyWindow(d) \in SUBSET Recorded
    BY DEF DailyWindow, Selectable, Recorded
  <2>3. ASSUME NEW o \in DailyWindow(d) PROVE InDay(TimeOf(o), d)
    <3>1. CASE Type[o] = "xlog"
      BY <3>1 DEF DailyWindow, TimeOf
    <3>2. CASE Type[o] # "xlog"
      <4>1. o \in Recorded /\ rowDate[o] = d /\ Type[o] \in InDirectory
        BY <3>2 DEF DailyWindow, Selectable, Recorded, InDirectory, TypesIn, Folders
      <4>2. d = DayOf(Stamp[o]) /\ Stamp[o] \in Int /\ TimeOf(o) = Stamp[o]
        BY <3>2, <4>1 DEF RowInv, TimeOf, Recorded
      <4> QED BY <4>2, DayHolds
    <3> QED BY <3>1, <3>2
  <2> QED BY <2>1, <2>2, <2>3, CarriedInvPacked
<1>reap. ASSUME NEW a \in archives, Reap(a) PROVE CarriedInv'
  <2>1. Recorded \subseteq Recorded'
    BY <1>reap DEF Reap, Recorded
  <2> QED BY <1>reap, <1>same, <2>1 DEF Reap
<1>stutter. CASE UNCHANGED vars
  BY <1>stutter, <1>same DEF vars, catalogVars, Recorded
<1> QED BY <1>tick, <1>start, <1>folder, <1>dies, <1>rebuild, <1>promote, <1>put,
           <1>configure, <1>weekly, <1>daily, <1>reap, <1>stutter DEF Next

\* No two archives of a kind share an object with its old LastModified, as long
\* as the start day of the week stays the same; were it edited, weeks overlap.
THEOREM CarriedAlwaysOnce ==
  ASSUME SameWeeks
  PROVE  Spec => []CarriedOnce
<1>1. Init => CarriedInv
  BY DEF Init, CarriedInv
<1>2. TimelineInv /\ CarriedInv /\ [Next]_vars => CarriedInv'
  BY TimelineAssumption, CarriedInvHolds DEF TimelineInv
<1>3. TimelineInv /\ CarriedInv => CarriedOnce
  <2> SUFFICES ASSUME TimelineInv, CarriedInv, NEW a \in archives, NEW b \in archives,
                      a.kind = b.kind, NEW o \in a.members, o \in b.members, o \notin moved
               PROVE  a = b
    BY DEF CarriedOnce
  <2> SUFFICES a.date = b.date
    BY DEF CarriedInv
  <2>1. o \in Objects /\ TimeOf(o) \in Int
    BY TimelineAssumption
       DEF TimelineInv, TypeOK, CarriedInv, Recorded, TimeOf, TimelineAssumption
  <2>2. a.kind \in {"weekly", "daily"} /\ a.date \in Int /\ b.date \in Int
    BY DEF TimelineInv, TypeOK, ArchiveShape
  <2>3. CASE a.kind = "weekly"
    <3>1. PICK d \in Int, p \in Policies :
            p.weekStartDay \in 1..7 /\ a.date = WeekStart(d, p.weekStartDay)
      BY <2>3 DEF CarriedInv
    <3>2. PICK e \in Int, q \in Policies :
            q.weekStartDay \in 1..7 /\ b.date = WeekStart(e, q.weekStartDay)
      BY <2>3 DEF CarriedInv
    <3>3. InWeek(TimeOf(o), a.date) /\ InWeek(TimeOf(o), b.date)
      BY <2>3 DEF CarriedInv
    <3>4. p.weekStartDay = q.weekStartDay
      BY SameWeeks DEF SameWeeks
    <3>5. b.date = WeekStart(e, p.weekStartDay)
      BY <3>2, <3>4
    <3>6. \A t \in Int, w \in 1..7 :
            InWeek(t, WeekStart(d, w)) /\ InWeek(t, WeekStart(e, w))
              => WeekStart(d, w) = WeekStart(e, w)
      BY WeeksApart
    <3> QED BY <2>1, <3>1, <3>3, <3>5, <3>6
  <2>4. CASE a.kind = "daily"
    <3>1. InDay(TimeOf(o), a.date) /\ InDay(TimeOf(o), b.date)
      BY <2>4 DEF CarriedInv
    <3> QED BY <2>1, <2>2, <3>1, DaysApart
  <2> QED BY <2>2, <2>3, <2>4
<1> QED BY <1>1, <1>2, <1>3, TimelineInvariance, PTL DEF Spec
=============================================================================
