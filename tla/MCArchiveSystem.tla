-------------------------- MODULE MCArchiveSystem --------------------------
(***************************************************************************)
(* Small instances of ArchiveSystem.                                       *)
(***************************************************************************)
EXTENDS ArchiveInvariant

\* One week with a full, a diff and an xlog, and a day inside that week whose
\* archive repeats the diff and the xlog.
WeekAndDayType   == [f |-> "full", d |-> "diff", x |-> "xlog"]
WeekAndDayRow    == [week |-> 1, day |-> 2]
WeekAndDayWindow == [week |-> {"f", "d", "x"}, day |-> {"d", "x"}]

\* Every packer may be started on every job, or each on its own.
AnyJob     == [p \in Packers |-> Jobs]
OwnJob     == [k |-> {"week"}, l |-> {"day"}]

\* One week of two objects ...
SmallType   == [f |-> "full", x |-> "xlog"]
SmallRow    == [week |-> 1]
SmallWindow == [week |-> {"f", "x"}]

\* ... and a day in it that repeats one of them.
SmallDayRow    == [week |-> 1, day |-> 2]
SmallDayWindow == [week |-> {"f", "x"}, day |-> {"x"}]
=============================================================================
