---------------------------- MODULE MCScheduler ----------------------------
(***************************************************************************)
(* Small instances of Scheduler.                                           *)
(***************************************************************************)
EXTENDS Scheduler

\* Two weeks: a full and a diff in the first, an xlog in the second, and a
\* metadata object dated in the first that no week packs.
TwoWeeksType   == [f |-> "full", d |-> "diff", x |-> "xlog", m |-> "metadata"]
TwoWeeksRow    == [w1 |-> 1, w2 |-> 2]
TwoWeeksWindow == [w1 |-> {"f", "d"}, w2 |-> {"x"}]
TwoWeeksDate   == [f |-> "w1", d |-> "w1", x |-> "w2", m |-> "w1"]
AnyJob         == [p \in Packers |-> Jobs]
=============================================================================
