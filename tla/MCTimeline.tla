----------------------------- MODULE MCTimeline -----------------------------
(***************************************************************************)
(* Small instances of Timeline around the midnight from Friday, day 11, to *)
(* Saturday, day 12, on which a week starts.                               *)
(***************************************************************************)
EXTENDS Timeline

\* A full in the last hour of one week and a full at the first instant of the
\* next; a diff of that same instant; an xlog.
Folders4 == [f |-> "Db", g |-> "Db", d |-> "Difference", x |-> "Log"]
Types4   == [f |-> "full", g |-> "full", d |-> "diff", x |-> "xlog"]
Stamps4  == [f |-> 287, g |-> 288, d |-> 288, x |-> 0]

\* The xlog is written twice.
Puts4 == [f |-> 1, g |-> 1, d |-> 1, x |-> 2]

FromFriday == {287, 288, 336}

\* A policy with point-in-time recovery, and one of fulls a day old at most.
Everything ==
  [full |-> TRUE, snapshot |-> TRUE, diff |-> TRUE, xlog |-> TRUE,
   weekStartDay |-> 6, retentionDays |-> 0]
YoungFulls ==
  [full |-> TRUE, snapshot |-> FALSE, diff |-> FALSE, xlog |-> FALSE,
   weekStartDay |-> 6, retentionDays |-> 1]
TwoPolicies == {Everything, YoungFulls}
=============================================================================
