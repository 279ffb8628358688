------------------------------ MODULE Calendar ------------------------------
(***************************************************************************)
(* The calendar every command computes with (src/week_boundary.py and the  *)
(* windows of src/catalog.py), and the archive policy of an instance.      *)
(* An instant is a number of hours and a date a number of days, both UTC,  *)
(* counted from a Monday: what is compared in the code as ISO strings,     *)
(* milliseconds or dates is compared here as numbers.                      *)
(***************************************************************************)
EXTENDS Integers

DayOf(t)    == t \div 24
Midnight(d) == d * 24

\* date.weekday(): 0 is Monday.
Weekday(d) == d % 7

\* compute_week_range: from the last week_start_day at or before d, seven days.
WeekStart(d, wsd) == d - ((Weekday(d) - (wsd - 1)) % 7)
WeekEnd(ws)       == ws + 7

\* Both windows are closed at the left and open at the right.
InWeek_mut(t, ws) == Midnight(ws) <= t /\ t <= Midnight(WeekEnd(ws))
InWeek(t, ws) == Midnight(ws) <= t /\ t < Midnight(WeekEnd(ws))
InDay(t, d)   == Midnight(d) <= t /\ t < Midnight(d + 1)

PolicyShape ==
  [full : BOOLEAN, snapshot : BOOLEAN, diff : BOOLEAN, xlog : BOOLEAN,
   weekStartDay : Int, retentionDays : Nat]

\* validate_policies
ValidPolicy(p) ==
  /\ p.diff => p.full
  /\ p.xlog => p.full /\ p.diff
  /\ p.weekStartDay \in 1..7

\* Policy.is_full_pitr_capable
PitrCapable(p) == p.full /\ p.diff /\ p.xlog
=============================================================================
