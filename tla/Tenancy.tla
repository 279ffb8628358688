------------------------------ MODULE Tenancy ------------------------------
(***************************************************************************)
(* What restore and cleanup promise to those who share a bucket, with      *)
(* nothing of how they find out: a session moves in only where nobody is,  *)
(* only it can move itself out, and it is told to be restored only once it *)
(* holds all it needs.                                                     *)
(***************************************************************************)

CONSTANTS
  Keys,        \* the places in the bucket
  Sessions,    \* restore sessions
  Phases,      \* what a session can be in, of which three are named below
  Needs        \* Needs[s]: the keys session s is to bring back

VARIABLES
  owner,       \* owner[k]: "nobody", "gaussdb" or a session
  phase        \* phase[s]: one of Phases

Init ==
  /\ owner \in [Keys -> {"nobody", "gaussdb"}]
  /\ phase \in [Sessions -> Phases \ {"restored"}]

MoveIn(s, k) ==
  /\ phase[s] = "extracting" /\ owner[k] = "nobody"
  /\ owner' = [owner EXCEPT ![k] = s]
  /\ UNCHANGED phase

MoveOut(s, k) ==
  /\ phase[s] = "cleaning" /\ owner[k] = s
  /\ owner' = [owner EXCEPT ![k] = "nobody"]
  /\ UNCHANGED phase

\* The reaper takes a backup away that is archived.
Depart(k) ==
  /\ owner[k] = "gaussdb"
  /\ owner' = [owner EXCEPT ![k] = "nobody"]
  /\ UNCHANGED phase

Complete(s) ==
  /\ phase[s] = "extracting" /\ \A k \in Needs[s] : owner[k] = s
  /\ phase' = [phase EXCEPT ![s] = "restored"]
  /\ UNCHANGED owner

\* A session begins, fails, is cleaned or is begun again.
Turn(s) ==
  /\ \E t \in Phases \ {"restored"} : phase' = [phase EXCEPT ![s] = t]
  /\ UNCHANGED owner

Next ==
  \/ \E s \in Sessions : \/ Complete(s) \/ Turn(s)
                         \/ \E k \in Keys : MoveIn(s, k) \/ MoveOut(s, k)
  \/ \E k \in Keys : Depart(k)

Spec == Init /\ [][Next]_<<owner, phase>>
=============================================================================
