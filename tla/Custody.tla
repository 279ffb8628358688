------------------------------ MODULE Custody ------------------------------
(***************************************************************************)
(* What the archiver promises about the contents of a bucket, with nothing *)
(* of how it goes about it: a content is copied into the archives, the     *)
(* archives never lose one, and only then may it leave the bucket.         *)
(***************************************************************************)
EXTENDS Naturals

CONSTANTS
  Objects,     \* the keys of the bucket
  MaxVersion   \* contents are numbered 1..MaxVersion under each key

VARIABLES
  held,        \* held[o]: the content the bucket holds under o, or 0
  kept         \* kept[o]: the contents of o in recorded archives

Init ==
  /\ held \in [Objects -> 0..MaxVersion]
  /\ kept = [o \in Objects |-> {}]

\* The database writes a content.
Write(o) ==
  /\ \E v \in 1..MaxVersion :
       v > held[o] /\ held' = [held EXCEPT ![o] = v]
  /\ UNCHANGED kept

\* An archive is recorded: it adds the present content of some keys.
Record ==
  /\ \E S \in SUBSET {o \in Objects : held[o] # 0} :
       kept' = [o \in Objects |-> IF o \in S THEN kept[o] \cup {held[o]}
                                             ELSE kept[o]]
  /\ UNCHANGED held

\* A content leaves the bucket; it is kept.
Release(o) ==
  /\ held[o] \in kept[o]
  /\ held' = [held EXCEPT ![o] = 0]
  /\ UNCHANGED kept

Next == Record \/ \E o \in Objects : Write(o) \/ Release(o)

Spec == Init /\ [][Next]_<<held, kept>>
=============================================================================
