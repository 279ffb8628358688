---------------------------- MODULE MCTransport ----------------------------
(***************************************************************************)
(* Small instances of ObsTransport.                                        *)
(***************************************************************************)
EXTENDS ObsTransport

\* A put and a delete of the only key, and a question about it.
OneKey ==
  {[op |-> o, key |-> 1, value |-> "a"] : o \in {"put", "delete", "head"}}

\* A listing of two keys beside a delete.
Listing ==
  {[op |-> "list", key |-> 1, value |-> "a"], [op |-> "delete", key |-> 1, value |-> "a"]}
=============================================================================
