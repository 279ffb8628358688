--------------------------- MODULE MCRestoration ---------------------------
(***************************************************************************)
(* The small instance of Restoration.                                      *)
(***************************************************************************)
EXTENDS RestorationInvariant

\* Two archives that share an object, a session for each.
SharedMembers == [a1 |-> {"x"}, a2 |-> {"x", "y"}]
OneArchiveEach == [s1 |-> <<"a1">>, s2 |-> <<"a2">>]
=============================================================================
