---------------------------- MODULE MCRtspServer ----------------------------
(***************************************************************************)
(* For the runs with several clients that check invariants only: clients   *)
(* differ in nothing but their name, so states that differ by a renaming   *)
(* of the clients are one.                                                 *)
(***************************************************************************)
EXTENDS RtspServer, TLC

Symmetry == Permutations(Client)
=============================================================================
