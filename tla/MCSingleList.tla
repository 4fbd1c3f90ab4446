---------------------------- MODULE MCSingleList ----------------------------
(***************************************************************************)
(* SingleList for TLC: users and ids are model values.  The symmetry is    *)
(* for runs without liveness properties.                                   *)
(***************************************************************************)
EXTENDS SingleList, TLC

Symmetry == Permutations(Users) \cup Permutations(Ids)
=============================================================================
