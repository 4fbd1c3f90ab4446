---------------------------- MODULE MCUserLists -----------------------------
(***************************************************************************)
(* UserLists for TLC: users, apps and ids are model values.  The symmetry  *)
(* is for runs without liveness properties.                                *)
(***************************************************************************)
EXTENDS UserLists, TLC

Symmetry == Permutations(Users) \cup Permutations(Apps) \cup Permutations(Lists)
=============================================================================
