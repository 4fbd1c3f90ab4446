--------------------------- MODULE MCInvitations ---------------------------
(***************************************************************************)
(* Invitations for TLC: lists are interchangeable model values.            *)
(***************************************************************************)
EXTENDS Invitations, TLC

Symmetry == Permutations(Lists)
=============================================================================
