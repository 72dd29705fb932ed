----------------------------- MODULE MCInvitations -----------------------------
(* Instances of Invitations for TLC. *)
EXTENDS Invitations, TLC

CONSTANTS ana, rui, w1, w2

MCTtlOf == [p \in Purposes |-> 1]
Symmetry == Permutations(Workers)
================================================================================
