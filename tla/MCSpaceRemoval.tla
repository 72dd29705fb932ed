----------------------------- MODULE MCSpaceRemoval -----------------------------
(* Instances of SpaceRemoval for TLC. *)
EXTENDS SpaceRemoval, TLC

CONSTANTS w1, w2

Symmetry == Permutations(Workers)
================================================================================
