------------------------------- MODULE MCTickets -------------------------------
(* Instances of EquipmentTickets, with the report on it, for TLC. *)
EXTENDS MaintenanceReport, TLC

CONSTANTS projector, lighting, ana, rui, w1, w2

Symmetry == Permutations(Users) \union Permutations(Workers)
================================================================================
