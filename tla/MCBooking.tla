------------------------------- MODULE MCBooking -------------------------------
(* Instances of Booking for TLC: a short day of three hours of which the   *)
(* last is closed, and a handful of accounts.                              *)
EXTENDS Booking, TLC

CONSTANTS student, professor, staff, caretaker, room, w1, w2

MCUsers == {student, staff}
MCAllUsers == {student, professor, staff, caretaker}
MCRoleOf == [u \in Users |-> CASE u = student -> "student" [] u = professor -> "professor"
                               [] u = staff -> "staff" [] u = caretaker -> "maintenance"]
MCDeptOf == [u \in Users |-> "iaud"]
MCSpaceDept == [s \in Spaces |-> "iaud"]
MCClosedFrom == [s \in Spaces |-> 4]
MCClosedTo == [s \in Spaces |-> 6]
MCLimit == [r \in Roles |-> CASE r = "student" -> 1 [] r = "professor" -> 2
                              [] r = "staff" -> Unlimited [] r = "maintenance" -> 0]
(* Two overlapping intervals, and one that lies in closed hours. *)
MCIntervals == {[start |-> 0, end |-> 2], [start |-> 1, end |-> 3]}

(* The first half of the day, so that reservations start, end and expire.  *)
MCEarlyIntervals == {[start |-> 0, end |-> 2], [start |-> 2, end |-> 4]}
MCStaff == {staff}
MCStudent == {student}

Symmetry == Permutations(Workers)
================================================================================
