-------------------------------- MODULE MCReport --------------------------------
(* An instance of OccupancyReport for TLC: two days of two spaces, one of   *)
(* which is closed for half of the day.  The viewers of ReservationPrivacy  *)
(* are given values too, so that its assumption is evaluated.               *)
EXTENDS OccupancyReport, ReservationPrivacy, TLC

CONSTANTS lab, ana, rui

MCRoleOf == (ana :> "student") @@ (rui :> "staff")

MCHoursOf == [s \in Others |-> [from |-> 0, to |-> 4]]
MCRows ==
  (<<room, 2>> :> [reserved |-> {[start |-> 2, end |-> 5]}, blocked |-> {}])
  @@ (<<lab, 1>> :> [reserved |-> {[start |-> 0, end |-> 2], [start |-> 5, end |-> 7]},
                     blocked |-> {[start |-> 2, end |-> 5]}])
  @@ (<<lab, 2>> :> [reserved |-> {}, blocked |-> {}])
================================================================================
