------------------------------ MODULE DayCalendar ------------------------------
(***************************************************************************)
(* One day of one space, with its requests served one after the other: the *)
(* day that GET /spaces/:id/availability shows, what POST /reservations    *)
(* would accept on it, and what the occupancy reports count.  Staff may    *)
(* edit the space's hours and its `reservable` flag while reservations     *)
(* stand, so reservations may come to lie in closed hours.                 *)
(***************************************************************************)
EXTENDS Schedule, FiniteSetsExt

CONSTANTS FromTimes, ToTimes   \* bound: the closed hours staff set

ASSUME DayAssumption ==
  /\ FromTimes \subseteq {t \in Time : IsBoundary(t)}
  /\ ToTimes \subseteq {t \in Time : IsBoundary(t)}

VARIABLES
  closedFrom, closedTo, reservable,   \* columns of the space
  reserved, blocked                   \* confirmed reservations, active blockings

vars == <<closedFrom, closedTo, reservable, reserved, blocked>>

Slots == 0 .. DayEnd - 1

Init ==
  /\ closedFrom = DefaultFrom /\ closedTo = DefaultTo /\ reservable = TRUE
  /\ reserved = {} /\ blocked = {}

(* The rules of the validators for the times of a request.                 *)
ValidTimes(i) ==
  /\ IsSlotStart(i.start) /\ IsSlotEnd(i.end)
  /\ i.start < i.end /\ MeetsMinimumDuration(i.start, i.end)

(* create and checkSlotAvailability, for a day that is not today.          *)
Bookable(i) ==
  /\ reservable
  /\ ~OverlapsClosedHours(i.start, i.end, closedFrom, closedTo)
  /\ ~OverlapsAny(i.start, i.end, reserved)
  /\ ~OverlapsAny(i.start, i.end, blocked)

Reserve ==
  /\ \E i \in Interval : ValidTimes(i) /\ Bookable(i) /\ reserved' = reserved \union {i}
  /\ UNCHANGED <<closedFrom, closedTo, reservable, blocked>>

Cancel ==
  /\ \E i \in reserved : reserved' = reserved \ {i}
  /\ UNCHANGED <<closedFrom, closedTo, reservable, blocked>>

(* A blocking ignores the space's hours and overrides what it collides with. *)
Block ==
  /\ \E i \in Interval :
       /\ ValidTimes(i) /\ ~OverlapsAny(i.start, i.end, blocked)
       /\ blocked' = blocked \union {i}
       /\ reserved' = {r \in reserved : ~Overlaps(i.start, i.end, r.start, r.end)}
  /\ UNCHANGED <<closedFrom, closedTo, reservable>>

Unblock ==
  /\ \E i \in blocked : blocked' = blocked \ {i}
  /\ UNCHANGED <<closedFrom, closedTo, reservable, reserved>>

(* PUT /spaces/:id: the row is updated, whatever is booked in it.          *)
UpdateSpace ==
  /\ closedFrom' \in FromTimes /\ closedTo' \in ToTimes /\ reservable' \in BOOLEAN
  /\ UNCHANGED <<reserved, blocked>>

Next == Reserve \/ Cancel \/ Block \/ Unblock \/ UpdateSpace

Spec == Init /\ [][Next]_vars

-------------------------------------------------------------------------------
(* What is shown and counted. *)

(* getAvailability: an open slot of a space that is not reservable says so. *)
(* Variant: the calendar is built without the blockings.                    *)
Calendar_NoBlockings == BuildAvailability(closedFrom, closedTo, reserved, {})
Calendar == BuildAvailability(closedFrom, closedTo, reserved, blocked)
ShownCalendar ==
  [s \in Slots |-> IF ~reservable /\ Calendar[s] # "closed" THEN "not_reservable"
                   ELSE Calendar[s]]

(* getSpaceReport, operationalHours: the hours outside the closed period,  *)
(* computed again from the columns as they are stored.                     *)
OperationalHours ==
  {h \in {s \div 2 : s \in Slots} :
    /\ closedFrom # closedTo
    /\ IF closedFrom < closedTo THEN ~(2*h >= closedFrom /\ 2*h + 2 <= closedTo)
       ELSE ~(2*h >= closedFrom \/ 2*h + 2 <= closedTo)}

(* The day's totals: non-closed slots, and reserved or blocked ones.       *)
OpenSlots == {s \in Slots : Calendar[s] # "closed"}

-------------------------------------------------------------------------------
(* Properties. *)

(* Every stored interval is one the validators accept: the calendar drops  *)
(* malformed ones, which checkSlotAvailability would still collide with.   *)
TypeOK ==
  /\ closedFrom \in FromTimes \union {DefaultFrom} /\ closedTo \in ToTimes \union {DefaultTo}
  /\ reservable \in BOOLEAN
  /\ reserved \subseteq {i \in Interval : WellFormed(i)}
  /\ blocked \subseteq {i \in Interval : WellFormed(i)}

(* The calendar tells the truth: a client may book an interval exactly     *)
(* when every half hour of it is shown as available.                       *)
CalendarAgrees ==
  \A i \in {j \in Interval : WellFormed(j)} :
    Bookable(i) <=> \A s \in i.start .. i.end - 1 : ShownCalendar[s] = "available"

(* "Operational hours = hours that are NOT closed" (getSpaceReport): an    *)
(* hour is listed exactly when some slot of it is open in the calendar,    *)
(* though the two are computed apart.  Not so for a space that closes from *)
(* "24:00", which the calendar reads as the default, "22:00".              *)
HoursAgree ==
  closedFrom # DayEnd => OperationalHours = {s \div 2 : s \in OpenSlots}
===============================================================================
