------------------------------- MODULE Schedule -------------------------------
(***************************************************************************)
(* The arithmetic of lib/schedule.ts: how a day is cut into half-hour      *)
(* slots, when two intervals collide, when a space is closed and what the  *)
(* day calendar shows.  A time is the number of half hours since midnight  *)
(* (SLOT_MINUTES = 30), so "08:30" is 17 and "24:00" is DayEnd, and an     *)
(* hour-aligned time is an even number.  NoTime stands for a missing or    *)
(* malformed string.  In production DayEnd = 48 and MinDuration = 2.       *)
(***************************************************************************)
EXTENDS Integers, FiniteSets

CONSTANTS
  DayEnd,        \* half hours in a day
  MinDuration,   \* MIN_DURATION_MINUTES, in half hours
  DefaultFrom,   \* DEFAULT_CLOSED_FROM, "22:00"
  DefaultTo      \* DEFAULT_CLOSED_TO, "07:00"

ASSUME ScheduleAssumption ==
  /\ DayEnd \in Nat \ {0}
  /\ MinDuration \in Nat \ {0}
  /\ DefaultFrom \in 0 .. DayEnd - 1 /\ DefaultFrom % 2 = 0
  /\ DefaultTo \in 0 .. DayEnd /\ DefaultTo % 2 = 0

NoTime == -1
Time == 0 .. DayEnd
Interval == [start : Time, end : Time]

(* isSlotStartTime, isSlotEndTime: only an end may be written "24:00". *)
IsSlotStart(t) == t \in 0 .. DayEnd - 1
IsSlotEnd(t) == t \in Time
(* isHourlyTime, isBoundaryTime: on the hour, and again 24:00 only as an end. *)
IsHourly(t) == IsSlotStart(t) /\ t % 2 = 0
IsBoundary(t) == IsSlotEnd(t) /\ t % 2 = 0

MeetsMinimumDuration(start, end) == end - start >= MinDuration

(* intervalsOverlap: half open, so touching intervals do not collide. *)
Overlaps(leftStart, leftEnd, rightStart, rightEnd) ==
  leftStart < rightEnd /\ leftEnd > rightStart

(* normalizeInterval: a malformed or empty interval is dropped. *)
WellFormed(i) == IsSlotStart(i.start) /\ IsSlotEnd(i.end) /\ i.start < i.end

(* normalizeClosedHours: a malformed bound falls back to the default. *)
NormalFrom(from) == IF IsHourly(from) THEN from ELSE DefaultFrom
NormalTo(to) == IF IsBoundary(to) THEN to ELSE DefaultTo

(* getClosedIntervals: equal bounds close the whole day; a period that     *)
(* wraps midnight is cut in two at 24:00.                                  *)
ClosedIntervals(closedFrom, closedTo) ==
  LET from == NormalFrom(closedFrom)
      to == NormalTo(closedTo)
  IN  IF from = to THEN {[start |-> 0, end |-> DayEnd]}
      ELSE IF from < to THEN {[start |-> from, end |-> to]}
      ELSE {[start |-> 0, end |-> to], [start |-> from, end |-> DayEnd]}

OverlapsAny(start, end, intervals) ==
  \E i \in intervals : Overlaps(start, end, i.start, i.end)

OverlapsClosedHours(start, end, closedFrom, closedTo) ==
  OverlapsAny(start, end, ClosedIntervals(closedFrom, closedTo))

(* buildAvailability: the status of every slot of the day, with the        *)
(* precedence closed > blocked > reserved > available.                     *)
BuildAvailability(closedFrom, closedTo, reserved, blocked) ==
  [s \in 0 .. DayEnd - 1 |->
    IF OverlapsClosedHours(s, s + 1, closedFrom, closedTo) THEN "closed"
    ELSE IF OverlapsAny(s, s + 1, {i \in blocked : WellFormed(i)}) THEN "blocked"
    ELSE IF OverlapsAny(s, s + 1, {i \in reserved : WellFormed(i)}) THEN "reserved"
    ELSE "available"]

(* hourlyOccupancy: per hour, the open slots and those of them in use. *)
HourlyOccupancy(slots) ==
  [h \in {s \div 2 : s \in DOMAIN slots} |->
    LET open == {s \in DOMAIN slots : s \div 2 = h /\ slots[s] # "closed"}
    IN  [open |-> Cardinality(open),
         occupied |-> Cardinality({s \in open : slots[s] \in {"reserved", "blocked"}})]]

(* lib/reservation-permissions.ts canManageReservation: staff and the owner *)
(* may edit and cancel, the registered requester may only cancel.           *)
CanManage(actor, role, owner, requester, action) ==
  /\ role # "maintenance"
  /\ \/ role = "staff"
     \/ actor = owner
     \/ action = "cancel" /\ actor = requester
===============================================================================
