--------------------------- MODULE DayCalendarProofs ---------------------------
(***************************************************************************)
(* Proof that the day calendar and the booking rules agree, for any length *)
(* of the day, any hours and any set of stored rows; of what the calendar, *)
(* the report and "Minhas Reservas" tell about a reservation, for any row  *)
(* and viewer; and that the two reports over what is booked agree and add  *)
(* up, for any spaces and period.                                          *)
(***************************************************************************)
EXTENDS OccupancyReport, ReservationPrivacy, Sums

LEMMA DayIsNat == DayEnd \in Nat \ {0} /\ MinDuration \in Nat \ {0}
BY Zenon, ScheduleAssumption

(* An interval collides with a set of intervals exactly when one of its    *)
(* half hours does.                                                        *)
LEMMA SlotsDecide ==
  ASSUME NEW start \in Nat, NEW end \in Nat, start < end, NEW I,
         \A j \in I : j.start \in Int /\ j.end \in Int /\ (j.start < j.end \/ j.end <= 0)
  PROVE  OverlapsAny(start, end, I) <=>
           \E s \in start .. end - 1 : OverlapsAny(s, s + 1, I)
<1>1. ASSUME NEW j \in I, Overlaps(start, end, j.start, j.end)
      PROVE  \E s \in start .. end - 1 : Overlaps(s, s + 1, j.start, j.end)
  <2>1. start < j.end /\ end > j.start BY <1>1 DEF Overlaps
  <2>2. j.start < j.end BY <2>1
  <2>3. CASE j.start <= start
    <3>1. start \in start .. end - 1 OBVIOUS
    <3>2. Overlaps(start, start + 1, j.start, j.end) BY <2>1, <2>3 DEF Overlaps
    <3> QED BY <3>1, <3>2
  <2>4. CASE start < j.start
    <3>1. j.start \in start .. end - 1 BY <2>1, <2>4
    <3>2. Overlaps(j.start, j.start + 1, j.start, j.end) BY <2>2 DEF Overlaps
    <3> QED BY <3>1, <3>2
  <2> QED BY <2>3, <2>4
<1>2. ASSUME NEW s \in start .. end - 1, NEW j \in I, Overlaps(s, s + 1, j.start, j.end)
      PROVE  Overlaps(start, end, j.start, j.end)
  BY <1>2 DEF Overlaps
<1> QED BY <1>1, <1>2 DEF OverlapsAny

(* The closed hours of a space are whole intervals of the day, or empty.   *)
LEMMA ClosedIntervalsType ==
  ASSUME NEW from \in Time, NEW to \in Time
  PROVE  \A j \in ClosedIntervals(from, to) :
           j.start \in Int /\ j.end \in Int /\ (j.start < j.end \/ j.end <= 0)
<1> DEFINE f == NormalFrom(from)
           t == NormalTo(to)
<1>1. DefaultFrom \in 0 .. DayEnd - 1 /\ DefaultTo \in 0 .. DayEnd
  BY Zenon, ScheduleAssumption
<1>2. f \in 0 .. DayEnd - 1 BY <1>1, DayIsNat DEF NormalFrom, IsHourly, IsSlotStart
<1>3. t \in 0 .. DayEnd BY <1>1, DayIsNat DEF NormalTo, IsBoundary, IsSlotEnd, Time
<1> HIDE DEF f, t
<1>4. ClosedIntervals(from, to) =
        IF f = t THEN {[start |-> 0, end |-> DayEnd]}
        ELSE IF f < t THEN {[start |-> f, end |-> t]}
        ELSE {[start |-> 0, end |-> t], [start |-> f, end |-> DayEnd]}
  BY DEF ClosedIntervals, f, t
<1>5. CASE f = t BY <1>4, <1>5, DayIsNat
<1>6. CASE f # t /\ f < t BY <1>2, <1>3, <1>4, <1>6, DayIsNat
<1>7. CASE f # t /\ ~(f < t) BY <1>2, <1>3, <1>4, <1>7, DayIsNat
<1> QED BY <1>5, <1>6, <1>7

LEMMA TypeInit == Init => TypeOK
BY DEF Init, TypeOK

LEMMA TypeStep == TypeOK /\ [Next]_vars => TypeOK'
<1> SUFFICES ASSUME TypeOK, [Next]_vars PROVE TypeOK' OBVIOUS
<1>1. CASE Reserve \/ Block
  <2>1. \A i \in Interval : ValidTimes(i) => WellFormed(i) BY DEF ValidTimes, WellFormed
  <2> QED BY <1>1, <2>1 DEF TypeOK, Reserve, Block
<1>2. CASE Cancel \/ Unblock BY <1>2 DEF TypeOK, Cancel, Unblock
<1>3. CASE UpdateSpace BY <1>3 DEF TypeOK, UpdateSpace
<1>4. CASE UNCHANGED vars BY <1>4 DEF TypeOK, vars
<1> QED BY <1>1, <1>2, <1>3, <1>4 DEF Next

LEMMA TypeAgrees == TypeOK => CalendarAgrees
<1> SUFFICES ASSUME TypeOK, NEW i \in {j \in Interval : WellFormed(j)}
             PROVE  Bookable(i) <=> \A s \in i.start .. i.end - 1 : ShownCalendar[s] = "available"
  BY DEF CalendarAgrees
<1> DEFINE range == i.start .. i.end - 1
           closed == ClosedIntervals(closedFrom, closedTo)
<1>1. /\ i.start \in Nat /\ i.end \in Nat /\ i.start < i.end
      /\ range \subseteq Slots /\ i.start \in range
  BY DayIsNat DEF WellFormed, IsSlotStart, IsSlotEnd, Interval, Time, Slots
<1>2. /\ {j \in reserved : WellFormed(j)} = reserved
      /\ {j \in blocked : WellFormed(j)} = blocked
  BY DEF TypeOK
<1>3. /\ \A j \in reserved : j.start \in Int /\ j.end \in Int /\ (j.start < j.end \/ j.end <= 0)
      /\ \A j \in blocked : j.start \in Int /\ j.end \in Int /\ (j.start < j.end \/ j.end <= 0)
  BY DayIsNat DEF TypeOK, WellFormed, IsSlotStart, IsSlotEnd, Time
<1>4. closedFrom \in Time /\ closedTo \in Time
  <2>1. /\ DefaultFrom \in 0 .. DayEnd - 1 /\ DefaultTo \in 0 .. DayEnd
        /\ FromTimes \subseteq Time /\ ToTimes \subseteq Time
    BY Zenon, ScheduleAssumption, DayAssumption
  <2> QED BY <2>1, DayIsNat DEF TypeOK, Time
<1>5. \A j \in closed : j.start \in Int /\ j.end \in Int /\ (j.start < j.end \/ j.end <= 0)
  BY <1>4, ClosedIntervalsType
<1>6. /\ OverlapsAny(i.start, i.end, reserved) <=> \E s \in range : OverlapsAny(s, s + 1, reserved)
      /\ OverlapsAny(i.start, i.end, blocked) <=> \E s \in range : OverlapsAny(s, s + 1, blocked)
      /\ OverlapsAny(i.start, i.end, closed) <=> \E s \in range : OverlapsAny(s, s + 1, closed)
  <2> HIDE DEF closed
  <2> QED BY <1>1, <1>3, <1>5, SlotsDecide
<1>7. \A s \in range :
        Calendar[s] = "available" <=> /\ ~OverlapsAny(s, s + 1, closed)
                                      /\ ~OverlapsAny(s, s + 1, blocked)
                                      /\ ~OverlapsAny(s, s + 1, reserved)
  BY <1>1, <1>2 DEF Calendar, BuildAvailability, OverlapsClosedHours, Slots
<1>8. \A s \in range :
        ShownCalendar[s] = "available" <=> reservable /\ Calendar[s] = "available"
  BY <1>1 DEF ShownCalendar, TypeOK
<1> QED BY <1>1, <1>6, <1>7, <1>8 DEF Bookable, OverlapsClosedHours

(* Every stored row stays well formed, whatever staff and clients do.      *)
THEOREM DayTypeCorrect == Spec => []TypeOK
BY TypeInit, TypeStep, PTL DEF Spec

(* getAvailability and checkSlotAvailability never disagree: an interval   *)
(* can be booked exactly when the calendar shows all of it as available.   *)
THEOREM CalendarIsTruthful == Spec => []CalendarAgrees
BY DayTypeCorrect, TypeAgrees, PTL

-------------------------------------------------------------------------------
(* The hours of the report. *)

LEMMA DefaultHours ==
  /\ DefaultFrom \in 0 .. DayEnd - 1 /\ DefaultFrom % 2 = 0
  /\ DefaultTo \in 0 .. DayEnd /\ DefaultTo % 2 = 0
BY Zenon, ScheduleAssumption

(* Hours as the validators store them are read back as they are. *)
LEMMA StoredHours ==
  ASSUME TypeOK, closedFrom # DayEnd
  PROVE  /\ closedFrom \in 0 .. DayEnd - 1 /\ closedFrom % 2 = 0
         /\ closedTo \in 0 .. DayEnd /\ closedTo % 2 = 0
         /\ NormalFrom(closedFrom) = closedFrom /\ NormalTo(closedTo) = closedTo
<1>1. /\ \A f \in FromTimes : f \in Time /\ IsBoundary(f)
      /\ \A t \in ToTimes : t \in Time /\ IsBoundary(t)
  BY DayAssumption
<1>2. closedFrom \in 0 .. DayEnd - 1 /\ closedFrom % 2 = 0
  BY <1>1, DayIsNat, DefaultHours DEF TypeOK, Time, IsBoundary
<1>3. closedTo \in 0 .. DayEnd /\ closedTo % 2 = 0
  BY <1>1, DayIsNat, DefaultHours DEF TypeOK, Time, IsBoundary
<1> QED BY <1>2, <1>3 DEF NormalFrom, NormalTo, IsHourly, IsBoundary, IsSlotStart, IsSlotEnd, Time

(* A half hour is closed when it lies in the closed period.                *)
LEMMA ClosedSlot ==
  ASSUME NEW s \in Slots, NEW from \in 0 .. DayEnd - 1, NEW to \in 0 .. DayEnd,
         NormalFrom(from) = from, NormalTo(to) = to
  PROVE  OverlapsClosedHours(s, s + 1, from, to) <=>
           \/ from = to
           \/ from < to /\ from <= s /\ s < to
           \/ from > to /\ (s < to \/ from <= s)
<1>1. /\ s \in Nat /\ s < DayEnd /\ DayEnd \in Nat /\ from \in Nat /\ to \in Nat
      /\ from < DayEnd /\ to <= DayEnd
  BY DayIsNat DEF Slots
<1>2. ClosedIntervals(from, to) =
        IF from = to THEN {[start |-> 0, end |-> DayEnd]}
        ELSE IF from < to THEN {[start |-> from, end |-> to]}
        ELSE {[start |-> 0, end |-> to], [start |-> from, end |-> DayEnd]}
  BY DEF ClosedIntervals
<1>3. ASSUME NEW a \in Nat, NEW b \in Nat
      PROVE  LET j == [start |-> a, end |-> b]
             IN  Overlaps(s, s + 1, j.start, j.end) <=> s < b /\ a <= s
  BY <1>1 DEF Overlaps
<1> DEFINE Hit(I) == OverlapsAny(s, s + 1, I)
<1>4. CASE from = to
  <2>1. Hit({[start |-> 0, end |-> DayEnd]}) BY <1>1, <1>3 DEF OverlapsAny
  <2> QED BY <1>2, <1>4, <2>1 DEF OverlapsClosedHours
<1>5. CASE from < to
  <2>1. Hit({[start |-> from, end |-> to]}) <=> s < to /\ from <= s
    BY <1>1, <1>3 DEF OverlapsAny
  <2> QED BY <1>1, <1>2, <1>5, <2>1 DEF OverlapsClosedHours
<1>6. CASE from > to
  <2>1. Hit({[start |-> 0, end |-> to], [start |-> from, end |-> DayEnd]}) <=> s < to \/ from <= s
    BY <1>1, <1>3 DEF OverlapsAny
  <2> QED BY <1>1, <1>2, <1>6, <2>1 DEF OverlapsClosedHours
<1> QED BY <1>1, <1>4, <1>5, <1>6

LEMMA TypeHours == TypeOK => HoursAgree
<1> SUFFICES ASSUME TypeOK, closedFrom # DayEnd
             PROVE  OperationalHours = {s \div 2 : s \in OpenSlots}
  BY DEF HoursAgree
<1> DEFINE from == closedFrom
           to == closedTo
           Shut(s) == \/ from = to
                      \/ from < to /\ from <= s /\ s < to
                      \/ from > to /\ (s < to \/ from <= s)
<1>1. /\ from \in 0 .. DayEnd - 1 /\ from % 2 = 0 /\ to \in 0 .. DayEnd /\ to % 2 = 0
      /\ DayEnd \in Nat
  BY StoredHours, DayIsNat
<1>2. \A s \in Slots : s \in OpenSlots <=> ~Shut(s)
  <2> TAKE s \in Slots
  <2>1. OverlapsClosedHours(s, s + 1, from, to) <=> Shut(s)
    BY <1>1, StoredHours, ClosedSlot
  <2>2. Calendar[s] = "closed" <=> OverlapsClosedHours(s, s + 1, from, to)
    BY DEF Calendar, BuildAvailability, Slots
  <2> QED BY <2>1, <2>2 DEF OpenSlots
<1>3. \A h \in {s \div 2 : s \in Slots} : h \in OperationalHours <=>
        /\ from # to
        /\ IF from < to THEN ~(2*h >= from /\ 2*h + 2 <= to)
           ELSE ~(2*h >= from \/ 2*h + 2 <= to)
  BY DEF OperationalHours
<1>4. ASSUME NEW s \in Slots
      PROVE  /\ 2 * (s \div 2) \in Slots /\ (2 * (s \div 2)) \div 2 = s \div 2
             /\ s \in {2 * (s \div 2), 2 * (s \div 2) + 1}
  BY <1>1 DEF Slots
<1>5. \A s \in Slots : s \in OpenSlots => s \div 2 \in OperationalHours
  <2> SUFFICES ASSUME NEW s \in Slots, ~Shut(s) PROVE s \div 2 \in OperationalHours BY <1>2
  <2>1. s \in Nat BY <1>1 DEF Slots
  <2>2. PICK h \in Nat : h = s \div 2 /\ (s = 2*h \/ s = 2*h + 1)
    BY <1>4, <2>1
  <2>3. PICK f \in Nat, t \in Nat : from = 2*f /\ to = 2*t
    BY <1>1
  <2>4. from # to /\ IF from < to THEN ~(2*h >= from /\ 2*h + 2 <= to)
                      ELSE ~(2*h >= from \/ 2*h + 2 <= to)
    BY <2>1, <2>2, <2>3
  <2> QED BY <1>3, <2>2, <2>4
<1>6. \A h \in OperationalHours : \E s \in OpenSlots : h = s \div 2
  <2> SUFFICES ASSUME NEW h \in OperationalHours PROVE \E s \in OpenSlots : h = s \div 2
    OBVIOUS
  <2>1. PICK s \in Slots : h = s \div 2 BY DEF OperationalHours
  <2>2. s \in Nat /\ h \in Nat /\ 2*h \in Slots /\ (2*h) \div 2 = h BY <1>1, <1>4, <2>1 DEF Slots
  <2>3. /\ from # to
        /\ IF from < to THEN ~(2*h >= from /\ 2*h + 2 <= to)
           ELSE ~(2*h >= from \/ 2*h + 2 <= to)
    BY <1>3, <2>1
  <2>4. PICK f \in Nat, t \in Nat : from = 2*f /\ to = 2*t BY <1>1
  <2>5. ~Shut(2*h) BY <2>2, <2>3, <2>4
  <2> QED BY <1>2, <2>2, <2>5
<1>7. OpenSlots \subseteq Slots BY DEF OpenSlots
<1> QED BY <1>5, <1>6, <1>7

(* The hours that getSpaceReport lists, computed from the columns of the    *)
(* space, are those of the half hours its calendar leaves open, whatever    *)
(* the hours staff set: also hours that wrap midnight, that leave nothing   *)
(* open, or in a day of any length.                                         *)
THEOREM HoursAreTruthful == Spec => []HoursAgree
BY DayTypeCorrect, TypeHours, PTL

-------------------------------------------------------------------------------
(* A reservation that the calendar shows as the viewer's own is among      *)
(* "Minhas Reservas" and can be canceled by him, unless he became          *)
(* maintenance since; it is nobody else's own; and one that was made on    *)
(* his behalf he can cancel but, unless he is staff, not edit.             *)
THEOREM OwnIsManageable ==
  ASSUME NEW r \in Reservation, NEW v \in People
  PROVE  /\ \A m \in BOOLEAN : CalendarEntry(r, v, m).isSelf =>
              /\ r \in Mine({r}, v)
              /\ RoleOf[v] # "maintenance" => May(v, r, "cancel")
              /\ \A u \in People, n \in BOOLEAN : CalendarEntry(r, u, n).isSelf => u = v
         /\ r \in Mine({r}, v) /\ MineEntry(r, v).onBehalfOfMe /\ RoleOf[v] # "maintenance" =>
              /\ May(v, r, "cancel")
              /\ May(v, r, "edit") => RoleOf[v] = "staff"
<1>1. r.user \in People /\ r.requester \in People \union {NoOne} BY DEF Reservation
<1>2. NoOne \notin People BY PrivacyAssumption
<1>3. ASSUME NEW u \in People, NEW m \in BOOLEAN
      PROVE  CalendarEntry(r, u, m).isSelf <=>
               u = IF r.requester # NoOne THEN r.requester ELSE IF r.named THEN NoOne ELSE r.user
  BY DEF CalendarEntry, IsSelf, Author
<1>4. ASSUME NEW m \in BOOLEAN, CalendarEntry(r, v, m).isSelf
      PROVE  /\ r.user = v \/ r.requester = v
             /\ \A u \in People, n \in BOOLEAN : CalendarEntry(r, u, n).isSelf => u = v
  BY <1>1, <1>2, <1>3, <1>4
<1>5. \A m \in BOOLEAN : CalendarEntry(r, v, m).isSelf =>
        /\ r \in Mine({r}, v)
        /\ RoleOf[v] # "maintenance" => May(v, r, "cancel")
        /\ \A u \in People, n \in BOOLEAN : CalendarEntry(r, u, n).isSelf => u = v
  BY <1>4 DEF Mine, May, CanManage
<1>6. MineEntry(r, v).onBehalfOfMe <=> r.requester = v /\ r.user # v
  BY DEF MineEntry
<1>7. MineEntry(r, v).onBehalfOfMe /\ RoleOf[v] # "maintenance" =>
        May(v, r, "cancel") /\ (May(v, r, "edit") => RoleOf[v] = "staff")
  BY <1>6 DEF May, CanManage
<1> QED BY <1>5, <1>7

(* A student who does not manage the space learns no name but his own from *)
(* the calendar or the report, whoever owns the reservation and whomever   *)
(* it was made for.  "Minhas Reservas" does show a viewer, students        *)
(* included, the names of others, and only these: of who registered a      *)
(* reservation that was made on the viewer's behalf, and of whom he        *)
(* himself registered one for.  A contact is for staff.                    *)
THEOREM NamesStayPrivate ==
  ASSUME NEW r \in Reservation, NEW v \in People, NEW m \in BOOLEAN
  PROVE  /\ RoleOf[v] = "student" /\ ~m =>
              /\ CalendarEntry(r, v, m).name \in {v, RoleLabel}
              /\ ReportEntry(r, v).name \in {v, RoleLabel}
         /\ r \in Mine({r}, v) =>
              LET mine == MineEntry(r, v)
              IN  /\ mine.registeredBy # v <=> mine.onBehalfOfMe
                  /\ mine.onBehalfOfMe => mine.requester = v
                  /\ mine.requester \notin {v, NoOne} => mine.registeredBy = v
         /\ CalendarEntry(r, v, m).contact \/ MineEntry(r, v).contact => RoleOf[v] = "staff"
<1>1. IsSelf(Author(r), v) => Author(r).name = v
  BY PrivacyAssumption DEF IsSelf, Author
<1>2. RoleOf[v] = "student" => RoleOf[v] \notin Privileged BY DEF Privileged
<1>3. RoleOf[v] = "student" /\ ~m => DisplayName(Author(r), v, m) \in {v, RoleLabel}
  BY <1>1, <1>2 DEF DisplayName
<1>4. RoleOf[v] = "student" => DisplayName(Author(r), v, FALSE) \in {v, RoleLabel}
  BY <1>1, <1>2 DEF DisplayName
<1>5. ContactShown(r, v) => RoleOf[v] = "staff" BY DEF ContactShown
<1>6. ASSUME r \in Mine({r}, v)
      PROVE  /\ MineEntry(r, v).registeredBy # v <=> MineEntry(r, v).onBehalfOfMe
             /\ MineEntry(r, v).onBehalfOfMe => MineEntry(r, v).requester = v
             /\ MineEntry(r, v).requester \notin {v, NoOne} => MineEntry(r, v).registeredBy = v
  <2>1. v # NoOne BY PrivacyAssumption
  <2>2. r.user = v \/ r.requester = v BY <1>6 DEF Mine
  <2> QED BY <2>1, <2>2 DEF MineEntry
<1> QED BY <1>3, <1>4, <1>5, <1>6 DEF CalendarEntry, ReportEntry, MineEntry

-------------------------------------------------------------------------------
(* The reports.  Both are brought to the same terms: what is counted on    *)
(* each day of each space (Booked, Kept, Used, Opened ...), summed over    *)
(* sets of those cells.  Then they are compared.                           *)

(* A quotient of sums lies between the quotients of what is summed.        *)
Under(o, p, k) == IF p = 0 THEN o = 0 ELSE 200 * o + p < k * p
Over(o, p, k) == k * p <= 200 * o + p

LEMMA UnderAdd ==
  ASSUME NEW a \in Nat, NEW b \in Nat, NEW o \in Nat, NEW p \in Nat, NEW k \in Nat
  PROVE  /\ Under(a, b, k) /\ Under(o, p, k) => Under(a + o, b + p, k)
         /\ Over(a, b, k) /\ Over(o, p, k) => Over(a + o, b + p, k)
<1>1. k * (b + p) = k * b + k * p OBVIOUS
<1>2. k * b \in Nat /\ k * p \in Nat OBVIOUS
<1>3. 200 * (a + o) + (b + p) = (200 * a + b) + (200 * o + p) OBVIOUS
<1> DEFINE x == k * b
           y == k * p
<1> HIDE DEF x, y
<1>4. k * (b + p) = x + y /\ x \in Nat /\ y \in Nat BY <1>1, <1>2 DEF x, y
<1>5. Under(a, b, k) = IF b = 0 THEN a = 0 ELSE 200 * a + b < x BY DEF Under, x
<1>6. Under(o, p, k) = IF p = 0 THEN o = 0 ELSE 200 * o + p < y BY DEF Under, y
<1>7. Under(a + o, b + p, k) = IF b + p = 0 THEN a + o = 0 ELSE 200 * (a + o) + (b + p) < x + y
  BY <1>4 DEF Under
<1>8. Over(a, b, k) = (x <= 200 * a + b) /\ Over(o, p, k) = (y <= 200 * o + p) BY DEF Over, x, y
<1>9. Over(a + o, b + p, k) = (x + y <= 200 * (a + o) + (b + p)) BY <1>4 DEF Over
<1>10. (b = 0 => x = 0) /\ (p = 0 => y = 0) BY DEF x, y
<1>11. ASSUME Under(a, b, k), Under(o, p, k) PROVE Under(a + o, b + p, k)
  <2>1. CASE b = 0 /\ p = 0 BY <1>5, <1>6, <1>7, <1>11, <2>1
  <2>2. CASE b = 0 /\ p # 0 BY <1>4, <1>5, <1>6, <1>7, <1>10, <1>11, <2>2
  <2>3. CASE b # 0 /\ p = 0 BY <1>4, <1>5, <1>6, <1>7, <1>10, <1>11, <2>3
  <2>4. CASE b # 0 /\ p # 0 BY <1>4, <1>5, <1>6, <1>7, <1>11, <2>4
  <2> QED BY <2>1, <2>2, <2>3, <2>4
<1>12. ASSUME Over(a, b, k), Over(o, p, k) PROVE Over(a + o, b + p, k)
  BY <1>4, <1>8, <1>9, <1>12
<1> QED BY <1>11, <1>12

LEMMA SumUnder ==
  ASSUME NEW o, NEW p, NEW S, Adds(o, S), Adds(p, S), NEW k \in Nat
  PROVE  /\ (\A x \in S : Under(o[x], p[x], k)) =>
              Under(SumFunctionOnSet(o, S), SumFunctionOnSet(p, S), k)
         /\ (\A x \in S : Over(o[x], p[x], k)) =>
              Over(SumFunctionOnSet(o, S), SumFunctionOnSet(p, S), k)
<1> DEFINE F(T) == SumFunctionOnSet(o, T)
           G(T) == SumFunctionOnSet(p, T)
           C == {T \in SUBSET S :
                   /\ (\A x \in T : Under(o[x], p[x], k)) => Under(F(T), G(T), k)
                   /\ (\A x \in T : Over(o[x], p[x], k)) => Over(F(T), G(T), k)}
<1>1. {} \in C
  <2>1. F({}) = 0 /\ G({}) = 0 BY SumEmpty
  <2>2. Under(F({}), G({}), k) /\ Over(F({}), G({}), k)
    <3> HIDE DEF F, G
    <3> QED BY <2>1 DEF Under, Over
  <2> HIDE DEF F, G
  <2> QED BY <2>2
<1>2. ASSUME NEW T \in SUBSET S, T # {}, \A y \in T : T \ {y} \in C PROVE T \in C
  <2>1. PICK y \in T : TRUE BY <1>2
  <2>2. F(T) = o[y] + F(T \ {y}) BY AddsPart, SumTakesOut
  <2>3. G(T) = p[y] + G(T \ {y}) BY AddsPart, SumTakesOut
  <2>4. /\ (\A x \in T \ {y} : Under(o[x], p[x], k)) => Under(F(T \ {y}), G(T \ {y}), k)
        /\ (\A x \in T \ {y} : Over(o[x], p[x], k)) => Over(F(T \ {y}), G(T \ {y}), k)
    BY <1>2
  <2>5. /\ F(T \ {y}) \in Nat /\ G(T \ {y}) \in Nat /\ o[y] \in Nat /\ p[y] \in Nat
    <3>1. Adds(o, T \ {y}) /\ Adds(p, T \ {y}) BY AddsPart
    <3> QED BY <3>1, SumType DEF Adds
  <2> HIDE DEF F, G
  <2>6. ASSUME \A x \in T : Under(o[x], p[x], k) PROVE Under(F(T), G(T), k)
    BY <2>2, <2>3, <2>4, <2>5, <2>6, UnderAdd
  <2>7. ASSUME \A x \in T : Over(o[x], p[x], k) PROVE Over(F(T), G(T), k)
    BY <2>2, <2>3, <2>4, <2>5, <2>7, UnderAdd
  <2> QED BY <2>6, <2>7
<1> HIDE DEF C
<1>3. SUBSET S \subseteq C BY <1>1, <1>2, FiniteDescent DEF Adds
<1>4. S \in C BY <1>3
<1> QED BY <1>4 DEF C

(* The dates of a period are its days. *)
LEMMA PeriodDays ==
  ASSUME NEW from \in Days, NEW to \in Days, from <= to
  PROVE  /\ from \in Nat /\ to \in Nat /\ from .. to \subseteq Days /\ from \in from .. to
         /\ IsFiniteSet(from .. to) /\ Range(DateRange(from, to)) = from .. to
         /\ DOMAIN DateRange(from, to) = 1 .. to - from + 1
         /\ \A k \in 1 .. to - from + 1 :
              DateRange(from, to)[k] = from + k - 1 /\ from + k - 1 \in from .. to
<1>1. from \in Nat /\ to \in Nat /\ from .. to \subseteq Days BY ReportAssumption
<1>2. IsFiniteSet(from .. to) BY <1>1, FS_Interval
<1>3. /\ DOMAIN DateRange(from, to) = 1 .. to - from + 1
      /\ \A k \in 1 .. to - from + 1 :
              DateRange(from, to)[k] = from + k - 1 /\ from + k - 1 \in from .. to
  BY <1>1 DEF DateRange
<1>4. ASSUME NEW d \in from .. to PROVE d \in Range(DateRange(from, to))
  <2>1. d - from + 1 \in 1 .. to - from + 1 /\ from + (d - from + 1) - 1 = d BY <1>1
  <2>2. DateRange(from, to)[d - from + 1] = d BY <1>3, <2>1
  <2> QED BY <1>3, <2>1, <2>2 DEF Range
<1>5. Range(DateRange(from, to)) \subseteq from .. to BY <1>3 DEF Range
<1>6. Range(DateRange(from, to)) = from .. to BY <1>4, <1>5
<1>7. from \in from .. to BY <1>1
<1> QED BY <1>1, <1>2, <1>3, <1>6, <1>7

LEMMA StoredFinite == IsFiniteSet(StoredRows)
<1> DEFINE P == Time \X Time
           m == [c \in P |-> [start |-> c[1], end |-> c[2]]]
<1>1. IsFiniteSet(Time)
  <2>1. 0 \in Int /\ DayEnd \in Int BY DayIsNat
  <2> QED BY <2>1, FS_Interval DEF Time
<1>2. IsFiniteSet(P) BY <1>1, FS_Product
<1>3. m \in Surjection(P, Interval)
  <2>1. m \in [P -> Interval] BY DEF Interval
  <2>2. ASSUME NEW i \in Interval PROVE \E c \in P : m[c] = i
    <3>1. i.start \in Time /\ i.end \in Time /\ i = [start |-> i.start, end |-> i.end]
      BY DEF Interval
    <3>2. <<i.start, i.end>> \in P BY <3>1
    <3>3. m[<<i.start, i.end>>] = i BY <3>1, <3>2
    <3> QED BY <3>2, <3>3
  <2> HIDE DEF m, P
  <2> QED BY <2>1, <2>2 DEF Surjection
<1>4. IsFiniteSet(Interval)
  <2> HIDE DEF m, P
  <2> QED BY <1>2, <1>3, FS_Surjection
<1> QED BY <1>4, FS_Subset DEF StoredRows

(* What is stored on a day of a space in the period. *)
LEMMA DayRows ==
  ASSUME TypeOK, NEW s \in Spaces, NEW d \in Days
  PROVE  /\ OnDay(s, d).reserved \subseteq StoredRows /\ IsFiniteSet(OnDay(s, d).reserved)
         /\ OnDay(s, d).blocked \subseteq StoredRows /\ IsFiniteSet(OnDay(s, d).blocked)
         /\ Cardinality(OnDay(s, d).reserved) \in Nat /\ Cardinality(OnDay(s, d).blocked) \in Nat
<1>1. /\ OnDay(s, d).reserved \subseteq StoredRows
      /\ OnDay(s, d).blocked \subseteq StoredRows
  <2>1. CASE s = room /\ d = Min(Days) BY <2>1 DEF OnDay, TypeOK, StoredRows
  <2>2. CASE ~(s = room /\ d = Min(Days))
    <3>1. <<s, d>> \in (Spaces \X Days) \ {<<room, Min(Days)>>} BY <2>2
    <3>2. Rows[<<s, d>>] \in [reserved : SUBSET StoredRows, blocked : SUBSET StoredRows]
      BY <3>1, ReportAssumption
    <3> QED BY <2>2, <3>2 DEF OnDay
  <2> QED BY <2>1, <2>2
<1> QED BY <1>1, StoredFinite, FS_Subset, FS_CardinalityType

(* The half hours of a day, and how they are counted. *)
LEMMA DaySlotsAre ==
  ASSUME NEW s, NEW d
  PROVE  /\ DOMAIN DaySlots(s, d) = Slots
         /\ \A k \in Slots : DaySlots(s, d)[k] \in {"closed", "blocked", "reserved", "available"}
BY DEF DaySlots, BuildAvailability, Slots

LEMMA SlotsCounted ==
  ASSUME NEW slots, DOMAIN slots = Slots
  PROVE  /\ Open(slots) \subseteq Slots /\ IsFiniteSet(Open(slots))
         /\ Cardinality(Open(slots)) \in Nat /\ InUse(slots) \in Nat
         /\ InUse(slots) <= Cardinality(Open(slots))
         /\ InUse(slots) = WithStatus(slots, "reserved") + WithStatus(slots, "blocked")
         /\ Cardinality(Open(slots)) = 0 <=> Open(slots) = {}
<1> DEFINE Of(status) == {k \in DOMAIN slots : slots[k] = status}
           U == {k \in DOMAIN slots : slots[k] \in {"reserved", "blocked"}}
<1>1. IsFiniteSet(Slots)
  <2>1. 0 \in Int /\ DayEnd - 1 \in Int BY DayIsNat
  <2> QED BY <2>1, FS_Interval DEF Slots
<1>2. Open(slots) \subseteq Slots BY DEF Open
<1>3. U \subseteq Open(slots) BY DEF Open
<1>4. IsFiniteSet(Open(slots)) /\ Cardinality(Open(slots)) \in Nat
  BY <1>1, <1>2, FS_Subset, FS_CardinalityType
<1>5. IsFiniteSet(U) /\ Cardinality(U) \in Nat /\ Cardinality(U) <= Cardinality(Open(slots))
  BY <1>3, <1>4, FS_Subset, FS_CardinalityType
<1> DEFINE R == Of("reserved")
           B == Of("blocked")
<1>6. U = R \union B /\ R \intersect B = {} OBVIOUS
<1>7. Cardinality(U) = Cardinality(R) + Cardinality(B)
  <2>1. IsFiniteSet(R) /\ IsFiniteSet(B) BY <1>1, FS_Subset
  <2> HIDE DEF U, R, B
  <2>2. Cardinality(R \intersect B) = 0 BY <1>6, FS_EmptySet
  <2>3. Cardinality(R) \in Nat /\ Cardinality(B) \in Nat BY <2>1, FS_CardinalityType
  <2>4. Cardinality(R \union B) = Cardinality(R) + Cardinality(B) - Cardinality(R \intersect B)
    BY <2>1, FS_Union
  <2> QED BY <1>6, <2>2, <2>3, <2>4
<1>8. InUse(slots) = Cardinality(U) BY Zenon DEF InUse
<1>9. WithStatus(slots, "reserved") = Cardinality(R) /\ WithStatus(slots, "blocked") = Cardinality(B)
  BY Zenon DEF WithStatus
<1>10. Cardinality(Open(slots)) = 0 <=> Open(slots) = {} BY <1>4, FS_EmptySet
<1> HIDE DEF U, R, B
<1> QED BY <1>2, <1>4, <1>5, <1>7, <1>8, <1>9, <1>10

(* The rates. *)
LEMMA RateIs ==
  ASSUME NEW o \in Nat, NEW p \in Nat, o <= p
  PROVE  /\ Rate(o, p) \in 0 .. 100
         /\ Rate(o, p) = IF p = 0 THEN 0 ELSE Percent(o, p)
<1>1. CASE p = 0 BY <1>1 DEF Rate
<1>2. CASE p # 0
  <2>1. 2 * p \in Nat /\ 2 * p > 0 /\ 200 * o + p \in Nat BY <1>2
  <2>2. Percent(o, p) \in Nat BY <2>1 DEF Percent
  <2>3. Percent(o, p) <= 100
    <3>1. 200 * o + p < 101 * (2 * p) BY <1>2
    <3>2. \A n, q \in Nat : q > 0 /\ n < 101 * q => n \div q <= 100 OBVIOUS
    <3> QED BY <2>1, <3>1, <3>2 DEF Percent
  <2>4. Percent(o, p) \in {100, Percent(o, p)} /\ \A y \in {100, Percent(o, p)} : Percent(o, p) <= y
    BY <2>2, <2>3
  <2>5. Min({100, Percent(o, p)}) = Percent(o, p)
    <3> DEFINE m == Min({100, Percent(o, p)})
    <3>1. m \in {100, Percent(o, p)} /\ \A y \in {100, Percent(o, p)} : m <= y
      BY <2>4 DEF Min
    <3> QED BY <2>2, <2>3, <3>1
  <2> QED BY <1>2, <2>2, <2>3, <2>5 DEF Rate
<1> QED BY <1>1, <1>2

(* A rate is at most R when what it rounds is under R + 1/2, and at least  *)
(* R when it is not under R - 1/2.                                         *)
LEMMA RateUnder ==
  ASSUME NEW o \in Nat, NEW p \in Nat, o <= p, NEW R \in Nat
  PROVE  /\ Rate(o, p) <= R <=> Under(o, p, 2 * (R + 1))
         /\ Over(o, p, 2 * R) /\ p # 0 => R <= Rate(o, p)
         /\ R <= Rate(o, p) => Over(o, p, 2 * R)
<1>1. CASE p = 0
  <2>1. o = 0 /\ 2 * R * p = 0 BY <1>1
  <2>2. Rate(o, p) = 0 BY <1>1, RateIs
  <2> QED BY <1>1, <2>1, <2>2 DEF Under, Over
<1>2. CASE p # 0
  <2> DEFINE n == 200 * o + p
             q == 2 * p
  <2>1. n \in Nat /\ q \in Nat /\ q > 0 BY <1>2
  <2>2. Rate(o, p) = n \div q BY <1>2, RateIs DEF Percent
  <2>3. 2 * (R + 1) * p = (R + 1) * q /\ 2 * R * p = R * q OBVIOUS
  <2>4. \A a, b, c \in Nat : b > 0 => /\ a \div b <= c <=> a < (c + 1) * b
                                      /\ c <= a \div b <=> c * b <= a
    <3> TAKE a, b, c \in Nat
    <3> HAVE b > 0
    <3> DEFINE t == a \div b
               r == a % b
    <3>1. t \in Nat /\ r \in Nat /\ r < b /\ a = b * t + r OBVIOUS
    <3> HIDE DEF t, r
    <3>2. ASSUME t <= c PROVE a < (c + 1) * b
      <4>1. PICK e \in Nat : c = t + e BY <3>1, <3>2
      <4>2. (c + 1) * b = b * t + b * e + b BY <3>1, <4>1
      <4>3. b * e \in Nat BY <4>1
      <4> QED BY <3>1, <4>2, <4>3
    <3>3. ASSUME c < t PROVE (c + 1) * b <= a
      <4>1. PICK e \in Nat : t = c + 1 + e BY <3>1, <3>3
      <4>2. b * t = (c + 1) * b + b * e BY <3>1, <4>1
      <4>3. b * e \in Nat BY <4>1
      <4> QED BY <3>1, <4>2, <4>3
    <3>4. ASSUME c <= t PROVE c * b <= a
      <4>1. PICK e \in Nat : t = c + e BY <3>1, <3>4
      <4>2. b * t = c * b + b * e BY <3>1, <4>1
      <4>3. b * e \in Nat BY <4>1
      <4> QED BY <3>1, <4>2, <4>3
    <3>5. ASSUME t < c PROVE a < c * b
      <4>1. PICK e \in Nat : c = t + 1 + e BY <3>1, <3>5
      <4>2. c * b = b * t + b * e + b BY <3>1, <4>1
      <4>3. b * e \in Nat BY <4>1
      <4> QED BY <3>1, <4>2, <4>3
    <3>6. (c + 1) * b \in Nat /\ c * b \in Nat OBVIOUS
    <3>7. t <= c <=> a < (c + 1) * b BY <3>1, <3>2, <3>3, <3>6
    <3>8. c <= t <=> c * b <= a BY <3>1, <3>4, <3>5, <3>6
    <3> QED BY <3>7, <3>8 DEF t
  <2>5. /\ Under(o, p, 2 * (R + 1)) <=> n < (R + 1) * q
        /\ Over(o, p, 2 * R) <=> R * q <= n
    BY <1>2, <2>3 DEF Under, Over
  <2> HIDE DEF n, q
  <2>6. /\ n \div q <= R <=> n < (R + 1) * q
        /\ R <= n \div q <=> R * q <= n
    BY <2>1, <2>4
  <2> QED BY <2>2, <2>5, <2>6
<1> QED BY <1>1, <1>2

-------------------------------------------------------------------------------
(* What the reports count on each day of each space. *)
Cells == Spaces \X Days
Booked == [c \in Cells |-> Cardinality(OnDay(c[1], c[2]).reserved)]
Barred == [c \in Cells |-> Cardinality(OnDay(c[1], c[2]).blocked)]
Kept == [c \in Cells |-> Counted(OnDay(c[1], c[2]).reserved, DaySlots(c[1], c[2]))]
Used == [c \in Cells |-> InUse(DaySlots(c[1], c[2]))]
Opened == [c \in Cells |-> Cardinality(Open(DaySlots(c[1], c[2])))]
InTurn(turn) ==
  [c \in Cells |-> Cardinality({r \in OnDay(c[1], c[2]).reserved : Turn(r) = turn})]

LEMMA CellsCounted ==
  ASSUME TypeOK, NEW c \in Cells
  PROVE  /\ Booked[c] \in Nat /\ Barred[c] \in Nat /\ Used[c] \in Nat /\ Opened[c] \in Nat
         /\ Used[c] <= Opened[c]
         /\ Kept[c] = IF Opened[c] = 0 THEN 0 ELSE Booked[c]
         /\ \A turn : InTurn(turn)[c] \in Nat
<1>1. c[1] \in Spaces /\ c[2] \in Days /\ c = <<c[1], c[2]>> BY DEF Cells
<1>2. Booked[c] \in Nat /\ Barred[c] \in Nat BY <1>1, DayRows DEF Booked, Barred
<1>3. /\ Used[c] = InUse(DaySlots(c[1], c[2])) /\ Opened[c] = Cardinality(Open(DaySlots(c[1], c[2])))
      /\ DOMAIN DaySlots(c[1], c[2]) = Slots
  BY DaySlotsAre DEF Used, Opened
<1>4. /\ Used[c] \in Nat /\ Opened[c] \in Nat /\ Used[c] <= Opened[c]
      /\ Opened[c] = 0 <=> Open(DaySlots(c[1], c[2])) = {}
  BY <1>3, SlotsCounted
<1>5. Kept[c] = IF Opened[c] = 0 THEN 0 ELSE Booked[c]
  BY <1>4 DEF Kept, Counted, Booked
<1>6. ASSUME NEW turn PROVE InTurn(turn)[c] \in Nat
  <2> DEFINE T == {r \in OnDay(c[1], c[2]).reserved : Turn(r) = turn}
  <2>1. IsFiniteSet(T) BY <1>1, DayRows, FS_Subset
  <2>2. Cardinality(T) \in Nat
    <3> HIDE DEF T
    <3> QED BY <2>1, FS_CardinalityType
  <2>3. InTurn(turn)[c] = Cardinality(T) BY DEF InTurn
  <2> QED BY <2>2, <2>3
<1> QED BY <1>2, <1>4, <1>5, <1>6

LEMMA CellsAdd ==
  ASSUME TypeOK, NEW C \in SUBSET Cells, IsFiniteSet(C)
  PROVE  /\ Adds(Booked, C) /\ Adds(Barred, C) /\ Adds(Kept, C)
         /\ Adds(Used, C) /\ Adds(Opened, C)
         /\ \A turn : Adds(InTurn(turn), C)
         /\ SumFunctionOnSet(Used, C) \in Nat /\ SumFunctionOnSet(Opened, C) \in Nat
         /\ SumFunctionOnSet(Used, C) <= SumFunctionOnSet(Opened, C)
<1>1. ASSUME NEW c \in C
      PROVE  /\ Booked[c] \in Nat /\ Barred[c] \in Nat /\ Used[c] \in Nat /\ Opened[c] \in Nat
             /\ Used[c] <= Opened[c]
             /\ Kept[c] \in Nat
             /\ \A turn : InTurn(turn)[c] \in Nat
  <2>1. c \in Cells OBVIOUS
  <2> QED BY <2>1, CellsCounted
<1>2. /\ Adds(Booked, C) /\ Adds(Barred, C) /\ Adds(Kept, C)
      /\ Adds(Used, C) /\ Adds(Opened, C)
      /\ \A turn : Adds(InTurn(turn), C)
  BY <1>1 DEF Adds
<1>3. SumFunctionOnSet(Used, C) <= SumFunctionOnSet(Opened, C) BY <1>1, <1>2, SumBelow
<1> QED BY <1>2, <1>3, SumType

-------------------------------------------------------------------------------
(* The report over the spaces S, in terms of those counts. *)
RateOf(C) == Rate(SumFunctionOnSet(Used, C), SumFunctionOnSet(Opened, C))

LEMMA PartCells ==
  ASSUME NEW S \in SUBSET Spaces, NEW D \in SUBSET Days, IsFiniteSet(D)
  PROVE  S \X D \in SUBSET Cells /\ IsFiniteSet(S) /\ IsFiniteSet(S \X D)
<1>1. IsFiniteSet(Spaces) BY ReportAssumption, FS_AddElement DEF Spaces
<1> QED BY <1>1, FS_Subset, FS_Product DEF Cells

LEMMA ReportSpaces ==
  ASSUME TypeOK, NEW S \in SUBSET Spaces, NEW from \in Days, NEW to \in Days, from <= to
  PROVE  /\ DOMAIN Report(S, from, to).spaces = S
         /\ \A s \in S : Report(S, from, to).spaces[s] =
              [reservations |-> SumFunctionOnSet(Booked, Row(s, from .. to)),
               blockings |-> SumFunctionOnSet(Barred, Row(s, from .. to)),
               rate |-> RateOf(Row(s, from .. to))]
<1>1. DOMAIN Report(S, from, to).spaces = S BY DEF Report
<1> SUFFICES ASSUME NEW s \in S
             PROVE  Report(S, from, to).spaces[s] =
                      [reservations |-> SumFunctionOnSet(Booked, Row(s, from .. to)),
                       blockings |-> SumFunctionOnSet(Barred, Row(s, from .. to)),
                       rate |-> RateOf(Row(s, from .. to))]
  BY <1>1
<1> DEFINE dates == DateRange(from, to)
           Of == {s} \X Range(dates)
           C == Row(s, from .. to)
           slotsOf == [c \in S \X Range(dates) |-> DaySlots(c[1], c[2])]
           b == [c \in Of |-> Cardinality(OnDay(c[1], c[2]).reserved)]
           k == [c \in Of |-> Cardinality(OnDay(c[1], c[2]).blocked)]
           u == [c \in Of |-> InUse(slotsOf[c])]
           o == [c \in Of |-> Cardinality(Open(slotsOf[c]))]
<1>2. Report(S, from, to).spaces[s] =
        [reservations |-> SumFunction(b), blockings |-> SumFunction(k),
         rate |-> Rate(SumFunction(u), SumFunction(o))]
  BY DEF Report
<1>3. Of = C /\ C \in SUBSET Cells /\ IsFiniteSet(C) /\ Of \subseteq S \X Range(dates)
  <2>1. Range(dates) = from .. to /\ from .. to \in SUBSET Days /\ IsFiniteSet(from .. to)
    BY PeriodDays
  <2>2. {s} \in SUBSET Spaces OBVIOUS
  <2> QED BY <2>1, <2>2, PartCells DEF Row
<1>4. \A c \in C : c \in Cells /\ slotsOf[c] = DaySlots(c[1], c[2]) BY <1>3
<1>5. /\ DOMAIN b = C /\ \A c \in C : b[c] = Booked[c]
      /\ DOMAIN k = C /\ \A c \in C : k[c] = Barred[c]
      /\ DOMAIN u = C /\ \A c \in C : u[c] = Used[c]
      /\ DOMAIN o = C /\ \A c \in C : o[c] = Opened[c]
  <2> HIDE DEF slotsOf, Of, C
  <2> QED BY <1>3, <1>4 DEF Booked, Barred, Used, Opened
<1> HIDE DEF b, k, u, o, C, Of, slotsOf
<1>6. /\ SumFunction(b) = SumFunctionOnSet(Booked, C) /\ SumFunction(k) = SumFunctionOnSet(Barred, C)
      /\ SumFunction(u) = SumFunctionOnSet(Used, C) /\ SumFunction(o) = SumFunctionOnSet(Opened, C)
  BY <1>3, <1>5, CellsAdd, SumListed
<1> QED BY <1>2, <1>6 DEF RateOf, C

LEMMA ReportRate ==
  ASSUME TypeOK, NEW S \in SUBSET Spaces, NEW from \in Days, NEW to \in Days, from <= to
  PROVE  Report(S, from, to).rate = RateOf(Grid(S, from .. to))
<1> DEFINE dates == DateRange(from, to)
           C == S \X Range(dates)
           slotsOf == [c \in S \X Range(dates) |-> DaySlots(c[1], c[2])]
           u == [c \in C |-> InUse(slotsOf[c])]
           o == [c \in C |-> Cardinality(Open(slotsOf[c]))]
<1>2. Report(S, from, to).rate = Rate(SumFunction(u), SumFunction(o))
  BY DEF Report
<1>3. C = Grid(S, from .. to) /\ C \in SUBSET Cells /\ IsFiniteSet(C)
  <2>1. Range(dates) = from .. to /\ from .. to \in SUBSET Days /\ IsFiniteSet(from .. to)
    BY PeriodDays
  <2> QED BY <2>1, PartCells DEF Grid
<1>4. \A c \in C : c \in Cells /\ slotsOf[c] = DaySlots(c[1], c[2]) BY <1>3
<1>5. /\ DOMAIN u = C /\ \A c \in C : u[c] = Used[c]
      /\ DOMAIN o = C /\ \A c \in C : o[c] = Opened[c]
  <2> HIDE DEF slotsOf, C
  <2> QED BY <1>3, <1>4 DEF Used, Opened
<1> HIDE DEF u, o, C, slotsOf
<1>6. SumFunction(u) = SumFunctionOnSet(Used, C) /\ SumFunction(o) = SumFunctionOnSet(Opened, C)
  BY <1>3, <1>5, CellsAdd, SumListed
<1> QED BY <1>2, <1>3, <1>6 DEF RateOf

LEMMA ReportDays ==
  ASSUME TypeOK, NEW S \in SUBSET Spaces, NEW from \in Days, NEW to \in Days, from <= to
  PROVE  /\ Report(S, from, to).daily =
              [k \in 1 .. to - from + 1 |-> Report(S, from, to).daily[k]]
         /\ \A k \in 1 .. to - from + 1 : Report(S, from, to).daily[k] =
              [rate |-> RateOf(Column(S, from + k - 1)),
               reservations |-> SumFunctionOnSet(Kept, Column(S, from + k - 1))]
<1> DEFINE dates == DateRange(from, to)
<1>1. Report(S, from, to).daily = [k \in DOMAIN dates |-> Report(S, from, to).daily[k]]
  BY DEF Report
<1> SUFFICES ASSUME NEW k \in 1 .. to - from + 1
             PROVE  Report(S, from, to).daily[k] =
                      [rate |-> RateOf(Column(S, from + k - 1)),
                       reservations |-> SumFunctionOnSet(Kept, Column(S, from + k - 1))]
  <2>1. DOMAIN dates = 1 .. to - from + 1 BY PeriodDays
  <2> HIDE DEF dates
  <2> QED BY <1>1, <2>1
<1> DEFINE slotsOf == [c \in S \X Range(dates) |-> DaySlots(c[1], c[2])]
           C == S \X {dates[k]}
           u == [c \in C |-> InUse(slotsOf[c])]
           o == [c \in C |-> Cardinality(Open(slotsOf[c]))]
           b == [c \in C |-> Counted(OnDay(c[1], c[2]).reserved, slotsOf[c])]
<1>2. Report(S, from, to).daily[k] =
         [rate |-> Rate(SumFunction(u), SumFunction(o)), reservations |-> SumFunction(b)]
  <2>1. k \in DOMAIN dates BY PeriodDays
  <2> QED BY <2>1 DEF Report
<1>3. /\ C = Column(S, from + k - 1) /\ C \in SUBSET Cells /\ IsFiniteSet(C)
      /\ C \subseteq S \X Range(dates)
  <2>1. Range(dates) = from .. to /\ from .. to \in SUBSET Days BY PeriodDays
  <2>3. dates[k] = from + k - 1 /\ dates[k] \in from .. to
    <3>1. \A j \in 1 .. to - from + 1 : dates[j] = from + j - 1 /\ from + j - 1 \in from .. to
      BY PeriodDays
    <3> HIDE DEF dates
    <3> QED BY <3>1
  <2>2. {dates[k]} \in SUBSET Days /\ IsFiniteSet({dates[k]})
    BY <2>1, <2>3, FS_Singleton
  <2> QED BY <2>1, <2>2, <2>3, PartCells DEF Column
<1>4. \A c \in C : c \in Cells /\ slotsOf[c] = DaySlots(c[1], c[2]) BY <1>3
<1>5. /\ DOMAIN u = C /\ \A c \in C : u[c] = Used[c]
      /\ DOMAIN o = C /\ \A c \in C : o[c] = Opened[c]
      /\ DOMAIN b = C /\ \A c \in C : b[c] = Kept[c]
  <2> HIDE DEF slotsOf, C
  <2> QED BY <1>3, <1>4 DEF Used, Opened, Kept
<1> HIDE DEF u, o, b, C, slotsOf
<1>6. /\ SumFunction(u) = SumFunctionOnSet(Used, C) /\ SumFunction(o) = SumFunctionOnSet(Opened, C)
      /\ SumFunction(b) = SumFunctionOnSet(Kept, C)
  BY <1>3, <1>5, CellsAdd, SumListed
<1> QED BY <1>2, <1>3, <1>6 DEF RateOf

LEMMA ReportTurns ==
  ASSUME TypeOK, NEW S \in SUBSET Spaces, NEW from \in Days, NEW to \in Days, from <= to
  PROVE  /\ DOMAIN Report(S, from, to).turns = Turns
         /\ \A turn \in Turns : Report(S, from, to).turns[turn] =
              SumFunctionOnSet(InTurn(turn), Grid(S, from .. to))
<1>1. DOMAIN Report(S, from, to).turns = Turns BY DEF Report
<1> SUFFICES ASSUME NEW turn \in Turns
             PROVE  Report(S, from, to).turns[turn] =
                      SumFunctionOnSet(InTurn(turn), Grid(S, from .. to))
  BY <1>1
<1> DEFINE dates == DateRange(from, to)
           C == S \X Range(dates)
           t == [c \in C |-> Cardinality({r \in OnDay(c[1], c[2]).reserved : Turn(r) = turn})]
<1>2. Report(S, from, to).turns[turn] = SumFunction(t) BY DEF Report
<1>3. C = Grid(S, from .. to) /\ C \in SUBSET Cells /\ IsFiniteSet(C)
  <2>1. Range(dates) = from .. to /\ from .. to \in SUBSET Days /\ IsFiniteSet(from .. to)
    BY PeriodDays
  <2> QED BY <2>1, PartCells DEF Grid
<1>5. DOMAIN t = C /\ \A c \in C : t[c] = InTurn(turn)[c]
  <2> HIDE DEF C
  <2> QED BY <1>3 DEF InTurn
<1> HIDE DEF t, C
<1>6. SumFunction(t) = SumFunctionOnSet(InTurn(turn), C)
  BY <1>3, <1>5, CellsAdd, SumListed
<1> QED BY <1>2, <1>3, <1>6

(* The rate over many lies between the rates of those that open. *)
LEMMA RateBetween ==
  ASSUME NEW o, NEW p, NEW S, Adds(o, S), Adds(p, S), \A x \in S : o[x] <= p[x], NEW R \in Nat
  PROVE  /\ (\A x \in S : p[x] # 0 => Rate(o[x], p[x]) <= R) =>
              Rate(SumFunctionOnSet(o, S), SumFunctionOnSet(p, S)) <= R
         /\ (\A x \in S : p[x] # 0 => R <= Rate(o[x], p[x])) /\ (\E x \in S : p[x] # 0) =>
              R <= Rate(SumFunctionOnSet(o, S), SumFunctionOnSet(p, S))
<1> DEFINE O == SumFunctionOnSet(o, S)
           P == SumFunctionOnSet(p, S)
<1>1. \A x \in S : o[x] \in Nat /\ p[x] \in Nat BY DEF Adds
<1>2. O \in Nat /\ P \in Nat /\ O <= P BY SumType, SumBelow
<1>3. /\ (\A x \in S : Under(o[x], p[x], 2 * (R + 1))) => Under(O, P, 2 * (R + 1))
      /\ (\A x \in S : Over(o[x], p[x], 2 * R)) => Over(O, P, 2 * R)
  <2>1. 2 * (R + 1) \in Nat /\ 2 * R \in Nat OBVIOUS
  <2>2. \A k \in Nat : /\ (\A x \in S : Under(o[x], p[x], k)) => Under(O, P, k)
                       /\ (\A x \in S : Over(o[x], p[x], k)) => Over(O, P, k)
    BY SumUnder
  <2> HIDE DEF O, P
  <2> QED BY <2>1, <2>2
<1>4. ASSUME NEW x \in S, \E y \in S : p[y] # 0 PROVE P # 0
  <2>1. PICK y \in S : p[y] # 0 BY <1>4
  <2>2. P = p[y] + SumFunctionOnSet(p, S \ {y}) BY SumTakesOut
  <2>3. SumFunctionOnSet(p, S \ {y}) \in Nat
    <3>1. Adds(p, S \ {y}) BY AddsPart
    <3> QED BY <3>1, SumType
  <2> HIDE DEF P
  <2> QED BY <1>1, <2>1, <2>2, <2>3
<1> HIDE DEF O, P
<1>5. ASSUME \A x \in S : p[x] # 0 => Rate(o[x], p[x]) <= R PROVE Rate(O, P) <= R
  <2>1. ASSUME NEW x \in S PROVE Under(o[x], p[x], 2 * (R + 1))
    <3>1. CASE p[x] = 0
      <4>1. o[x] = 0 BY <1>1, <3>1
      <4> QED BY <3>1, <4>1 DEF Under
    <3>2. CASE p[x] # 0 BY <1>1, <1>5, <3>2, RateUnder
    <3> QED BY <3>1, <3>2
  <2> QED BY <1>2, <1>3, <2>1, RateUnder
<1>6. ASSUME \A x \in S : p[x] # 0 => R <= Rate(o[x], p[x]), \E x \in S : p[x] # 0
      PROVE  R <= Rate(O, P)
  <2>1. ASSUME NEW x \in S PROVE Over(o[x], p[x], 2 * R)
    <3>1. CASE p[x] = 0
      <4>1. o[x] = 0 /\ 2 * R * p[x] = 0 BY <1>1, <3>1
      <4> QED BY <3>1, <4>1 DEF Over
    <3>2. CASE p[x] # 0 BY <1>1, <1>6, <3>2, RateUnder
    <3> QED BY <3>1, <3>2
  <2>2. P # 0 BY <1>4, <1>6
  <2> QED BY <1>2, <1>3, <2>1, <2>2, RateUnder
<1> QED BY <1>5, <1>6 DEF O, P

(* The parts of a period as cells. *)
LEMMA GridCells ==
  ASSUME TypeOK, NEW S \in SUBSET Spaces, NEW from \in Days, NEW to \in Days, from <= to
  PROVE  /\ IsFiniteSet(S) /\ IsFiniteSet(from .. to)
         /\ Grid(S, from .. to) \in SUBSET Cells /\ IsFiniteSet(Grid(S, from .. to))
         /\ \A s \in S : Row(s, from .. to) \in SUBSET Cells /\ IsFiniteSet(Row(s, from .. to))
         /\ \A d \in from .. to : Column(S, d) \in SUBSET Cells /\ IsFiniteSet(Column(S, d))
<1>1. from .. to \in SUBSET Days /\ IsFiniteSet(from .. to) BY PeriodDays
<1>2. IsFiniteSet(S) /\ Grid(S, from .. to) \in SUBSET Cells /\ IsFiniteSet(Grid(S, from .. to))
  BY <1>1, PartCells DEF Grid
<1>3. ASSUME NEW s \in S
      PROVE  Row(s, from .. to) \in SUBSET Cells /\ IsFiniteSet(Row(s, from .. to))
  <2>1. {s} \in SUBSET Spaces OBVIOUS
  <2> QED BY <1>1, <2>1, PartCells DEF Row
<1>4. ASSUME NEW d \in from .. to
      PROVE  Column(S, d) \in SUBSET Cells /\ IsFiniteSet(Column(S, d))
  <2>1. {d} \in SUBSET Days /\ IsFiniteSet({d}) BY <1>1, FS_Singleton
  <2> QED BY <2>1, PartCells DEF Column
<1> QED BY <1>1, <1>2, <1>3, <1>4

(* The reservations of a grid, turn by turn. *)
LEMMA TurnsSum ==
  ASSUME TypeOK, NEW G \in SUBSET Cells, IsFiniteSet(G), NEW g, DOMAIN g = Turns,
         \A turn \in Turns : g[turn] = SumFunctionOnSet(InTurn(turn), G)
  PROVE  SumFunction(g) = SumFunctionOnSet(Booked, G)
<1> DEFINE r == [turn \in Turns |-> InTurn(turn)]
           q == [c \in G |-> [turn \in Turns |-> InTurn(turn)[c]]]
<1>1. IsFiniteSet(Turns)
  <2>1. IsFiniteSet({"morning"}) BY FS_Singleton
  <2>2. IsFiniteSet({"morning"} \union {"afternoon"}) BY <2>1, FS_AddElement
  <2>3. IsFiniteSet(({"morning"} \union {"afternoon"}) \union {"evening"})
    BY <2>2, FS_AddElement
  <2>4. Turns = ({"morning"} \union {"afternoon"}) \union {"evening"} BY DEF Turns
  <2> QED BY <2>3, <2>4
<1>2. \A turn \in Turns, c \in G : r[turn][c] \in Nat /\ q[c][turn] = r[turn][c]
  <2> TAKE turn \in Turns, c \in G
  <2>1. InTurn(turn)[c] \in Nat BY CellsCounted
  <2> QED BY <2>1
<1>3. \A turn \in Turns : g[turn] = SumFunctionOnSet(r[turn], G) OBVIOUS
<1>4. ASSUME NEW c \in G PROVE Booked[c] = SumFunctionOnSet(q[c], Turns)
  <2> DEFINE rows == OnDay(c[1], c[2]).reserved
             p == [x \in rows |-> Turn(x)]
             qc == q[c]
  <2>1. c \in Cells /\ c[1] \in Spaces /\ c[2] \in Days BY DEF Cells
  <2>2. IsFiniteSet(rows) BY <2>1, DayRows
  <2>3. \A x \in rows : p[x] \in Turns BY DEF Turn, Turns
  <2>4. \A turn \in Turns : qc[turn] = Cardinality(Fiber(rows, p, turn))
    <3> TAKE turn \in Turns
    <3> DEFINE A == {x \in rows : Turn(x) = turn}
    <3>1. qc[turn] = Cardinality(A) BY <2>1 DEF InTurn
    <3>2. Fiber(rows, p, turn) = A BY DEF Fiber
    <3> HIDE DEF A, qc, p
    <3> QED BY <3>1, <3>2
  <2>5. Booked[c] = Cardinality(rows) BY <2>1 DEF Booked
  <2> HIDE DEF rows, p, qc
  <2>6. SumFunctionOnSet(qc, Turns) = Cardinality(rows)
    BY <1>1, <2>2, <2>3, <2>4, CountFibers
  <2> QED BY <2>5, <2>6 DEF qc
<1> HIDE DEF r, q
<1>5. BothWays(Turns, G, r, q, g, Booked) BY <1>1, <1>2, <1>3, <1>4 DEF BothWays
<1>6. SumFunctionOnSet(g, Turns) = SumFunctionOnSet(Booked, G) BY <1>5, SumExchange
<1> QED BY <1>6 DEF SumFunction

(* What is not counted day by day is what lies on the closed days.         *)
LEMMA KeptSum ==
  ASSUME TypeOK, NEW G \in SUBSET Cells, IsFiniteSet(G),
         NEW C \in SUBSET G, \A c \in G : c \in C <=> Opened[c] = 0
  PROVE  SumFunctionOnSet(Kept, G) + SumFunctionOnSet(Booked, C) = SumFunctionOnSet(Booked, G)
<1> DEFINE D == G \ C
<1>1. /\ G = D \union C /\ D \intersect C = {} /\ D \in SUBSET Cells /\ C \in SUBSET Cells
      /\ IsFiniteSet(D) /\ IsFiniteSet(C)
  BY FS_Subset
<1>2. \A c \in G : Kept[c] = IF Opened[c] = 0 THEN 0 ELSE Booked[c] BY CellsCounted
<1>3. \A c \in D : Kept[c] = Booked[c] BY <1>2
<1>4. \A c \in C : Kept[c] = 0 BY <1>2
<1> HIDE DEF D
<1>5. Adds(Kept, D) /\ Adds(Kept, C) /\ Adds(Booked, D) /\ Adds(Booked, C) BY <1>1, CellsAdd
<1>6. SumFunctionOnSet(Kept, C) = 0 BY <1>1, <1>4, SumZeros
<1>7. SumFunctionOnSet(Kept, D) = SumFunctionOnSet(Booked, D) BY <1>3, <1>5, SumSame
<1>8. SumFunctionOnSet(Kept, G) = SumFunctionOnSet(Kept, D) + SumFunctionOnSet(Kept, C)
  BY <1>1, <1>5, SumUnion
<1>9. SumFunctionOnSet(Booked, G) = SumFunctionOnSet(Booked, D) + SumFunctionOnSet(Booked, C)
  BY <1>1, <1>5, SumUnion
<1>10. SumFunctionOnSet(Booked, D) \in Nat /\ SumFunctionOnSet(Booked, C) \in Nat
  BY <1>5, SumType
<1> QED BY <1>6, <1>7, <1>8, <1>9, <1>10

(* Summing over the entries of the daily series is summing over the days.  *)
LEMMA SeriesSum ==
  ASSUME NEW from \in Days, NEW to \in Days, from <= to,
         NEW f, Adds(f, from .. to),
         NEW g, DOMAIN g = 1 .. to - from + 1,
         \A k \in 1 .. to - from + 1 : g[k] = f[from + k - 1]
  PROVE  SumFunction(g) = SumFunctionOnSet(f, from .. to)
<1> DEFINE K == 1 .. to - from + 1
           m == DateRange(from, to)
<1>1. /\ from \in Nat /\ to \in Nat /\ DOMAIN m = K /\ Range(m) = from .. to
      /\ \A k \in K : m[k] = from + k - 1 /\ from + k - 1 \in from .. to
  BY PeriodDays
<1>2. m \in Bijection(K, from .. to)
  <2>1. m \in [K -> from .. to]
    <3>1. m = [k \in K |-> m[k]] BY <1>1 DEF DateRange
    <3> HIDE DEF m
    <3> QED BY <1>1, <3>1
  <2>2. \A j, k \in K : m[j] = m[k] => j = k
    <3> TAKE j, k \in K
    <3>1. m[j] = from + j - 1 /\ m[k] = from + k - 1 BY <1>1
    <3>2. j \in Int /\ k \in Int OBVIOUS
    <3> HIDE DEF m
    <3> QED BY <1>1, <3>1, <3>2
  <2>3. \A d \in from .. to : \E k \in K : m[k] = d
    <3> HIDE DEF m
    <3> QED BY <1>1 DEF Range
  <2> HIDE DEF m, K
  <2> QED BY <2>1, <2>2, <2>3 DEF Bijection, Injection, Surjection, IsInjective
<1>3. \A k \in K : g[k] = f[m[k]] BY <1>1
<1> HIDE DEF m, K
<1>4. PICK D : D = from .. to OBVIOUS
<1>5. Adds(f, D) /\ m \in Bijection(K, D) BY <1>2, <1>4
<1>6. ASSUME NEW n, n \in Bijection(K, D), \A k \in K : g[k] = f[n[k]]
      PROVE  SumFunctionOnSet(g, K) = SumFunctionOnSet(f, D)
  BY ONLY <1>5, <1>6, SumRenamed
<1> QED BY <1>3, <1>4, <1>5, <1>6 DEF SumFunction, K

(* Each row and column of a grid. *)
LEMMA GridRate ==
  ASSUME TypeOK, NEW S \in SUBSET Spaces, NEW from \in Days, NEW to \in Days, from <= to,
         NEW R \in Nat
  PROVE  LET D == from .. to
         IN  /\ (\A s \in S : SumFunctionOnSet(Opened, Row(s, D)) # 0 => RateOf(Row(s, D)) <= R) =>
                  RateOf(Grid(S, D)) <= R
             /\ (\A s \in S : SumFunctionOnSet(Opened, Row(s, D)) # 0 => R <= RateOf(Row(s, D)))
                  /\ (\E s \in S : SumFunctionOnSet(Opened, Row(s, D)) # 0) =>
                  R <= RateOf(Grid(S, D))
             /\ (\A d \in D : SumFunctionOnSet(Opened, Column(S, d)) # 0 =>
                                RateOf(Column(S, d)) <= R) =>
                  RateOf(Grid(S, D)) <= R
<1> DEFINE D == from .. to
           G == Grid(S, D)
           u == [s \in S |-> SumFunctionOnSet(Used, Row(s, D))]
           o == [s \in S |-> SumFunctionOnSet(Opened, Row(s, D))]
           v == [d \in D |-> SumFunctionOnSet(Used, Column(S, d))]
           p == [d \in D |-> SumFunctionOnSet(Opened, Column(S, d))]
<1>1. /\ IsFiniteSet(S) /\ IsFiniteSet(D) /\ G \in SUBSET Cells /\ IsFiniteSet(G)
      /\ \A s \in S : Row(s, D) \in SUBSET Cells /\ IsFiniteSet(Row(s, D))
      /\ \A d \in D : Column(S, d) \in SUBSET Cells /\ IsFiniteSet(Column(S, d))
  BY GridCells
<1>2. /\ \A s \in S : u[s] = SumFunctionOnSet(Used, Row(s, D))
      /\ \A s \in S : o[s] = SumFunctionOnSet(Opened, Row(s, D))
      /\ \A d \in D : v[d] = SumFunctionOnSet(Used, Column(S, d))
      /\ \A d \in D : p[d] = SumFunctionOnSet(Opened, Column(S, d))
  OBVIOUS
<1> HIDE DEF D, u, o, v, p
<1>3. Adds(Used, Grid(S, D)) /\ Adds(Opened, Grid(S, D)) BY <1>1, CellsAdd
<1>4. /\ Adds(u, S) /\ SumFunctionOnSet(u, S) = SumFunctionOnSet(Used, Grid(S, D))
      /\ Adds(o, S) /\ SumFunctionOnSet(o, S) = SumFunctionOnSet(Opened, Grid(S, D))
  BY ONLY <1>1, <1>2, <1>3, SumByRows
<1>5. /\ Adds(v, D) /\ SumFunctionOnSet(v, D) = SumFunctionOnSet(Used, Grid(S, D))
      /\ Adds(p, D) /\ SumFunctionOnSet(p, D) = SumFunctionOnSet(Opened, Grid(S, D))
  BY ONLY <1>1, <1>2, <1>3, SumByColumns
<1>6. \A s \in S : u[s] <= o[s] BY <1>1, <1>2, CellsAdd
<1>7. \A d \in D : v[d] <= p[d] BY <1>1, <1>2, CellsAdd
<1>8. /\ \A s \in S : Rate(u[s], o[s]) = RateOf(Row(s, D))
      /\ \A d \in D : Rate(v[d], p[d]) = RateOf(Column(S, d))
  BY <1>2 DEF RateOf
<1>9. /\ RateOf(Grid(S, D)) = Rate(SumFunctionOnSet(u, S), SumFunctionOnSet(o, S))
      /\ RateOf(Grid(S, D)) = Rate(SumFunctionOnSet(v, D), SumFunctionOnSet(p, D))
  BY <1>4, <1>5 DEF RateOf
<1>10. /\ (\A s \in S : o[s] # 0 => Rate(u[s], o[s]) <= R) => RateOf(Grid(S, D)) <= R
       /\ (\A s \in S : o[s] # 0 => R <= Rate(u[s], o[s])) /\ (\E s \in S : o[s] # 0) =>
            R <= RateOf(Grid(S, D))
  BY <1>4, <1>6, <1>9, RateBetween
<1>11. (\A d \in D : p[d] # 0 => Rate(v[d], p[d]) <= R) => RateOf(Grid(S, D)) <= R
  BY <1>5, <1>7, <1>9, RateBetween
<1> QED BY <1>2, <1>8, <1>10, <1>11 DEF D

(* The least and the greatest of a finite scale. *)
LEMMA Extremes ==
  ASSUME NEW S \in SUBSET (0 .. 100), S # {}
  PROVE  /\ Min(S) \in S /\ \A x \in S : Min(S) <= x
         /\ Max(S) \in S /\ \A x \in S : x <= Max(S)
<1>1. \E m \in S : \A x \in S : m <= x
  <2>1. S \in SUBSET Nat OBVIOUS
  <2> QED BY <2>1, LeastOf
<1>2. \E m \in S : \A x \in S : x <= m
  <2> DEFINE T == {100 - x : x \in S}
  <2>1. T \in SUBSET Nat /\ T # {}
    <3>1. \A x \in S : 100 - x \in Nat OBVIOUS
    <3> QED BY <3>1
  <2>2. PICK n \in T : \A t \in T : n <= t
    <3> HIDE DEF T
    <3> QED BY <2>1, LeastOf
  <2>3. PICK m \in S : n = 100 - m OBVIOUS
  <2>4. \A x \in S : 100 - m <= 100 - x BY <2>2, <2>3
  <2>5. \A x \in S : x <= m BY <2>4
  <2> QED BY <2>5
<1>3. Min(S) \in S /\ \A x \in S : Min(S) <= x BY <1>1 DEF Min
<1>4. Max(S) \in S /\ \A x \in S : Max(S) >= x
  <2>1. \E m \in S : \A x \in S : m >= x BY <1>2
  <2> QED BY <2>1 DEF Max
<1>5. \A x \in S : x <= Max(S) BY <1>4
<1> QED BY <1>3, <1>4, <1>5

LEMMA PeriodTotals ==
  ASSUME TypeOK, NEW from \in Days, NEW to \in Days, from <= to
  PROVE  LET report == Report(Spaces, from, to)
             dates == DateRange(from, to)
             all == SumFunction([s \in Spaces |-> report.spaces[s].reservations])
             closed == {c \in Spaces \X Range(dates) : Open(DaySlots(c[1], c[2])) = {}}
             rates == {report.spaces[s].rate :
                         s \in {c[1] : c \in (Spaces \X Range(dates)) \ closed}}
         IN  /\ SumFunction(report.turns) = all
             /\ SumFunction([k \in DOMAIN dates |-> report.daily[k].reservations])
                  + SumFunction([c \in closed |-> Cardinality(OnDay(c[1], c[2]).reserved)]) = all
             /\ rates # {} => Min(rates) <= report.rate /\ report.rate <= Max(rates)
<1> DEFINE D == from .. to
           K == 1 .. to - from + 1
           G == Grid(Spaces, D)
           report == Report(Spaces, from, to)
           dates == DateRange(from, to)
           spaces == [s \in Spaces |-> report.spaces[s].reservations]
           closed == {c \in Spaces \X Range(dates) : Open(DaySlots(c[1], c[2])) = {}}
           daily == [k \in DOMAIN dates |-> report.daily[k].reservations]
           lost == [c \in closed |-> Cardinality(OnDay(c[1], c[2]).reserved)]
           rates == {report.spaces[s].rate :
                      s \in {c[1] : c \in (Spaces \X Range(dates)) \ closed}}
<1>1. Spaces \in SUBSET Spaces OBVIOUS
<1>2. /\ IsFiniteSet(Spaces) /\ IsFiniteSet(D) /\ G \in SUBSET Cells /\ IsFiniteSet(G)
      /\ \A s \in Spaces : Row(s, D) \in SUBSET Cells /\ IsFiniteSet(Row(s, D))
      /\ \A d \in D : Column(Spaces, d) \in SUBSET Cells /\ IsFiniteSet(Column(Spaces, d))
  BY <1>1, GridCells
<1>3. Adds(Booked, G) /\ Adds(Kept, G) /\ Adds(Opened, G) BY <1>2, CellsAdd
<1>4. Range(dates) = D /\ DOMAIN dates = K BY <1>1, PeriodDays
<1>4a. ASSUME NEW s \in Spaces
      PROVE  /\ report.spaces[s].reservations = SumFunctionOnSet(Booked, Row(s, D))
             /\ report.spaces[s].rate = RateOf(Row(s, D))
  <2>1. \A x \in Spaces : report.spaces[x] =
          [reservations |-> SumFunctionOnSet(Booked, Row(x, D)),
           blockings |-> SumFunctionOnSet(Barred, Row(x, D)), rate |-> RateOf(Row(x, D))]
    BY <1>1, ReportSpaces
  <2> HIDE DEF report, D
  <2>2. PICK r : r = report.spaces[s] OBVIOUS
  <2>3. r = [reservations |-> SumFunctionOnSet(Booked, Row(s, D)),
             blockings |-> SumFunctionOnSet(Barred, Row(s, D)), rate |-> RateOf(Row(s, D))]
    BY <2>1, <2>2
  <2> QED BY <2>2, <2>3
(* The totals of the spaces. *)
<1>5. SumFunction(spaces) = SumFunctionOnSet(Booked, G)
  <2>1. ASSUME NEW s \in Spaces PROVE spaces[s] = SumFunctionOnSet(Booked, Row(s, D))
    <3>1. report.spaces[s].reservations = SumFunctionOnSet(Booked, Row(s, D)) BY <1>4a
    <3> HIDE DEF report
    <3> QED BY <3>1
  <2>2. DOMAIN spaces = Spaces OBVIOUS
  <2> HIDE DEF spaces, G, D
  <2>3. Adds(Booked, Grid(Spaces, D)) BY <1>3 DEF G
  <2>4. SumFunctionOnSet(spaces, Spaces) = SumFunctionOnSet(Booked, Grid(Spaces, D))
    BY ONLY <1>2, <2>1, <2>3, SumByRows
  <2> QED BY <2>2, <2>4 DEF SumFunction, G
(* Turn by turn. *)
<1>6. SumFunction(report.turns) = SumFunctionOnSet(Booked, G)
  <2>1. /\ DOMAIN report.turns = Turns
        /\ \A turn \in Turns : report.turns[turn] = SumFunctionOnSet(InTurn(turn), G)
    BY <1>1, ReportTurns
  <2>2. PICK t : t = report.turns OBVIOUS
  <2> HIDE DEF report, G
  <2> QED BY <1>2, <2>1, <2>2, TurnsSum
(* Day by day. *)
<1>7. closed \in SUBSET G /\ \A c \in G : c \in closed <=> Opened[c] = 0
  <2>1. closed \in SUBSET G BY <1>4 DEF Grid
  <2>2. ASSUME NEW c \in G PROVE c \in closed <=> Opened[c] = 0
    <3>1. c \in Cells /\ c \in Spaces \X D BY <1>2 DEF Grid
    <3>2. Opened[c] = Cardinality(Open(DaySlots(c[1], c[2]))) BY <3>1 DEF Opened
    <3>3. Opened[c] = 0 <=> Open(DaySlots(c[1], c[2])) = {}
      BY <3>2, DaySlotsAre, SlotsCounted
    <3>4. Range(dates) = D BY <1>4
    <3> HIDE DEF D
    <3> QED BY <3>1, <3>3, <3>4
  <2> QED BY <2>1, <2>2
<1>8. SumFunction(daily) = SumFunctionOnSet(Kept, G)
  <2> DEFINE f == [d \in D |-> SumFunctionOnSet(Kept, Column(Spaces, d))]
  <2>1. \A d \in D : f[d] = SumFunctionOnSet(Kept, Column(Spaces, d)) OBVIOUS
  <2>2. ASSUME NEW k \in K PROVE daily[k] = f[from + k - 1]
    <3>1. from + k - 1 \in D BY <1>1, PeriodDays
    <3>2. report.daily[k].reservations = SumFunctionOnSet(Kept, Column(Spaces, from + k - 1))
      <4>1. report.daily[k] =
              [rate |-> RateOf(Column(Spaces, from + k - 1)),
               reservations |-> SumFunctionOnSet(Kept, Column(Spaces, from + k - 1))]
        BY <1>1, ReportDays
      <4> HIDE DEF report
      <4> QED BY <4>1
    <3>3. daily[k] = report.daily[k].reservations BY <1>4
    <3> HIDE DEF daily, report, D
    <3> QED BY <2>1, <3>1, <3>2, <3>3
  <2>3. DOMAIN daily = K BY <1>4
  <2> HIDE DEF f, daily
  <2>4. Adds(f, D) /\ SumFunctionOnSet(f, D) = SumFunctionOnSet(Kept, G)
    <3> HIDE DEF D
    <3> QED BY ONLY <1>2, <1>3, <2>1, SumByColumns DEF G
  <2>5. SumFunction(daily) = SumFunctionOnSet(f, D)
    BY <1>1, <2>2, <2>3, <2>4, SeriesSum
  <2> QED BY <2>4, <2>5
<1>9. SumFunction(lost) = SumFunctionOnSet(Booked, closed)
  <2>1. closed \in SUBSET Cells /\ IsFiniteSet(closed) BY <1>2, <1>7, FS_Subset
  <2>2. DOMAIN lost = closed /\ \A c \in closed : lost[c] = Booked[c]
    <3> HIDE DEF closed
    <3> QED BY <2>1 DEF Booked
  <2>3. Adds(Booked, closed)
    <3> HIDE DEF closed
    <3> QED BY <2>1, CellsAdd
  <2> HIDE DEF lost, closed
  <2> QED BY <2>2, <2>3, SumListed
<1>10. SumFunctionOnSet(Kept, G) + SumFunctionOnSet(Booked, closed) = SumFunctionOnSet(Booked, G)
  <2> HIDE DEF closed, G
  <2> QED BY <1>2, <1>7, KeptSum
(* The rates. *)
<1>11. ASSUME rates # {} PROVE Min(rates) <= report.rate /\ report.rate <= Max(rates)
  <2> DEFINE Opens(s) == SumFunctionOnSet(Opened, Row(s, D)) # 0
  <2>1. ASSUME NEW s \in Spaces PROVE report.spaces[s].rate = RateOf(Row(s, D))
    BY <1>4a
  <2>2. ASSUME NEW s \in Spaces
        PROVE  Opens(s) <=> s \in {c[1] : c \in (Spaces \X Range(dates)) \ closed}
    <3>1. Adds(Opened, Row(s, D)) /\ IsFiniteSet(Row(s, D)) BY <1>2, CellsAdd
    <3>2. Row(s, D) = {c \in Spaces \X Range(dates) : c[1] = s} BY <1>4 DEF Row
    <3>3. \A c \in Row(s, D) : c \in G BY <1>4, <3>2 DEF Grid
    <3> HIDE DEF closed, G, D
    <3>4. ASSUME NEW c \in Row(s, D), c \notin closed PROVE Opens(s)
      <4>1. Opened[c] # 0 /\ Opened[c] \in Nat BY <1>7, <3>1, <3>3, <3>4 DEF Adds
      <4>2. SumFunctionOnSet(Opened, Row(s, D))
              = Opened[c] + SumFunctionOnSet(Opened, Row(s, D) \ {c})
        BY <3>1, SumTakesOut
      <4>3. SumFunctionOnSet(Opened, Row(s, D) \ {c}) \in Nat
        <5>1. Adds(Opened, Row(s, D) \ {c}) BY <3>1, AddsPart
        <5> QED BY <5>1, SumType
      <4> QED BY <4>1, <4>2, <4>3
    <3>5. ASSUME \A c \in Row(s, D) : c \in closed PROVE ~Opens(s)
      <4>1. \A c \in Row(s, D) : Opened[c] = 0 BY <1>7, <3>3, <3>5
      <4> QED BY <3>1, <4>1, SumZeros
    <3> QED BY <3>2, <3>4, <3>5
  <2>3. rates = {RateOf(Row(s, D)) : s \in {x \in Spaces : Opens(x)}}
    <3>1. {c[1] : c \in (Spaces \X Range(dates)) \ closed} \in SUBSET Spaces OBVIOUS
    <3> HIDE DEF closed, D, Opens, report
    <3> QED BY <2>1, <2>2, <3>1
  <2>4. \A s \in Spaces : RateOf(Row(s, D)) \in 0 .. 100
    <3> TAKE s \in Spaces
    <3>1. /\ SumFunctionOnSet(Used, Row(s, D)) \in Nat /\ SumFunctionOnSet(Opened, Row(s, D)) \in Nat
          /\ SumFunctionOnSet(Used, Row(s, D)) <= SumFunctionOnSet(Opened, Row(s, D))
      BY <1>2, CellsAdd
    <3> QED BY <3>1, RateIs DEF RateOf
  <2>5. report.rate = RateOf(Grid(Spaces, D)) BY <1>1, ReportRate
  <2> HIDE DEF rates, D, report
  <2>6. rates \in SUBSET (0 .. 100) BY <2>3, <2>4
  <2>7. /\ Min(rates) \in Nat /\ Max(rates) \in Nat
        /\ \A x \in rates : Min(rates) <= x /\ x <= Max(rates)
    <3>1. /\ Min(rates) \in rates /\ \A x \in rates : Min(rates) <= x
          /\ Max(rates) \in rates /\ \A x \in rates : x <= Max(rates)
      BY ONLY <1>11, <2>6, Extremes
    <3>2. Min(rates) \in 0 .. 100 /\ Max(rates) \in 0 .. 100 BY ONLY <2>6, <3>1
    <3>3. Min(rates) \in Nat /\ Max(rates) \in Nat BY ONLY <3>2
    <3> QED BY ONLY <3>1, <3>3
  <2>8. \A s \in Spaces : Opens(s) => Min(rates) <= RateOf(Row(s, D)) /\ RateOf(Row(s, D)) <= Max(rates)
    BY <2>3, <2>7
  <2>9. \E s \in Spaces : Opens(s) BY <1>11, <2>3
  <2>10. Spaces \in SUBSET Spaces OBVIOUS
  <2>11. \A R \in Nat :
           /\ (\A s \in Spaces : Opens(s) => RateOf(Row(s, D)) <= R) => RateOf(Grid(Spaces, D)) <= R
           /\ (\A s \in Spaces : Opens(s) => R <= RateOf(Row(s, D))) /\ (\E s \in Spaces : Opens(s)) =>
                R <= RateOf(Grid(Spaces, D))
    BY <1>1, <2>10, GridRate DEF D
  <2> HIDE DEF Opens
  <2> QED BY <2>5, <2>7, <2>8, <2>9, <2>11
<1> HIDE DEF rates, lost, daily, spaces
<1>12. /\ SumFunction(report.turns) = SumFunction(spaces)
       /\ SumFunction(daily) + SumFunction(lost) = SumFunction(spaces)
       /\ rates # {} => Min(rates) <= report.rate /\ report.rate <= Max(rates)
  BY <1>5, <1>6, <1>8, <1>9, <1>10, <1>11
<1> QED BY <1>12 DEF rates, lost, daily, spaces

LEMMA TypeTotals == TypeOK => TotalsAddUp
<1>1. \A p \in Periods : p[1] \in Days /\ p[2] \in Days /\ p[1] <= p[2]
  BY DEF Periods, ValidPeriod
<1> QED BY <1>1, PeriodTotals DEF TotalsAddUp

-------------------------------------------------------------------------------
(* The report of one space. *)
LEMMA SpaceTotals ==
  ASSUME TypeOK, NEW s \in Spaces, NEW from \in Days, NEW to \in Days, from <= to
  PROVE  /\ SpaceReport(s, from, to).reservations = SumFunctionOnSet(Booked, Row(s, from .. to))
         /\ SpaceReport(s, from, to).blockings = SumFunctionOnSet(Barred, Row(s, from .. to))
         /\ SpaceReport(s, from, to).rate = RateOf(Row(s, from .. to))
<1> DEFINE dates == DateRange(from, to)
           D == Range(dates)
           slotsOf == [d \in D |-> DaySlots(s, d)]
           working == {d \in D : Open(slotsOf[d]) # {}}
           b == [d \in D |-> Cardinality(OnDay(s, d).reserved)]
           k == [d \in D |-> Cardinality(OnDay(s, d).blocked)]
           u == [d \in working |-> WithStatus(slotsOf[d], "reserved")
                                     + WithStatus(slotsOf[d], "blocked")]
           o == [d \in working |-> Cardinality(Open(slotsOf[d]))]
           used == [d \in D |-> Used[<<s, d>>]]
           open == [d \in D |-> Opened[<<s, d>>]]
<1>1. /\ SpaceReport(s, from, to).reservations = SumFunction(b)
      /\ SpaceReport(s, from, to).blockings = SumFunction(k)
      /\ SpaceReport(s, from, to).rate = Rate(SumFunction(u), SumFunction(o))
  BY DEF SpaceReport
<1>2. D = from .. to /\ D \in SUBSET Days /\ IsFiniteSet(D)
  <2>1. D = from .. to /\ from .. to \in SUBSET Days /\ IsFiniteSet(from .. to) BY PeriodDays
  <2> HIDE DEF D
  <2> QED BY <2>1
<1>3. Row(s, D) \in SUBSET Cells /\ IsFiniteSet(Row(s, D)) /\ \A d \in D : <<s, d>> \in Row(s, D)
  <2>1. {s} \in SUBSET Spaces OBVIOUS
  <2> QED BY <1>2, <2>1, PartCells DEF Row
<1>4. ASSUME NEW d \in D
      PROVE  /\ b[d] = Booked[<<s, d>>] /\ k[d] = Barred[<<s, d>>]
             /\ b[d] \in Nat /\ k[d] \in Nat /\ used[d] \in Nat /\ open[d] \in Nat
             /\ used[d] <= open[d]
             /\ d \in working => u[d] = used[d] /\ o[d] = open[d]
             /\ d \notin working => used[d] = 0 /\ open[d] = 0
  <2>1. <<s, d>> \in Cells BY <1>3
  <2>2. b[d] = Booked[<<s, d>>] /\ k[d] = Barred[<<s, d>>] BY <2>1 DEF Booked, Barred
  <2>3. used[d] = InUse(DaySlots(s, d)) /\ open[d] = Cardinality(Open(DaySlots(s, d)))
    BY <2>1 DEF Used, Opened
  <2>4. slotsOf[d] = DaySlots(s, d) OBVIOUS
  <2>5. /\ InUse(DaySlots(s, d)) = WithStatus(DaySlots(s, d), "reserved")
                                     + WithStatus(DaySlots(s, d), "blocked")
        /\ Cardinality(Open(DaySlots(s, d))) = 0 <=> Open(DaySlots(s, d)) = {}
    BY DaySlotsAre, SlotsCounted
  <2>6. d \in working => u[d] = used[d] /\ o[d] = open[d] BY <2>3, <2>4, <2>5
  <2>7. /\ Booked[<<s, d>>] \in Nat /\ Barred[<<s, d>>] \in Nat
        /\ Used[<<s, d>>] \in Nat /\ Opened[<<s, d>>] \in Nat
        /\ Used[<<s, d>>] <= Opened[<<s, d>>]
    BY <2>1, CellsCounted
  <2>8. used[d] \in Nat /\ open[d] \in Nat /\ used[d] <= open[d] BY <2>7
  <2>9. d \notin working => open[d] = 0 BY <2>3, <2>4, <2>5
  <2>10. d \notin working => used[d] = 0
    <3> HIDE DEF used, open, working
    <3> QED BY <2>8, <2>9
  <2> HIDE DEF used, open, working, u, o, b, k
  <2> QED BY <2>2, <2>6, <2>7, <2>8, <2>9, <2>10
<1>5. /\ DOMAIN b = D /\ DOMAIN k = D /\ DOMAIN u = working /\ DOMAIN o = working
      /\ working \in SUBSET D
      /\ \A d \in D : Used[<<s, d>>] = used[d] /\ Opened[<<s, d>>] = open[d]
  OBVIOUS
<1> HIDE DEF b, k, u, o, used, open, working, slotsOf, D
<1>6. /\ Adds(b, D) /\ Adds(k, D) /\ Adds(used, D) /\ Adds(open, D)
  BY <1>2, <1>4 DEF Adds
<1>7. /\ SumFunctionOnSet(Booked, Row(s, D)) = SumFunctionOnSet(b, D)
      /\ SumFunctionOnSet(Barred, Row(s, D)) = SumFunctionOnSet(k, D)
      /\ SumFunctionOnSet(Used, Row(s, D)) = SumFunctionOnSet(used, D)
      /\ SumFunctionOnSet(Opened, Row(s, D)) = SumFunctionOnSet(open, D)
  <2>1. SumFunctionOnSet(Booked, Row(s, D)) = SumFunctionOnSet(b, D) BY <1>4, <1>6, SumRow
  <2>2. SumFunctionOnSet(Barred, Row(s, D)) = SumFunctionOnSet(k, D) BY <1>4, <1>6, SumRow
  <2>3. SumFunctionOnSet(Used, Row(s, D)) = SumFunctionOnSet(used, D) BY <1>5, <1>6, SumRow
  <2>4. SumFunctionOnSet(Opened, Row(s, D)) = SumFunctionOnSet(open, D) BY <1>5, <1>6, SumRow
  <2> QED BY <2>1, <2>2, <2>3, <2>4
<1>8. /\ SumFunctionOnSet(used, working) = SumFunctionOnSet(used, D)
      /\ SumFunctionOnSet(open, working) = SumFunctionOnSet(open, D)
  BY <1>4, <1>5, <1>6, SumWorking
<1>9. /\ SumFunction(u) = SumFunctionOnSet(used, working)
      /\ SumFunction(o) = SumFunctionOnSet(open, working)
  <2>1. Adds(used, working) /\ Adds(open, working) BY <1>5, <1>6, AddsPart
  <2>2. \A d \in working : u[d] = used[d] /\ o[d] = open[d] BY <1>4, <1>5
  <2> QED BY <1>5, <2>1, <2>2, SumListed
<1>10. SumFunction(b) = SumFunctionOnSet(b, D) /\ SumFunction(k) = SumFunctionOnSet(k, D)
  BY <1>5, Zenon DEF SumFunction
<1> QED BY <1>1, <1>2, <1>7, <1>8, <1>9, <1>10 DEF RateOf

LEMMA SpaceSeries ==
  ASSUME TypeOK, NEW s \in Spaces, NEW from \in Days, NEW to \in Days, from <= to
  PROVE  LET series == SpaceReport(s, from, to).series
         IN  /\ DOMAIN series = 1 .. to - from + 1
             /\ \A k \in 1 .. to - from + 1 :
                  /\ series[k].rate = RateOf(Column({s}, from + k - 1))
                  /\ series[k].rate \in 0 .. 100
                  /\ series[k].reservations = SumFunctionOnSet(Kept, Column({s}, from + k - 1))
             /\ SpaceReport(s, from, to).peakDay
                  = FirstPeak([k \in DOMAIN series |-> series[k].rate])
<1> DEFINE dates == DateRange(from, to)
           slotsOf == [d \in Range(dates) |-> DaySlots(s, d)]
           series == [k \in DOMAIN dates |-> DayOfSpace(slotsOf[dates[k]], OnDay(s, dates[k]))]
<1>1. /\ SpaceReport(s, from, to).series = series
      /\ SpaceReport(s, from, to).peakDay = FirstPeak([k \in DOMAIN series |-> series[k].rate])
  BY DEF SpaceReport
<1>2. DOMAIN series = 1 .. to - from + 1
  <2>1. DOMAIN dates = 1 .. to - from + 1 BY PeriodDays
  <2> HIDE DEF dates, slotsOf
  <2> QED BY <2>1
<1>3. ASSUME NEW k \in 1 .. to - from + 1
      PROVE  /\ series[k].rate = RateOf(Column({s}, from + k - 1))
             /\ series[k].rate \in 0 .. 100
             /\ series[k].reservations = SumFunctionOnSet(Kept, Column({s}, from + k - 1))
  <2>1. \A j \in 1 .. to - from + 1 : dates[j] = from + j - 1 /\ from + j - 1 \in from .. to
    BY PeriodDays
  <2>2. Range(dates) = from .. to /\ DOMAIN dates = 1 .. to - from + 1 BY PeriodDays
  <2>3. PICK d : d = from + k - 1 OBVIOUS
  <2> HIDE DEF dates
  <2>4. dates[k] = d /\ d \in from .. to /\ k \in DOMAIN dates BY <2>1, <2>2, <2>3
  <2>5. d \in Days BY <2>4, PeriodDays
  <2> DEFINE slots == DaySlots(s, d)
             c == <<s, d>>
  <2>6. series[k] = DayOfSpace(slots, OnDay(s, d)) BY <2>2, <2>4
  <2>7. c \in Cells /\ Column({s}, d) = {c} BY <2>5 DEF Cells, Column
  <2>8. /\ Used[c] = InUse(slots) /\ Opened[c] = Cardinality(Open(slots))
        /\ Kept[c] = Counted(OnDay(s, d).reserved, slots)
    BY <2>7 DEF Used, Opened, Kept
  <2>9. /\ Used[c] \in Nat /\ Opened[c] \in Nat /\ Kept[c] \in Nat /\ Used[c] <= Opened[c]
    <3>1. Kept[c] = IF Opened[c] = 0 THEN 0 ELSE Booked[c] BY <2>7, CellsCounted
    <3> QED BY <2>7, <3>1, CellsCounted
  <2>10. InUse(slots) = WithStatus(slots, "reserved") + WithStatus(slots, "blocked")
    BY DaySlotsAre, SlotsCounted
  <2> HIDE DEF slots, c, series
  <2>11. series[k].rate = Rate(Used[c], Opened[c]) /\ series[k].reservations = Kept[c]
    BY <2>6, <2>8, <2>10 DEF DayOfSpace
  <2>12. /\ SumFunctionOnSet(Used, {c}) = Used[c] /\ SumFunctionOnSet(Opened, {c}) = Opened[c]
         /\ SumFunctionOnSet(Kept, {c}) = Kept[c]
    BY <2>9, SumOne
  <2>13. RateOf(Column({s}, d)) = Rate(Used[c], Opened[c]) BY <2>7, <2>12 DEF RateOf
  <2>14. Rate(Used[c], Opened[c]) \in 0 .. 100 BY <2>9, RateIs
  <2> QED BY <2>3, <2>7, <2>11, <2>12, <2>13, <2>14
<1> HIDE DEF series
<1> QED BY <1>1, <1>2, <1>3

LEMMA FirstPeakIs ==
  ASSUME NEW f, DOMAIN f \in SUBSET Nat, DOMAIN f # {}, \A k \in DOMAIN f : f[k] \in 0 .. 100
  PROVE  FirstPeak(f) \in DOMAIN f /\ \A k \in DOMAIN f : f[k] <= f[FirstPeak(f)]
<1> DEFINE V == {f[k] : k \in DOMAIN f}
<1>1. V \in SUBSET (0 .. 100) /\ V # {} OBVIOUS
<1>2. PICK m \in V : \A x \in V : x <= m
  <2> HIDE DEF V
  <2> QED BY <1>1, Extremes
<1> DEFINE T == {k \in DOMAIN f : f[k] = m}
<1>3. T \in SUBSET Nat /\ T # {} OBVIOUS
<1>4. PICK k \in T : \A j \in T : k <= j
  <2> HIDE DEF T
  <2> QED BY <1>3, LeastOf
<1>5. k \in DOMAIN f /\ \A j \in DOMAIN f : f[j] < f[k] \/ (f[j] = f[k] /\ k <= j)
  <2>1. k \in DOMAIN f /\ f[k] = m OBVIOUS
  <2>2. ASSUME NEW j \in DOMAIN f PROVE f[j] < f[k] \/ (f[j] = f[k] /\ k <= j)
    <3>1. f[j] <= m /\ f[j] \in Int /\ m \in Int BY <1>2
    <3>2. CASE f[j] = m BY <1>4, <2>1, <3>2
    <3>3. CASE f[j] # m BY <2>1, <3>1, <3>3
    <3> QED BY <3>2, <3>3
  <2> QED BY <2>1, <2>2
<1>6. /\ FirstPeak(f) \in DOMAIN f
      /\ \A j \in DOMAIN f : \/ f[j] < f[FirstPeak(f)]
                             \/ (f[j] = f[FirstPeak(f)] /\ FirstPeak(f) <= j)
  BY <1>5, Zenon DEF FirstPeak
<1>7. \A j \in DOMAIN f : f[j] \in Int BY <1>1
<1> QED BY <1>6, <1>7

-------------------------------------------------------------------------------
(* The hours of a period. *)
DayHours == {k \div 2 : k \in Slots}

LEMMA HoursFinite == IsFiniteSet(DayHours) /\ DayHours \in SUBSET Nat
<1> DEFINE m == [k \in Slots |-> k \div 2]
<1>1. IsFiniteSet(Slots)
  <2>1. 0 \in Int /\ DayEnd - 1 \in Int BY DayIsNat
  <2> QED BY <2>1, FS_Interval DEF Slots
<1>2. m \in Surjection(Slots, DayHours)
  <2>1. m \in [Slots -> DayHours] BY DEF DayHours
  <2>2. \A h \in DayHours : \E k \in Slots : m[k] = h BY DEF DayHours
  <2> HIDE DEF m
  <2> QED BY <2>1, <2>2 DEF Surjection
<1>3. IsFiniteSet(DayHours)
  <2> HIDE DEF m
  <2> QED BY <1>1, <1>2, FS_Surjection
<1>4. DayHours \in SUBSET Nat
  <2>1. \A k \in Slots : k \div 2 \in Nat BY DayIsNat DEF Slots
  <2> QED BY <2>1 DEF DayHours
<1> QED BY <1>3, <1>4

(* The half hours of a day, hour by hour. *)
LEMMA HoursOfDay ==
  ASSUME NEW slots, DOMAIN slots = Slots
  PROVE  /\ DOMAIN HourlyOccupancy(slots) = DayHours
         /\ \A h \in DayHours :
              /\ HourlyOccupancy(slots)[h].open \in Nat
              /\ HourlyOccupancy(slots)[h].occupied \in Nat
              /\ HourlyOccupancy(slots)[h].occupied <= HourlyOccupancy(slots)[h].open
              /\ HourlyOccupancy(slots)[h].open # 0 => \E k \in Open(slots) : k \div 2 = h
         /\ \A g : (\A h \in DayHours : g[h] = HourlyOccupancy(slots)[h].open) =>
              SumFunctionOnSet(g, DayHours) = Cardinality(Open(slots))
         /\ \A g : (\A h \in DayHours : g[h] = HourlyOccupancy(slots)[h].occupied) =>
              SumFunctionOnSet(g, DayHours) = InUse(slots)
<1> DEFINE U == {k \in DOMAIN slots : slots[k] \in {"reserved", "blocked"}}
           p == [k \in Slots |-> k \div 2]
           ho == HourlyOccupancy(slots)
<1>1. DOMAIN ho = DayHours BY DEF HourlyOccupancy, DayHours
<1>2. Open(slots) \in SUBSET Slots /\ U \in SUBSET Open(slots) /\ IsFiniteSet(Open(slots))
  BY SlotsCounted DEF Open
<1>3. IsFiniteSet(U) BY <1>2, FS_Subset
<1>4. \A k \in Slots : p[k] \in DayHours BY DEF DayHours
<1>5. ASSUME NEW h \in DayHours
      PROVE  /\ ho[h].open = Cardinality(Fiber(Open(slots), p, h))
             /\ ho[h].occupied = Cardinality(Fiber(U, p, h))
             /\ Fiber(Open(slots), p, h) \in SUBSET Open(slots) /\ Fiber(U, p, h) \in SUBSET U
             /\ Fiber(U, p, h) \in SUBSET Fiber(Open(slots), p, h)
             /\ Fiber(Open(slots), p, h) # {} => \E k \in Open(slots) : k \div 2 = h
  <2> DEFINE open == {k \in DOMAIN slots : k \div 2 = h /\ slots[k] # "closed"}
             occupied == {k \in open : slots[k] \in {"reserved", "blocked"}}
  <2>1. ho[h] = [open |-> Cardinality(open), occupied |-> Cardinality(occupied)]
    BY DEF HourlyOccupancy, DayHours
  <2>2. open = Fiber(Open(slots), p, h) BY DEF Fiber, Open
  <2>3. occupied = Fiber(U, p, h) BY DEF Fiber
  <2>4. /\ Fiber(Open(slots), p, h) \in SUBSET Open(slots) /\ Fiber(U, p, h) \in SUBSET U
        /\ Fiber(U, p, h) \in SUBSET Fiber(Open(slots), p, h)
        /\ Fiber(Open(slots), p, h) # {} => \E k \in Open(slots) : k \div 2 = h
    BY <1>2 DEF Fiber
  <2> HIDE DEF open, occupied, ho, U, p
  <2> QED BY <2>1, <2>2, <2>3, <2>4
<1> HIDE DEF p, U, ho
<1>6. ASSUME NEW h \in DayHours
      PROVE  /\ ho[h].open \in Nat /\ ho[h].occupied \in Nat /\ ho[h].occupied <= ho[h].open
             /\ ho[h].open # 0 => \E k \in Open(slots) : k \div 2 = h
  <2>1. IsFiniteSet(Fiber(Open(slots), p, h)) /\ IsFiniteSet(Fiber(U, p, h))
    BY <1>2, <1>3, <1>5, FS_Subset
  <2> DEFINE F == Fiber(Open(slots), p, h)
             V == Fiber(U, p, h)
  <2>2. V \in SUBSET F BY <1>5
  <2> HIDE DEF F, V
  <2>3. IsFiniteSet(F) /\ IsFiniteSet(V) BY <2>1 DEF F, V
  <2>4. Cardinality(F) \in Nat /\ Cardinality(V) \in Nat /\ Cardinality(V) <= Cardinality(F)
    BY <2>2, <2>3, FS_Subset, FS_CardinalityType
  <2>5. Cardinality(F) # 0 => F # {} BY <2>3, FS_EmptySet
  <2> QED BY <1>5, <2>4, <2>5 DEF F, V
<1>7. ASSUME NEW g, \A h \in DayHours : g[h] = ho[h].open
      PROVE  SumFunctionOnSet(g, DayHours) = Cardinality(Open(slots))
  <2>1. \A h \in DayHours : g[h] = Cardinality(Fiber(Open(slots), p, h)) BY <1>5, <1>7
  <2>2. IsFiniteSet(Open(slots)) /\ \A k \in Open(slots) : p[k] \in DayHours BY <1>2, <1>4
  <2> QED BY ONLY <2>1, <2>2, HoursFinite, CountFibers
<1>8. ASSUME NEW g, \A h \in DayHours : g[h] = ho[h].occupied
      PROVE  SumFunctionOnSet(g, DayHours) = InUse(slots)
  <2>1. \A h \in DayHours : g[h] = Cardinality(Fiber(U, p, h)) BY <1>5, <1>8
  <2>2. IsFiniteSet(U) /\ \A k \in U : p[k] \in DayHours BY <1>2, <1>3, <1>4
  <2>3. SumFunctionOnSet(g, DayHours) = Cardinality(U)
    BY ONLY <2>1, <2>2, HoursFinite, CountFibers
  <2> QED BY <2>3, Zenon DEF InUse, U
<1> QED BY <1>1, <1>6, <1>7, <1>8 DEF ho

LEMMA HourlyIs ==
  ASSUME TypeOK, NEW s \in Spaces, NEW from \in Days, NEW to \in Days, from <= to
  PROVE  LET hourly == SpaceReport(s, from, to).hourly
             D == from .. to
         IN  /\ DOMAIN hourly = DayHours
             /\ \E o, p :
                  /\ Adds(o, DayHours) /\ Adds(p, DayHours)
                  /\ SumFunctionOnSet(o, DayHours) = SumFunctionOnSet(Used, Row(s, D))
                  /\ SumFunctionOnSet(p, DayHours) = SumFunctionOnSet(Opened, Row(s, D))
                  /\ \A h \in DayHours :
                       /\ o[h] <= p[h] /\ hourly[h] = Rate(o[h], p[h]) /\ hourly[h] \in 0 .. 100
                       /\ p[h] # 0 => \E d \in D : \E k \in Open(DaySlots(s, d)) : k \div 2 = h
<1> DEFINE D == Range(DateRange(from, to))
           slotsOf == [d \in D |-> DaySlots(s, d)]
           hoursOf == [d \in DOMAIN slotsOf |-> HourlyOccupancy(slotsOf[d])]
           openOf == [h \in DayHours |-> [d \in DOMAIN slotsOf |-> hoursOf[d][h]["open"]]]
           usedOf == [h \in DayHours |-> [d \in DOMAIN slotsOf |-> hoursOf[d][h]["occupied"]]]
           openBy == [d \in D |-> [h \in DayHours |-> hoursOf[d][h]["open"]]]
           usedBy == [d \in D |-> [h \in DayHours |-> hoursOf[d][h]["occupied"]]]
           p == [h \in DayHours |-> SumFunction(openOf[h])]
           o == [h \in DayHours |-> SumFunction(usedOf[h])]
           open == [d \in D |-> Opened[<<s, d>>]]
           used == [d \in D |-> Used[<<s, d>>]]
           hourly == SpaceReport(s, from, to).hourly
<1>1. D = from .. to /\ D \in SUBSET Days /\ IsFiniteSet(D)
  <2>1. D = from .. to /\ from .. to \in SUBSET Days /\ IsFiniteSet(from .. to) BY PeriodDays
  <2> HIDE DEF D
  <2> QED BY <2>1
<1>2. hourly = HourlyAverage(slotsOf) BY DEF SpaceReport
<1>3. hourly = [h \in DayHours |-> IF p[h] = 0 THEN 0 ELSE Percent(o[h], p[h])]
  <2>1. HourlyAverage(slotsOf) =
          [h \in DayHours |->
            IF SumFunction([d \in DOMAIN slotsOf |-> hoursOf[d][h]["open"]]) = 0 THEN 0
            ELSE Percent(SumFunction([d \in DOMAIN slotsOf |-> hoursOf[d][h]["occupied"]]),
                         SumFunction([d \in DOMAIN slotsOf |-> hoursOf[d][h]["open"]]))]
    BY Zenon DEF HourlyAverage, DayHours
  <2>2. \A h \in DayHours :
          /\ p[h] = SumFunction([d \in DOMAIN slotsOf |-> hoursOf[d][h]["open"]])
          /\ o[h] = SumFunction([d \in DOMAIN slotsOf |-> hoursOf[d][h]["occupied"]])
    OBVIOUS
  <2> HIDE DEF p, o, slotsOf, hoursOf, hourly
  <2> QED BY <1>2, <2>1, <2>2
<1>4. ASSUME NEW d \in D, NEW h \in DayHours
      PROVE  /\ openBy[d][h] = HourlyOccupancy(DaySlots(s, d))[h].open
             /\ usedBy[d][h] = HourlyOccupancy(DaySlots(s, d))[h].occupied
             /\ openOf[h][d] = openBy[d][h] /\ usedOf[h][d] = usedBy[d][h]
  OBVIOUS
<1>5. ASSUME NEW d \in D
      PROVE  /\ \A h \in DayHours : /\ openBy[d][h] \in Nat /\ usedBy[d][h] \in Nat
                                    /\ usedBy[d][h] <= openBy[d][h]
                                    /\ openBy[d][h] # 0 =>
                                         \E k \in Open(DaySlots(s, d)) : k \div 2 = h
             /\ open[d] = SumFunctionOnSet(openBy[d], DayHours)
             /\ used[d] = SumFunctionOnSet(usedBy[d], DayHours)
             /\ open[d] \in Nat /\ used[d] \in Nat
  <2> DEFINE slots == DaySlots(s, d)
             c == <<s, d>>
  <2>1. DOMAIN slots = Slots BY DaySlotsAre
  <2>2. c \in Cells BY <1>1 DEF Cells
  <2>3. open[d] = Cardinality(Open(slots)) /\ used[d] = InUse(slots) BY <2>2 DEF Opened, Used
  <2>4. open[d] \in Nat /\ used[d] \in Nat
    <3>1. Opened[c] \in Nat /\ Used[c] \in Nat BY <2>2, CellsCounted
    <3> QED BY <3>1
  <2> DEFINE ob == openBy[d]
             ub == usedBy[d]
  <2>5. \A h \in DayHours : /\ ob[h] = HourlyOccupancy(slots)[h].open
                            /\ ub[h] = HourlyOccupancy(slots)[h].occupied
    BY <1>4
  <2> HIDE DEF slots, ob, ub, open, used
  <2>6. /\ SumFunctionOnSet(ob, DayHours) = Cardinality(Open(slots))
        /\ SumFunctionOnSet(ub, DayHours) = InUse(slots)
    BY ONLY <2>1, <2>5, HoursOfDay
  <2>7. \A h \in DayHours : /\ ob[h] \in Nat /\ ub[h] \in Nat /\ ub[h] <= ob[h]
                            /\ ob[h] # 0 => \E k \in Open(slots) : k \div 2 = h
    BY <2>1, <2>5, HoursOfDay
  <2> HIDE DEF openBy, usedBy
  <2> QED BY <2>3, <2>4, <2>6, <2>7 DEF slots, ob, ub
<1>6. /\ \A h \in DayHours : DOMAIN openOf[h] = D /\ DOMAIN usedOf[h] = D
      /\ \A h \in DayHours : p[h] = SumFunction(openOf[h]) /\ o[h] = SumFunction(usedOf[h])
      /\ \A d \in D : Opened[<<s, d>>] = open[d] /\ Used[<<s, d>>] = used[d]
  OBVIOUS
<1> HIDE DEF D, slotsOf, hoursOf, openOf, usedOf, openBy, usedBy, p, o, open, used, hourly
<1>7. \A h \in DayHours : /\ p[h] = SumFunctionOnSet(openOf[h], D)
                          /\ o[h] = SumFunctionOnSet(usedOf[h], D)
  BY <1>6, Zenon DEF SumFunction
<1>8. Adds(open, D) /\ Adds(used, D) BY <1>1, <1>5 DEF Adds
<1>9. BothWays(DayHours, D, openOf, openBy, p, open)
  BY <1>1, <1>4, <1>5, <1>7, HoursFinite DEF BothWays
<1>10. BothWays(DayHours, D, usedOf, usedBy, o, used)
  BY <1>1, <1>4, <1>5, <1>7, HoursFinite DEF BothWays
<1>11. /\ SumFunctionOnSet(p, DayHours) = SumFunctionOnSet(Opened, Row(s, D))
       /\ SumFunctionOnSet(o, DayHours) = SumFunctionOnSet(Used, Row(s, D))
  <2>1. /\ SumFunctionOnSet(p, DayHours) = SumFunctionOnSet(open, D)
        /\ SumFunctionOnSet(o, DayHours) = SumFunctionOnSet(used, D)
    BY <1>9, <1>10, SumExchange
  <2>2. SumFunctionOnSet(Opened, Row(s, D)) = SumFunctionOnSet(open, D) BY <1>6, <1>8, SumRow
  <2>3. SumFunctionOnSet(Used, Row(s, D)) = SumFunctionOnSet(used, D) BY <1>6, <1>8, SumRow
  <2> QED BY <2>1, <2>2, <2>3
<1>12. ASSUME NEW h \in DayHours
       PROVE  /\ p[h] \in Nat /\ o[h] \in Nat /\ o[h] <= p[h]
              /\ p[h] # 0 => \E d \in D : \E k \in Open(DaySlots(s, d)) : k \div 2 = h
  <2> DEFINE op == openOf[h]
             us == usedOf[h]
  <2>1. /\ Adds(op, D) /\ Adds(us, D) /\ \A d \in D : us[d] <= op[d]
        /\ \A d \in D : op[d] # 0 => \E k \in Open(DaySlots(s, d)) : k \div 2 = h
    BY <1>1, <1>4, <1>5 DEF Adds
  <2>2. p[h] = SumFunctionOnSet(op, D) /\ o[h] = SumFunctionOnSet(us, D) BY <1>7
  <2> HIDE DEF op, us
  <2>3. /\ SumFunctionOnSet(op, D) \in Nat /\ SumFunctionOnSet(us, D) \in Nat
        /\ SumFunctionOnSet(us, D) <= SumFunctionOnSet(op, D)
    BY <2>1, SumType, SumBelow
  <2>4. (\A d \in D : op[d] = 0) => SumFunctionOnSet(op, D) = 0 BY <1>1, SumZeros
  <2> QED BY <2>1, <2>2, <2>3, <2>4
<1>13. Adds(p, DayHours) /\ Adds(o, DayHours) BY <1>12, HoursFinite DEF Adds
<1>14. ASSUME NEW h \in DayHours PROVE hourly[h] = Rate(o[h], p[h]) /\ hourly[h] \in 0 .. 100
  <2>1. hourly[h] = IF p[h] = 0 THEN 0 ELSE Percent(o[h], p[h]) BY <1>3
  <2> QED BY <1>12, <2>1, RateIs
<1>15. DOMAIN hourly = DayHours BY <1>3
<1>16. /\ Adds(o, DayHours) /\ Adds(p, DayHours)
       /\ SumFunctionOnSet(o, DayHours) = SumFunctionOnSet(Used, Row(s, D))
       /\ SumFunctionOnSet(p, DayHours) = SumFunctionOnSet(Opened, Row(s, D))
       /\ \A h \in DayHours :
            /\ o[h] <= p[h] /\ hourly[h] = Rate(o[h], p[h]) /\ hourly[h] \in 0 .. 100
            /\ p[h] # 0 => \E d \in D : \E k \in Open(DaySlots(s, d)) : k \div 2 = h
  BY <1>11, <1>12, <1>13, <1>14
<1>17. D = from .. to BY <1>1
<1> HIDE DEF D
<1> QED BY <1>15, <1>16, <1>17, Zenon DEF hourly

(* Whatever the day, the space is closed at the same half hours. *)
LEMMA OpenInDay ==
  ASSUME NEW d
  PROVE  \A k \in Open(DaySlots(room, d)) : k \in OpenSlots
BY DEF Open, DaySlots, BuildAvailability, OpenSlots, Calendar, Slots, Hours

LEMMA PeriodAgrees ==
  ASSUME TypeOK, NEW from \in Days, NEW to \in Days, from <= to
  PROVE  LET one == SpaceReport(room, from, to)
             many == Report({room}, from, to)
         IN  /\ many.spaces[room] = [reservations |-> one.reservations, blockings |-> one.blockings,
                                     rate |-> one.rate]
             /\ many.rate = one.rate
             /\ many.daily = [k \in DOMAIN one.series |-> [rate |-> one.series[k].rate,
                                                           reservations |-> one.series[k].reservations]]
             /\ one.rate <= one.series[one.peakDay].rate
             /\ closedFrom # DayEnd /\ OperationalHours # {} =>
                  one.rate <= one.hourly[FirstPeak(Restrict(one.hourly, OperationalHours))]
<1> DEFINE one == SpaceReport(room, from, to)
           many == Report({room}, from, to)
           D == from .. to
           K == 1 .. to - from + 1
           series == one.series
           hourly == one.hourly
<1>1. room \in Spaces /\ room \in {room} /\ {room} \in SUBSET Spaces BY DEF Spaces
<1>2. Grid({room}, D) = Row(room, D) BY DEF Grid, Row
<1>3. /\ one.reservations = SumFunctionOnSet(Booked, Row(room, D))
      /\ one.blockings = SumFunctionOnSet(Barred, Row(room, D))
      /\ one.rate = RateOf(Row(room, D))
  BY <1>1, SpaceTotals
<1>4. many.spaces[room] = [reservations |-> SumFunctionOnSet(Booked, Row(room, D)),
                           blockings |-> SumFunctionOnSet(Barred, Row(room, D)),
                           rate |-> RateOf(Row(room, D))]
  <2>1. \A s \in {room} : many.spaces[s] =
          [reservations |-> SumFunctionOnSet(Booked, Row(s, D)),
           blockings |-> SumFunctionOnSet(Barred, Row(s, D)), rate |-> RateOf(Row(s, D))]
    BY <1>1, ReportSpaces
  <2> HIDE DEF many, D
  <2> QED BY <2>1
<1>5. many.rate = one.rate
  <2>1. many.rate = RateOf(Grid({room}, D)) BY <1>1, ReportRate
  <2> QED BY <1>2, <1>3, <2>1
(* Day by day. *)
<1>6. /\ DOMAIN series = K
      /\ \A k \in K : /\ series[k].rate = RateOf(Column({room}, from + k - 1))
                      /\ series[k].rate \in 0 .. 100
                      /\ series[k].reservations = SumFunctionOnSet(Kept, Column({room}, from + k - 1))
      /\ one.peakDay = FirstPeak([k \in DOMAIN series |-> series[k].rate])
  BY <1>1, SpaceSeries
<1>7. many.daily = [k \in DOMAIN series |-> [rate |-> series[k].rate,
                                             reservations |-> series[k].reservations]]
  <2>1. /\ many.daily = [k \in K |-> many.daily[k]]
        /\ \A k \in K : many.daily[k] =
             [rate |-> RateOf(Column({room}, from + k - 1)),
              reservations |-> SumFunctionOnSet(Kept, Column({room}, from + k - 1))]
    BY <1>1, ReportDays
  <2> HIDE DEF many, one, series, K
  <2> QED BY <1>6, <2>1
<1>8. one.rate <= series[one.peakDay].rate
  <2> DEFINE f == [k \in DOMAIN series |-> series[k].rate]
             peak == FirstPeak(f)
  <2>1. DOMAIN f \in SUBSET Nat /\ DOMAIN f # {} /\ \A k \in DOMAIN f : f[k] \in 0 .. 100
    <3>1. K \in SUBSET Nat /\ 1 \in K
      <4>1. from \in Nat /\ to \in Nat BY PeriodDays
      <4> QED BY <4>1
    <3> HIDE DEF series, one, K
    <3> QED BY <1>6, <3>1
  <2>2. peak \in DOMAIN f /\ \A k \in DOMAIN f : f[k] <= f[peak]
    <3> HIDE DEF f
    <3> QED BY <2>1, FirstPeakIs
  <2>3. peak \in K /\ \A k \in K : series[k].rate <= series[peak].rate
    <3> HIDE DEF peak, series, K
    <3> QED BY <1>6, <2>2
  <2>4. PICK R \in Nat : R = series[peak].rate
    <3> HIDE DEF peak, series, K, one
    <3> QED BY <1>6, <2>3
  <2>5. ASSUME NEW d \in D PROVE RateOf(Column({room}, d)) <= R
    <3>1. from \in Nat /\ to \in Nat BY PeriodDays
    <3>2. PICK k \in K : d = from + k - 1
      <4>1. d - from + 1 \in K /\ d = from + (d - from + 1) - 1 BY <3>1
      <4> QED BY <4>1
    <3>3. series[k].rate = RateOf(Column({room}, d)) BY <1>6, <3>2
    <3> HIDE DEF peak, series, K, one, D
    <3> QED BY <2>3, <2>4, <3>3
  <2>6. RateOf(Grid({room}, D)) <= R
    <3>1. \A r \in Nat :
            (\A d \in D : SumFunctionOnSet(Opened, Column({room}, d)) # 0 =>
                            RateOf(Column({room}, d)) <= r) => RateOf(Grid({room}, D)) <= r
      BY <1>1, GridRate
    <3> HIDE DEF D
    <3> QED BY <2>5, <3>1
  <2>7. one.peakDay = peak BY <1>6
  <2> HIDE DEF peak, series, one, D
  <2> QED BY <1>2, <1>3, <2>4, <2>6, <2>7
(* Hour by hour. *)
<1>9. ASSUME closedFrom # DayEnd, OperationalHours # {}
      PROVE  one.rate <= hourly[FirstPeak(Restrict(hourly, OperationalHours))]
  <2> DEFINE f == Restrict(hourly, OperationalHours)
             peak == FirstPeak(f)
  <2>1. /\ DOMAIN hourly = DayHours
        /\ \E o, p :
             /\ Adds(o, DayHours) /\ Adds(p, DayHours)
             /\ SumFunctionOnSet(o, DayHours) = SumFunctionOnSet(Used, Row(room, D))
             /\ SumFunctionOnSet(p, DayHours) = SumFunctionOnSet(Opened, Row(room, D))
             /\ \A h \in DayHours :
                  /\ o[h] <= p[h] /\ hourly[h] = Rate(o[h], p[h]) /\ hourly[h] \in 0 .. 100
                  /\ p[h] # 0 => \E d \in D : \E k \in Open(DaySlots(room, d)) : k \div 2 = h
    BY <1>1, HourlyIs
  <2> HIDE DEF hourly, D, one
  <2>2. PICK o, p :
             /\ Adds(o, DayHours) /\ Adds(p, DayHours)
             /\ SumFunctionOnSet(o, DayHours) = SumFunctionOnSet(Used, Row(room, D))
             /\ SumFunctionOnSet(p, DayHours) = SumFunctionOnSet(Opened, Row(room, D))
             /\ \A h \in DayHours :
                  /\ o[h] <= p[h] /\ hourly[h] = Rate(o[h], p[h]) /\ hourly[h] \in 0 .. 100
                  /\ p[h] # 0 => \E d \in D : \E k \in Open(DaySlots(room, d)) : k \div 2 = h
    BY <2>1
  <2>3. OperationalHours = {k \div 2 : k \in OpenSlots} BY <1>9, TypeHours DEF HoursAgree
  <2>4. OperationalHours \in SUBSET DayHours BY DEF OperationalHours, DayHours
  <2>5. \A h \in DayHours : p[h] # 0 => h \in OperationalHours BY <2>2, <2>3, OpenInDay
  <2>6. DOMAIN f = OperationalHours /\ \A h \in OperationalHours : f[h] = hourly[h]
    BY DEF Restrict
  <2> HIDE DEF f
  <2>7. DOMAIN f \in SUBSET Nat /\ DOMAIN f # {} /\ \A h \in DOMAIN f : f[h] \in 0 .. 100
    BY <1>9, <2>2, <2>4, <2>6, HoursFinite
  <2>8. peak \in DOMAIN f /\ \A h \in DOMAIN f : f[h] <= f[peak] BY <2>7, FirstPeakIs
  <2> HIDE DEF peak
  <2>9. PICK R \in Nat : R = hourly[peak] BY <2>6, <2>7, <2>8
  <2>10. \A h \in DayHours : p[h] # 0 => Rate(o[h], p[h]) <= R
    BY <2>2, <2>5, <2>6, <2>8, <2>9
  <2>11. Rate(SumFunctionOnSet(o, DayHours), SumFunctionOnSet(p, DayHours)) <= R
    BY <2>2, <2>10, RateBetween
  <2> QED BY <1>3, <2>2, <2>9, <2>11 DEF RateOf, peak, f
<1>10. many.spaces[room] = [reservations |-> one.reservations, blockings |-> one.blockings,
                            rate |-> one.rate]
  <2> HIDE DEF many, one
  <2> QED BY <1>3, <1>4
<1> HIDE DEF many, one
<1> QED BY <1>5, <1>7, <1>8, <1>9, <1>10, Zenon DEF many, one

LEMMA TypeReports == TypeOK => ReportsAgree
<1>1. \A p \in Periods : p[1] \in Days /\ p[2] \in Days /\ p[1] <= p[2]
  BY DEF Periods, ValidPeriod
<1> QED BY <1>1, TypeHours, PeriodAgrees DEF ReportsAgree

(***************************************************************************)
(* getOccupancyReport of services/report.service adds up, for any spaces,  *)
(* hours, rows and period of any length: every reservation is in one turn  *)
(* and in one day, but for those of a day that is now closed, and the rate *)
(* of all lies between the rates of the spaces that open.                  *)
(***************************************************************************)
THEOREM TotalsHold == Spec => []TotalsAddUp
<1>1. TypeOK => TotalsAddUp BY TypeTotals
<1> QED BY <1>1, DayTypeCorrect, PTL

(***************************************************************************)
(* getSpaceReport and getOccupancyReport of services/report.service, which *)
(* count with different code, tell the same of one space and period; and   *)
(* no peak that the first shows lies below its rate.                       *)
(***************************************************************************)
THEOREM ReportsSayTheSame == Spec => []ReportsAgree
<1>1. TypeOK => ReportsAgree BY TypeReports
<1> QED BY <1>1, DayTypeCorrect, PTL
===============================================================================
