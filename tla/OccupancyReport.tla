---------------------------- MODULE OccupancyReport ----------------------------
(***************************************************************************)
(* The two reports of services/report.service over what is booked:         *)
(* getSpaceReport, of one space, and getOccupancyReport, of many.  They    *)
(* read the tables once and compute the rest on their own, each its own    *)
(* way.  The day of DayCalendar is one day of one space, `room`; the other *)
(* days and spaces of the period are given.                                *)
(*                                                                         *)
(* The names and authors that a report lists are left out; a rate is the   *)
(* percentage it shows, rounded as Math.round does.                        *)
(***************************************************************************)
EXTENDS DayCalendar, Functions

CONSTANTS
  room, Others,    \* the space of DayCalendar, and the others
  Days,            \* a period of days, of which the first is that of DayCalendar
  MaxRange,        \* MAX_REPORT_RANGE_DAYS
  Noon, Evening,   \* when the turns begin, as times
  HoursOf,         \* other space -> its closed hours
  Rows             \* <<space, day>> -> what is reserved and blocked there, if given

Spaces == {room} \union Others

(* Rows as the validators let them in (see TypeOK).                        *)
StoredRows == {i \in Interval : WellFormed(i)}

ASSUME ReportAssumption ==
  /\ room \notin Others /\ IsFiniteSet(Others) /\ MaxRange \in Nat
  /\ Days \subseteq Nat /\ \A d, e \in Days : d .. e \subseteq Days
  /\ HoursOf \in [Others -> [from : Time, to : Time]]
  /\ \A c \in (Spaces \X Days) \ {<<room, Min(Days)>>} :
       Rows[c] \in [reserved : SUBSET StoredRows, blocked : SUBSET StoredRows]

-------------------------------------------------------------------------------
(* What both read. *)

Hours(s) == IF s = room THEN [from |-> closedFrom, to |-> closedTo] ELSE HoursOf[s]
OnDay(s, d) ==
  IF s = room /\ d = Min(Days) THEN [reserved |-> reserved, blocked |-> blocked]
  ELSE Rows[<<s, d>>]
DaySlots(s, d) ==
  BuildAvailability(Hours(s).from, Hours(s).to, OnDay(s, d).reserved, OnDay(s, d).blocked)

(* The checks on startDate and endDate, and dateRange.                     *)
ValidPeriod(from, to) == from <= to /\ to - from + 1 <= MaxRange
DateRange(from, to) == [k \in 1 .. to - from + 1 |-> from + k - 1]

(* Math.round(100 * part / whole): a half is rounded up. *)
Percent(part, whole) == (200 * part + whole) \div (2 * whole)

(* calculateOccupancyRate, and `rate` of getOccupancyReport.               *)
Rate(occupied, operational) ==
  IF operational = 0 THEN 0 ELSE Min({100, Percent(occupied, operational)})

Open(slots) == {k \in DOMAIN slots : slots[k] # "closed"}
WithStatus(slots, status) == Cardinality({k \in DOMAIN slots : slots[k] = status})

(* A day with every slot closed is skipped: its rows are not counted there. *)
Counted(rows, slots) == IF Open(slots) = {} THEN 0 ELSE Cardinality(rows)

-------------------------------------------------------------------------------
(* getSpaceReport. *)

(* One entry of the daily series. *)
DayOfSpace(slots, rows) ==
  [rate |-> Rate(WithStatus(slots, "reserved") + WithStatus(slots, "blocked"),
                 Cardinality(Open(slots))),
   reservations |-> Counted(rows.reserved, slots), blockings |-> Counted(rows.blocked, slots)]

(* Each hour's average over the period. *)
HourlyAverage(slotsOf) ==
  LET hoursOf == [d \in DOMAIN slotsOf |-> HourlyOccupancy(slotsOf[d])]
      SumOf(h, field) == SumFunction([d \in DOMAIN slotsOf |-> hoursOf[d][h][field]])
  IN  [h \in {k \div 2 : k \in Slots} |->
        IF SumOf(h, "open") = 0 THEN 0 ELSE Percent(SumOf(h, "occupied"), SumOf(h, "open"))]

(* peakDay, peakHour: the first of the highest. *)
FirstPeak(rates) ==
  CHOOSE k \in DOMAIN rates : \A j \in DOMAIN rates :
    rates[j] < rates[k] \/ (rates[j] = rates[k] /\ k <= j)

SpaceReport(s, from, to) ==
  LET dates == DateRange(from, to)
      slotsOf == [d \in Range(dates) |-> DaySlots(s, d)]
      working == {d \in Range(dates) : Open(slotsOf[d]) # {}}
      series == [k \in DOMAIN dates |-> DayOfSpace(slotsOf[dates[k]], OnDay(s, dates[k]))]
      rates == [k \in DOMAIN series |-> series[k].rate]
      count == Cardinality(DOMAIN rates)
  IN  [reservations |-> SumFunction([d \in Range(dates) |-> Cardinality(OnDay(s, d).reserved)]),
       blockings |-> SumFunction([d \in Range(dates) |-> Cardinality(OnDay(s, d).blocked)]),
       rate |-> Rate(SumFunction([d \in working |-> WithStatus(slotsOf[d], "reserved")
                                                     + WithStatus(slotsOf[d], "blocked")]),
                     SumFunction([d \in working |-> Cardinality(Open(slotsOf[d]))])),
       average |-> IF working = {} THEN 0
                   ELSE (2 * SumFunction(rates) + count) \div (2 * count),
       peakDay |-> FirstPeak(rates), series |-> series, hourly |-> HourlyAverage(slotsOf)]

-------------------------------------------------------------------------------
(* getOccupancyReport, of the spaces that its filters select. *)

(* Variant: blocked slots are not in use. *)
InUse_ReservedOnly(slots) == WithStatus(slots, "reserved")
InUse(slots) == Cardinality({k \in DOMAIN slots : slots[k] \in {"reserved", "blocked"}})

(* byTurno, by the hour that a reservation starts in.                      *)
(* Variant: the hour that begins the evening falls between the turns.      *)
Turn_Gap(r) ==
  LET hour == r.start \div 2
  IN  IF hour < Noon THEN "morning" ELSE IF hour < Evening THEN "afternoon"
      ELSE IF hour > Evening THEN "evening" ELSE "none"
Turn(r) ==
  LET hour == r.start \div 2
  IN  IF hour < Noon THEN "morning" ELSE IF hour < Evening THEN "afternoon" ELSE "evening"
Turns == {"morning", "afternoon", "evening"}

Report(spaces, from, to) ==
  LET dates == DateRange(from, to)
      cells == spaces \X Range(dates)
      slotsOf == [c \in cells |-> DaySlots(c[1], c[2])]
      Of(s) == {s} \X Range(dates)
      On(d) == spaces \X {d}
      RateOver(set) == Rate(SumFunction([c \in set |-> InUse(slotsOf[c])]),
                            SumFunction([c \in set |-> Cardinality(Open(slotsOf[c]))]))
      Reserved(c) == OnDay(c[1], c[2]).reserved
  IN  [spaces |-> [s \in spaces |->
         [reservations |-> SumFunction([c \in Of(s) |-> Cardinality(Reserved(c))]),
          blockings |-> SumFunction([c \in Of(s) |-> Cardinality(OnDay(c[1], c[2]).blocked)]),
          rate |-> RateOver(Of(s))]],
       rate |-> RateOver(cells),
       daily |-> [k \in DOMAIN dates |->
         [rate |-> RateOver(On(dates[k])),
          reservations |-> SumFunction([c \in On(dates[k]) |-> Counted(Reserved(c), slotsOf[c])])]],
       turns |-> [turn \in Turns |->
         SumFunction([c \in cells |-> Cardinality({r \in Reserved(c) : Turn(r) = turn})])]]

-------------------------------------------------------------------------------
(* Properties. *)

Periods == {p \in Days \X Days : ValidPeriod(p[1], p[2])}

(* The two reports of one space and period say the same: the totals, the   *)
(* rate, and day by day the rate and the reservations.  The average hours  *)
(* and the days each spread around the rate: neither peak lies below it.   *)
(* The hours listed are those the calendar opens (see HoursAgree).         *)
ReportsAgree ==
  /\ HoursAgree
  /\ \A p \in Periods :
       LET one == SpaceReport(room, p[1], p[2])
           many == Report({room}, p[1], p[2])
       IN  /\ many.spaces[room] = [reservations |-> one.reservations, blockings |-> one.blockings,
                                   rate |-> one.rate]
           /\ many.rate = one.rate
           /\ many.daily = [k \in DOMAIN one.series |-> [rate |-> one.series[k].rate,
                                                         reservations |-> one.series[k].reservations]]
           /\ one.rate <= one.series[one.peakDay].rate
           /\ closedFrom # DayEnd /\ OperationalHours # {} =>
                one.rate <= one.hourly[FirstPeak(Restrict(one.hourly, OperationalHours))]

(* The report over all spaces adds up: every reservation falls into one    *)
(* turn and one day, but for those of a day that is now closed; and the    *)
(* overall rate lies between the rates of the spaces that open.            *)
TotalsAddUp ==
  \A p \in Periods :
    LET report == Report(Spaces, p[1], p[2])
        dates == DateRange(p[1], p[2])
        all == SumFunction([s \in Spaces |-> report.spaces[s].reservations])
        closed == {c \in Spaces \X Range(dates) : Open(DaySlots(c[1], c[2])) = {}}
        rates == {report.spaces[s].rate :
                    s \in {c[1] : c \in (Spaces \X Range(dates)) \ closed}}
    IN  /\ SumFunction(report.turns) = all
        /\ SumFunction([k \in DOMAIN dates |-> report.daily[k].reservations])
             + SumFunction([c \in closed |-> Cardinality(OnDay(c[1], c[2]).reserved)]) = all
        /\ rates # {} => Min(rates) <= report.rate /\ report.rate <= Max(rates)
===============================================================================
