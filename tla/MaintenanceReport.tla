--------------------------- MODULE MaintenanceReport ---------------------------
(***************************************************************************)
(* services/maintenance-report.service: what the maintenance report says   *)
(* of the equipment, from the tickets and the status history as they are   *)
(* when it is asked for.  Reports change nothing, so they are operators    *)
(* over the state of EquipmentTickets.  A campus day is DayTicks ticks, a  *)
(* report is asked for at any tick, and it tells time broken in parts of a *)
(* day, rounded: tenths in its rows, hundredths in its series.             *)
(***************************************************************************)
EXTENDS EquipmentTickets

CONSTANTS
  MaxRange,      \* MAX_MAINTENANCE_RANGE_DAYS
  DayTicks,      \* DAY_MS, in ticks
  RowParts,      \* timeInBrokenDays is rounded to 1 / RowParts of a day
  SeriesParts    \* brokenDays is rounded to 1 / SeriesParts of a day

ASSUME MaintenanceAssumption ==
  /\ MaxRange \in Nat \ {0} /\ DayTicks \in Nat \ {0}
  /\ RowParts \in Nat \ {0} /\ SeriesParts \in Nat \ {0}

(* campusMidnightMs, campusToday: when a day starts, and the day of a tick.*)
StartOf(day) == day * DayTicks
DayOf(at) == at \div DayTicks

(* resolveRange: the dates asked for, in order and not too many.  A date   *)
(* left out is today, or MaxRange days up to the other.                    *)
Dates == 0 .. DayOf(MaxTime)
Ranges == {r \in [from : Dates, to : Dates] : r.from <= r.to /\ r.to - r.from < MaxRange}
EndOf(range) == StartOf(range.to + 1)
InWindow(at, range) == StartOf(range.from) <= at /\ at < EndOf(range)

(* round: parts of a day, the half going up.                               *)
Rounded(ticks, parts) == (2 * parts * ticks + DayTicks) \div (2 * DayTicks)

(* historyUntil: nothing after the window. *)
HistoryUntil(e, range) == {k \in RowsOf(e) : history[k].at < EndOf(range)}
IntervalsUntil(e, range) == BrokenIntervals(HistoryUntil(e, range))

(* reportsInRange: tickets on topics stay out.                             *)
ReportsIn(e, range) ==
  {t \in DOMAIN tickets : tickets[t].target = e /\ InWindow(tickets[t].at, range)}

(* isTransition: a row that changes nothing does not count.                *)
Transitions(e, range) ==
  {k \in HistoryUntil(e, range) : history[k].from # history[k].to /\ InWindow(history[k].at, range)}
Into(s, rows) == {k \in rows : history[k].to = s}
InStatus(s, reports) == {t \in reports : tickets[t].status = s}

(* computeCounts: the interval still open ends now, or with the window.    *)
(* Variant: an interval is counted to its end, past the window.            *)
BrokenTime_PastWindow(e, range) ==
  Overlap(IntervalsUntil(e, range), StartOf(range.from), time)
BrokenTime(e, range) ==
  Overlap(IntervalsUntil(e, range), StartOf(range.from), Min({EndOf(range), time}))

Counts(e, range) ==
  LET reports == ReportsIn(e, range)
  IN  [reports |-> Cardinality(reports),
       open |-> Cardinality(reports \intersect Open),
       resolved |-> Cardinality(InStatus("resolved", reports)),
       dismissed |-> Cardinality(InStatus("dismissed", reports)),
       breakdowns |-> Cardinality(Into("broken", Transitions(e, range))),
       repairs |-> Cardinality(Into("working", Transitions(e, range))),
       timeInBrokenDays |-> Rounded(BrokenTime(e, range), RowParts)]

(* buildSeries: per date, the tickets opened and the time broken; the time *)
(* of all equipment is added up before it is rounded.                      *)
OpenedOn(e, d, range) == {t \in ReportsIn(e, range) : DayOf(tickets[t].at) = d}
BrokenOn(e, d, range) ==
  Overlap(IntervalsUntil(e, range), StartOf(d), Min({StartOf(d + 1), time}))
Series(listed, range) ==
  [d \in range.from .. range.to |->
     [reports |-> SumFunction([e \in listed |-> Cardinality(OpenedOn(e, d, range))]),
      brokenDays |-> Rounded(SumFunction([e \in listed |-> BrokenOn(e, d, range)]), SeriesParts)]]

(* listEquipment: idle working equipment is left out, unless it is asked   *)
(* for by name.  Time broken that rounds to no part of a day is no         *)
(* activity.                                                               *)
(* Variant: what happened before the window is not activity in it.         *)
HasActivity_InWindow(e, range) == ReportsIn(e, range) # {} \/ Transitions(e, range) # {}
HasActivity(e, range) ==
  \/ ReportsIn(e, range) # {} \/ Transitions(e, range) # {}
  \/ Counts(e, range).timeInBrokenDays > 0

(* The filters: one equipment, a status, or none.                          *)
Listed(selected, named, range) ==
  {e \in selected : named \/ HasActivity(e, range) \/ status[e] # "working"}

ListEquipment(filter, range) ==
  LET selected == CASE filter.by = "equipment" -> {filter.equipment}
                    [] filter.by = "status" -> {e \in Equipment : status[e] = filter.status}
                    [] OTHER -> Equipment
      listed == Listed(selected, filter.by = "equipment", range)
  IN  [rows |-> [e \in listed |-> Counts(e, range)], series |-> Series(listed, range)]

(* getEquipmentReport *)
EquipmentReport(e, range) ==
  [summary |-> Counts(e, range),
   (* lastOccurrenceAt *)
   occurrences |-> {tickets[t].at : t \in ReportsIn(e, range)}
                     \union {history[k].at : k \in Into("broken", Transitions(e, range))},
   series |-> Series({e}, range)]

-------------------------------------------------------------------------------
(* Properties. *)

(* A report of days that are over says the same whenever it is asked for:  *)
(* tickets change their state and intervals still open grow, but the time  *)
(* broken, breakdowns and repairs of those days stay, unless the status    *)
(* changed then and its row was written later.                             *)
PastReportsStand ==
  [][<<history, time>>' # <<history, time>> => \A range \in Ranges : EndOf(range) <= time =>
       \A e \in Equipment \ late' :
         /\ BrokenTime(e, range)' = BrokenTime(e, range)
         /\ \A s \in {"broken", "working"} :
              Into(s, Transitions(e, range))' = Into(s, Transitions(e, range))]_vars

(* What the days of the series add up to.                                  *)
InAll(series, field) == SumFunction([d \in DOMAIN series |-> series[d][field]])
InRows(rows) == SumFunction([e \in DOMAIN rows |-> rows[e].timeInBrokenDays])

(* "One row per equipment with activity" (listEquipment): equipment that   *)
(* was broken at any moment of the window is listed, even when it broke    *)
(* before and was repaired after it, and although the activity test looks  *)
(* at the time broken after rounding it.  The series and the rows tell the *)
(* same downtime in different parts of a day: they are apart by what       *)
(* rounding leaves, half a part of each day of the series and half a part  *)
(* of each row, and by no more.  The series has every ticket.              *)
BrokenIsListed ==
  BetweenRequests => \A range \in {r \in Ranges : StartOf(r.from) <= time} :
    LET list == ListEquipment([by |-> "none"], range)
        days == 2 * RowParts * InAll(list.series, "brokenDays")
        rows == 2 * SeriesParts * InRows(list.rows)
        left == RowParts * Cardinality(DOMAIN list.series)
                  + SeriesParts * Cardinality(DOMAIN list.rows)
    IN  /\ \A e \in Equipment \ (unlogged \union late) :
             ~BornBroken(e) /\ (\E t \in Time : InWindow(t, range) /\ <<e, t>> \in broken)
               => e \in DOMAIN list.rows
        /\ rows <= days + left /\ days <= rows + left
        /\ InAll(list.series, "reports")
             = Cardinality({t \in DOMAIN tickets : /\ tickets[t].target \in Equipment
                                                  /\ InWindow(tickets[t].at, range)})
================================================================================
