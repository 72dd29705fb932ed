----------------------------- MODULE BookingProofs -----------------------------
(***************************************************************************)
(* Proofs about Booking, for any number of users, spaces, rows, dates and  *)
(* simultaneous requests.                                                  *)
(*                                                                         *)
(* First the types.  Then what the availability checks and the overrides   *)
(* are worth under concurrency: the invariants that limit double bookings, *)
(* and reservations under a blocking, to the races the history variables   *)
(* record; the bound on a student's reservations; and, when requests are   *)
(* served one at a time, the calendar that they implement.                 *)
(***************************************************************************)
EXTENDS Booking, FiniteSetTheorems, TLAPS

-------------------------------------------------------------------------------
(* Facts about the helpers. *)

LEMMA IdsAreNat ==
  /\ ReservationIds \subseteq Nat
  /\ BlockingIds \subseteq Nat
  /\ SeriesIds \union {NoSeries} \subseteq Nat
<1>1. /\ ReservationIds \subseteq Nat \ {NoRow}
      /\ BlockingIds \subseteq Nat \ {NoRow}
      /\ SeriesIds \subseteq Nat \ {NoSeries}
  BY Zenon, BookingAssumption
<1>2. NoSeries \in Nat BY DEF NoSeries
<1> QED BY <1>1, <1>2

LEMMA RowIdsNotNull == NoRow \notin ReservationIds /\ NoRow \notin BlockingIds
<1>1. ReservationIds \subseteq Nat \ {NoRow} /\ BlockingIds \subseteq Nat \ {NoRow}
  BY Zenon, BookingAssumption
<1> QED BY <1>1

LEMMA DaysAreNat == MaxDay \in Nat \ {0} /\ Days \subseteq Nat
<1>1. MaxDay \in Nat \ {0} BY Zenon, BookingAssumption
<1> QED BY <1>1 DEF Days

LEMMA IntervalsWellTyped == Intervals \subseteq Interval
BY Zenon, BookingAssumption

LEMMA RequestersAreUsers == Requesters \subseteq Users
BY Zenon, BookingAssumption

(* A worker that goes on with a request of the right kind keeps its type.  *)
LEMMA GotoType ==
  ASSUME ControlOK, NEW w \in Workers, NEW to \in Labels, NEW request, Fits(to, request),
         Goto(w, to, request), UNCHANGED todo
  PROVE  ControlOK'
BY DEF ControlOK, Goto

LEMMA FinishType ==
  ASSUME ControlOK, NEW w \in Workers, NEW tail \in Notices, Finish(w, tail)
  PROVE  ControlOK'
<1>1. /\ "idle" \in Labels /\ "notify" \in Labels
      /\ Fits("idle", NoRequest) /\ Fits("notify", NoRequest)
  BY DEF Labels, Fits, BlockLoop
<1>2. pc' \in [Workers -> Labels]
  BY <1>1 DEF ControlOK, Finish
<1>3. DOMAIN req' = Workers /\ \A v \in Workers : Fits(pc'[v], req'[v])
  BY <1>1 DEF ControlOK, Finish
<1>4. todo' \in [Workers -> Notices]
  BY DEF ControlOK, Finish
<1> QED BY <1>2, <1>3, <1>4 DEF ControlOK

LEMMA RefuseType ==
  ASSUME ControlOK, NEW w \in Workers, Refuse(w)
  PROVE  ControlOK'
<1>1. NoNotices \in Notices BY DEF Notices, NoNotices
<1> QED BY <1>1, FinishType DEF Refuse

LEMMA InsertType ==
  ASSUME NEW table, NEW id, NEW row, NEW Rows, table \in [DOMAIN table -> Rows], row \in Rows
  PROVE  /\ DOMAIN Insert(table, id, row) = DOMAIN table \union {id}
         /\ Insert(table, id, row) \in [DOMAIN table \union {id} -> Rows]
BY DEF Insert

LEMMA NoticeIfType ==
  ASSUME NEW condition, NEW user, NEW kind \in NoticeKinds, NEW about \in Nat,
         condition => user \in Users
  PROVE  NoticeIf(condition, user, kind, about) \subseteq Notice
BY DEF NoticeIf, Notice

LEMMA PartiesType ==
  ASSUME NEW row \in ReservationRow, NEW user, NEW kind \in NoticeKinds,
         NEW r \in ReservationIds
  PROVE  Parties(row, user, kind, r) \in Notices
<1>1. r \in Nat BY IdsAreNat
<1>2. row.user \in Users /\ row.requester \in Users \union {NoUser} BY DEF ReservationRow
<1>3. /\ NoticeIf(row.user # user, row.user, kind, r) \subseteq Notice
      /\ NoticeIf(row.requester \notin {NoUser, user}, row.requester, kind, r) \subseteq Notice
  BY <1>1, <1>2, NoticeIfType
<1> QED BY <1>3 DEF Parties, Notices

LEMMA OnDateType ==
  ASSUME NEW slot \in Slot, NEW d \in Days
  PROVE  OnDate(slot, d) \in Slot
BY DEF OnDate, Slot

LEMMA NextDateType ==
  ASSUME ControlOK, NEW w \in Workers, req[w] \in CreateRequest, NEW created \in BOOLEAN,
         NextDate(w, created)
  PROVE  ControlOK'
<1> DEFINE r == req[w]
           tail == NoticeIf(created /\ r.requester # NoUser, r.requester, "seriesConfirmed",
                            r.series)
<1>1. r.series \in SeriesIds \union {NoSeries} /\ r.requester \in Users \union {NoUser}
  BY DEF CreateRequest
<1>2. r.series \in Nat
  BY <1>1, IdsAreNat
<1>3. CASE Finish(w, [owners |-> {}, requester |-> tail])
  <2>1. created /\ r.requester # NoUser => r.requester \in Users BY <1>1
  <2>2. "seriesConfirmed" \in NoticeKinds BY DEF NoticeKinds
  <2>3. tail \subseteq Notice BY <1>2, <2>1, <2>2, NoticeIfType
  <2>4. [owners |-> {}, requester |-> tail] \in Notices BY <2>3 DEF Notices
  <2> QED BY <1>3, <2>4, FinishType
<1>4. ASSUME NEW d \in Rest(r),
             Goto(w, "checkReservations",
                  [r EXCEPT !.dates = Rest(r), !.slot = OnDate(@, d), !.created = created]),
             UNCHANGED todo
      PROVE  ControlOK'
  <2> DEFINE next == [r EXCEPT !.dates = Rest(r), !.slot = OnDate(@, d), !.created = created]
  <2>1. d \in Days /\ Rest(r) \subseteq Days /\ r.slot \in Slot
    BY DEF Rest, CreateRequest
  <2>2. OnDate(r.slot, d) \in Slot BY <2>1, OnDateType
  <2>3. next \in CreateRequest BY <2>1, <2>2 DEF CreateRequest
  <2>4. Fits("checkReservations", next) /\ "checkReservations" \in Labels
    BY <2>3 DEF Fits, Labels, BlockLoop
  <2> QED BY <1>4, <2>4, GotoType
<1> QED BY <1>3, <1>4 DEF NextDate

LEMMA UnavailableType ==
  ASSUME ControlOK, NEW w \in Workers, req[w] \in CreateRequest \union UpdateRequest,
         Unavailable(w)
  PROVE  ControlOK'
<1>1. CASE req[w].op = "recurring"
  <2>1. req[w] \in CreateRequest BY <1>1 DEF UpdateRequest
  <2>2. req[w].created \in BOOLEAN BY <2>1 DEF CreateRequest
  <2> QED BY <1>1, <2>1, <2>2, NextDateType DEF Unavailable
<1>2. CASE req[w].op # "recurring"
  BY <1>2, RefuseType DEF Unavailable
<1> QED BY <1>1, <1>2

LEMMA NextInLoopType ==
  ASSUME ControlOK, NEW w \in Workers, NEW r \in BlockRequest, NextInLoop(w, r)
  PROVE  ControlOK'
<1>1. CASE Goto(w, "overrideRow", r) /\ UNCHANGED todo
  <2>1. Fits("overrideRow", r) /\ "overrideRow" \in Labels BY DEF Fits, Labels, BlockLoop
  <2> QED BY <1>1, <2>1, GotoType
<1>2. CASE Refuse(w)
  BY <1>2, RefuseType
<1>3. ASSUME NEW d \in Rest(r),
             Goto(w, "insertBlocking", [r EXCEPT !.dates = Rest(r), !.slot = OnDate(@, d)]),
             UNCHANGED todo
      PROVE  ControlOK'
  <2> DEFINE next == [r EXCEPT !.dates = Rest(r), !.slot = OnDate(@, d)]
  <2>1. d \in Days /\ Rest(r) \subseteq Days /\ r.slot \in Slot BY DEF Rest, BlockRequest
  <2>2. OnDate(r.slot, d) \in Slot BY <2>1, OnDateType
  <2>3. next \in BlockRequest BY <2>1, <2>2 DEF BlockRequest
  <2>4. Fits("insertBlocking", next) /\ "insertBlocking" \in Labels
    BY <2>3 DEF Fits, Labels, BlockLoop
  <2> QED BY <1>3, <2>4, GotoType
<1> QED BY <1>1, <1>2, <1>3 DEF NextInLoop

LEMMA ForgetType ==
  ASSUME HistoryOK, NEW w \in Workers, Forget(w), UNCHANGED <<failures, doubleGap, blockGap>>
  PROVE  HistoryOK'
BY DEF HistoryOK, Forget

(* The request of a worker, by the statement it is at. *)
LEMMA RequestKind ==
  ASSUME ControlOK, NEW w \in Workers
  PROVE  /\ pc[w] \in {"checkReservations", "checkBlockings"} =>
              req[w] \in CreateRequest \union UpdateRequest
         /\ pc[w] \in {"countActive", "insert"} => req[w] \in CreateRequest
         /\ pc[w] = "updateRow" => req[w] \in UpdateRequest
         /\ pc[w] = "cancelRow" => req[w] \in CancelRequest
         /\ pc[w] = "cancelSeriesRows" => req[w] \in CancelSeriesRequest
         /\ pc[w] \in BlockLoop \union {"snapshot"} => req[w] \in BlockRequest
         /\ pc[w] = "removeBlocking" => req[w] \in UnblockRequest
BY DEF ControlOK, Fits

-------------------------------------------------------------------------------
(* TypeOK: one lemma per group of actions. *)

(* A step of the handlers' control alone. *)
LEMMA ControlStepType ==
  ASSUME TypeOK, ControlOK', UNCHANGED <<tables, clock, failures, gaps>>
  PROVE  TypeOK'
BY DEF TypeOK, TablesOK, ClockOK, HistoryOK, tables, clock, gaps

LEMMA SubmitCreateType ==
  ASSUME TypeOK, NEW w \in Workers, SubmitCreate(w)
  PROVE  TypeOK'
<1>1. PICK u \in Users, s \in Spaces, d \in Days, i \in Intervals,
           requester \in Requesters \union {NoUser} :
        Goto(w, "checkReservations",
             [op |-> "create", user |-> u, requester |-> requester, series |-> NoSeries,
              slot |-> [space |-> s, date |-> d, start |-> i.start, end |-> i.end],
              dates |-> {d}, created |-> FALSE, target |-> NoRow])
  BY Zenon DEF SubmitCreate
<1> DEFINE slot == [space |-> s, date |-> d, start |-> i.start, end |-> i.end]
           request == [op |-> "create", user |-> u, requester |-> requester,
                       series |-> NoSeries, slot |-> slot, dates |-> {d},
                       created |-> FALSE, target |-> NoRow]
<1>2. slot \in Slot BY IntervalsWellTyped DEF Slot, Interval
<1>3. requester \in Users \union {NoUser} BY RequestersAreUsers
<1>4. request \in CreateRequest BY <1>2, <1>3 DEF CreateRequest
<1>5. Fits("checkReservations", request) /\ "checkReservations" \in Labels
  BY <1>4 DEF Fits, Labels, BlockLoop
<1>6. ControlOK' BY <1>1, <1>5, GotoType DEF TypeOK, SubmitCreate
<1> QED BY <1>6, ControlStepType DEF SubmitCreate

LEMMA SubmitRecurringType ==
  ASSUME TypeOK, NEW w \in Workers, SubmitRecurring(w)
  PROVE  TypeOK'
<1>1. PICK u \in Users, s \in Spaces, dates \in DateSets, i \in Intervals,
           requester \in Requesters \union {NoUser}, id \in SeriesIds, first \in Days :
        /\ RoleOf[u] \in {"professor", "staff"}
        /\ Earliest(first, dates) /\ first >= today
        /\ RoomForRows(Cardinality(dates))
        /\ ValidInterval(i.start, i.end)
        /\ ValidRequester(u, requester)
        /\ MayUseSpace(u, s)
        /\ IsFresh(id, SeriesIds, recurrences)
        /\ recurrences' = Insert(recurrences, id, [user |-> u, requester |-> requester])
        /\ Goto(w, "checkReservations",
                [op |-> "recurring", user |-> u, requester |-> requester, series |-> id,
                 slot |-> [space |-> s, date |-> first, start |-> i.start, end |-> i.end],
                 dates |-> dates, created |-> FALSE, target |-> NoRow])
  BY Zenon DEF SubmitRecurring
<1> DEFINE slot == [space |-> s, date |-> first, start |-> i.start, end |-> i.end]
           head == [user |-> u, requester |-> requester]
           request == [op |-> "recurring", user |-> u, requester |-> requester,
                       series |-> id, slot |-> slot, dates |-> dates,
                       created |-> FALSE, target |-> NoRow]
<1>2. slot \in Slot BY IntervalsWellTyped DEF Slot, Interval
<1>3. requester \in Users \union {NoUser} BY RequestersAreUsers
<1>4. request \in CreateRequest BY <1>2, <1>3 DEF CreateRequest, DateSets
<1>5. Fits("checkReservations", request) /\ "checkReservations" \in Labels
  BY <1>4 DEF Fits, Labels, BlockLoop
<1>6. ControlOK' BY <1>1, <1>5, GotoType DEF TypeOK, SubmitRecurring
<1>7. head \in RecurrenceRow BY <1>3 DEF RecurrenceRow
<1>8. /\ recurrences \in [DOMAIN recurrences -> RecurrenceRow]
      /\ DOMAIN recurrences \subseteq SeriesIds
  BY DEF TypeOK, TablesOK
<1>9. /\ DOMAIN recurrences' = DOMAIN recurrences \union {id}
      /\ recurrences' \in [DOMAIN recurrences \union {id} -> RecurrenceRow]
  BY <1>1, <1>7, <1>8, InsertType
<1>10. TablesOK'
  BY <1>8, <1>9 DEF TypeOK, TablesOK, SubmitRecurring
<1> QED BY <1>6, <1>10 DEF TypeOK, ClockOK, HistoryOK, SubmitRecurring, clock, gaps

LEMMA SubmitUpdateType ==
  ASSUME TypeOK, NEW w \in Workers, SubmitUpdate(w)
  PROVE  TypeOK'
<1> DEFINE next(id, d, start, end) ==
             [space |-> reservations[id].slot.space, date |-> d, start |-> start, end |-> end]
           moved(id, d, start, end) == next(id, d, start, end) # reservations[id].slot
           to(id, d, start, end) ==
             IF moved(id, d, start, end) THEN "checkReservations" ELSE "updateRow"
           request(u, id, d, start, end) ==
             [op |-> "update", user |-> u, target |-> id, slot |-> next(id, d, start, end),
              moved |-> moved(id, d, start, end)]
<1>1. PICK u \in Users, id \in Confirmed, d \in Days, start \in Starts, end \in Ends :
        Goto(w, to(id, d, start, end), request(u, id, d, start, end))
  BY DEF SubmitUpdate
<1>3. id \in ReservationIds /\ reservations[id].slot \in Slot
  BY DEF TypeOK, TablesOK, ReservationRow, Confirmed
<1>4. start \in Time /\ end \in Time
  BY BookingAssumption DEF Starts, Ends, Interval
<1>5. next(id, d, start, end) \in Slot BY <1>3, <1>4 DEF Slot
<1>6. moved(id, d, start, end) \in BOOLEAN OBVIOUS
<1>7. request(u, id, d, start, end) \in UpdateRequest BY <1>3, <1>5, <1>6 DEF UpdateRequest
<1>8. /\ Fits(to(id, d, start, end), request(u, id, d, start, end))
      /\ to(id, d, start, end) \in Labels
  BY <1>7 DEF Fits, Labels, BlockLoop
<1>10. ControlOK' BY <1>1, <1>8, GotoType DEF TypeOK, SubmitUpdate
<1>11. HistoryOK' BY ForgetType DEF TypeOK, SubmitUpdate
<1> QED BY <1>10, <1>11 DEF TypeOK, TablesOK, ClockOK, SubmitUpdate, tables, clock

LEMMA CheckReservationsType ==
  ASSUME TypeOK, NEW w \in Workers, CheckReservations(w)
  PROVE  TypeOK'
<1>1. req[w] \in CreateRequest \union UpdateRequest
  BY RequestKind DEF TypeOK, CheckReservations
<1>2. \/ Unavailable(w)
      \/ Goto(w, "checkBlockings", req[w]) /\ UNCHANGED todo
  BY Zenon DEF CheckReservations
<1>3. Fits("checkBlockings", req[w]) /\ "checkBlockings" \in Labels
  BY <1>1 DEF Fits, Labels, BlockLoop
<1>4. ControlOK' BY <1>1, <1>2, <1>3, GotoType, UnavailableType DEF TypeOK
<1>5. HistoryOK' BY ForgetType DEF TypeOK, CheckReservations
<1> QED BY <1>4, <1>5 DEF TypeOK, TablesOK, ClockOK, CheckReservations, tables, clock

LEMMA CheckBlockingsType ==
  ASSUME TypeOK, NEW w \in Workers, CheckBlockings(w)
  PROVE  TypeOK'
<1>1. req[w] \in CreateRequest \union UpdateRequest
  BY RequestKind DEF TypeOK, CheckBlockings
<1> DEFINE to == IF req[w].op = "create" THEN "countActive"
                 ELSE IF req[w].op = "recurring" THEN "insert"
                 ELSE "updateRow"
<1>2. \/ Unavailable(w) /\ Forget(w)
      \/ Goto(w, to, req[w]) /\ newBlk' = [newBlk EXCEPT ![w] = {}] /\ UNCHANGED <<todo, newRes>>
  BY Zenon DEF CheckBlockings
<1>3. Fits(to, req[w]) /\ to \in Labels
  BY <1>1 DEF Fits, Labels, BlockLoop, CreateRequest, UpdateRequest
<1>4. ControlOK' BY <1>1, <1>2, <1>3, GotoType, UnavailableType DEF TypeOK
<1>5. HistoryOK' BY <1>2 DEF TypeOK, HistoryOK, CheckBlockings, Forget
<1> QED BY <1>4, <1>5 DEF TypeOK, TablesOK, ClockOK, CheckBlockings, tables, clock

LEMMA CountActiveType ==
  ASSUME TypeOK, NEW w \in Workers, CountActive(w)
  PROVE  TypeOK'
<1>1. req[w] \in CreateRequest
  BY RequestKind DEF TypeOK, CountActive
<1>2. \/ Refuse(w) /\ Forget(w)
      \/ Goto(w, "insert", req[w]) /\ UNCHANGED <<todo, newRes, newBlk>>
  BY Zenon DEF CountActive
<1>3. Fits("insert", req[w]) /\ "insert" \in Labels
  BY <1>1 DEF Fits, Labels, BlockLoop
<1>4. ControlOK' BY <1>1, <1>2, <1>3, GotoType, RefuseType DEF TypeOK
<1>5. HistoryOK' BY <1>2 DEF TypeOK, HistoryOK, CountActive, Forget
<1> QED BY <1>4, <1>5 DEF TypeOK, TablesOK, ClockOK, CountActive, tables, clock

LEMMA RacedType ==
  ASSUME TablesOK, HistoryOK, NEW w \in Workers, NEW id \in ReservationIds, NEW slot
  PROVE  /\ RacedReservations(w, id, slot) \subseteq ReservationIds \X ReservationIds
         /\ RacedBlockings(w, id, slot) \subseteq ReservationIds \X BlockingIds
<1>1. newRes[w] \subseteq ReservationIds /\ newBlk[w] \subseteq BlockingIds
  BY DEF HistoryOK
<1> QED BY <1>1 DEF RacedReservations, RacedBlockings

LEMMA WroteReservationType ==
  ASSUME HistoryOK, NEW w \in Workers, NEW id \in ReservationIds, WroteReservation(w, id)
  PROVE  /\ newRes' \in [Workers -> SUBSET ReservationIds]
         /\ newBlk' \in [Workers -> SUBSET BlockingIds]
BY DEF HistoryOK, WroteReservation

LEMMA WroteBlockingType ==
  ASSUME HistoryOK, NEW w \in Workers, NEW id \in BlockingIds, WroteBlocking(w, id)
  PROVE  /\ newRes' \in [Workers -> SUBSET ReservationIds]
         /\ newBlk' \in [Workers -> SUBSET BlockingIds]
BY DEF HistoryOK, WroteBlocking

(* A step that leaves the reservations' domain alone and every row well    *)
(* typed, and touches no other table.                                      *)
LEMMA RowStepType ==
  ASSUME TypeOK, ControlOK', HistoryOK',
         reservations' \in [DOMAIN reservations -> ReservationRow],
         UNCHANGED <<recurrences, blockings, notices, clock>>
  PROVE  TypeOK'
BY DEF TypeOK, TablesOK, ClockOK, clock

LEMMA InsertReservationType ==
  ASSUME TypeOK, NEW w \in Workers, InsertReservation(w)
  PROVE  TypeOK'
<1> DEFINE r == req[w]
<1>1. r \in CreateRequest
  BY RequestKind DEF TypeOK, InsertReservation
<1>2. CASE /\ Unavailable(w) /\ Forget(w)
           /\ UNCHANGED <<reservations, doubleGap, blockGap>>
  <2>1. ControlOK' BY <1>1, <1>2, UnavailableType DEF TypeOK
  <2>2. HistoryOK' BY <1>2, ForgetType DEF TypeOK, InsertReservation
  <2> QED BY <1>2, <2>1, <2>2
          DEF TypeOK, TablesOK, ClockOK, InsertReservation, tables, clock
<1> DEFINE row == [status |-> "confirmed", slot |-> r.slot, user |-> r.user,
                   requester |-> r.requester, series |-> r.series]
           tail(id) == [owners |-> NoticeIf(TRUE, r.user, "confirmed", id),
                        requester |-> NoticeIf(r.requester # NoUser,
                                               r.requester, "confirmed", id)]
<1>3. ASSUME NEW id \in ReservationIds,
             reservations' = Insert(reservations, id, row),
             IF r.op = "recurring" THEN NextDate(w, TRUE) ELSE Finish(w, tail(id)),
             WroteReservation(w, id),
             doubleGap' = doubleGap \union RacedReservations(w, id, r.slot),
             blockGap' = blockGap \union RacedBlockings(w, id, r.slot)
      PROVE  TypeOK'
  <2>1. /\ r.user \in Users /\ r.requester \in Users \union {NoUser} /\ r.slot \in Slot
        /\ r.series \in SeriesIds \union {NoSeries}
    BY <1>1 DEF CreateRequest
  <2>2. row \in ReservationRow BY <2>1 DEF ReservationRow
  <2>3. /\ reservations \in [DOMAIN reservations -> ReservationRow]
        /\ DOMAIN reservations \subseteq ReservationIds
    BY DEF TypeOK, TablesOK
  <2>4. /\ DOMAIN reservations' = DOMAIN reservations \union {id}
        /\ reservations' \in [DOMAIN reservations \union {id} -> ReservationRow]
    BY <1>3, <2>2, <2>3, InsertType
  <2>5. TablesOK' BY <2>3, <2>4 DEF TypeOK, TablesOK, InsertReservation
  <2>6. tail(id) \in Notices
    <3>1. id \in Nat BY IdsAreNat
    <3>2. "confirmed" \in NoticeKinds BY DEF NoticeKinds
    <3>3. r.requester # NoUser => r.requester \in Users BY <2>1
    <3>4. /\ NoticeIf(TRUE, r.user, "confirmed", id) \subseteq Notice
          /\ NoticeIf(r.requester # NoUser, r.requester, "confirmed", id) \subseteq Notice
      BY <2>1, <3>1, <3>2, <3>3, NoticeIfType
    <3> QED BY <3>4 DEF Notices
  <2>7. ControlOK'
    BY <1>1, <1>3, <2>6, NextDateType, FinishType DEF TypeOK
  <2>8. HistoryOK'
    <3>1. /\ doubleGap' \subseteq ReservationIds \X ReservationIds
          /\ blockGap' \subseteq ReservationIds \X BlockingIds
      BY <1>3, RacedType DEF TypeOK, HistoryOK
    <3> QED BY <1>3, <3>1, WroteReservationType DEF TypeOK, HistoryOK, InsertReservation
  <2> QED BY <2>5, <2>7, <2>8 DEF TypeOK, ClockOK, InsertReservation, clock
<1> QED BY <1>2, <1>3 DEF InsertReservation

LEMMA UpdateReservationType ==
  ASSUME TypeOK, TargetsExist, NEW w \in Workers, UpdateReservation(w)
  PROVE  TypeOK'
<1> DEFINE r == req[w]
           id == r.target
           row == reservations[id]
<1>1. r \in UpdateRequest
  BY RequestKind DEF TypeOK, UpdateReservation
<1>2. id \in ReservationIds /\ id \in DOMAIN reservations /\ r.slot \in Slot
  BY <1>1 DEF UpdateRequest, TargetsExist, Refers
<1>3. row \in ReservationRow BY <1>2 DEF TypeOK, TablesOK
<1>4. CASE Refuse(w) /\ Forget(w) /\ UNCHANGED <<reservations, doubleGap, blockGap>>
  <2>1. ControlOK' BY <1>4, RefuseType DEF TypeOK
  <2>2. HistoryOK' BY <1>4, ForgetType DEF TypeOK, UpdateReservation
  <2> QED BY <1>4, <2>1, <2>2
          DEF TypeOK, TablesOK, ClockOK, UpdateReservation, tables, clock
<1> DEFINE others == {p \in doubleGap : id \notin {p[1], p[2]}}
<1>5. CASE /\ reservations' = [reservations EXCEPT ![id] = EditedRow(row, r.slot)]
           /\ Finish(w, Parties(row, r.user, "modified", id))
           /\ WroteReservation(w, id)
           /\ IF r.moved
              THEN /\ doubleGap' = others \union RacedReservations(w, id, r.slot)
                   /\ blockGap' = {p \in blockGap : p[1] # id}
                                    \union RacedBlockings(w, id, r.slot)
              ELSE IF id \in newRes[w]
              THEN /\ doubleGap' = doubleGap \union {<<id, x>> : x \in ReservedOver(r.slot)}
                   /\ blockGap' = blockGap \union {<<id, b>> : b \in BlockedOver(r.slot)}
              ELSE UNCHANGED <<doubleGap, blockGap>>
  <2>1. EditedRow(row, r.slot) \in ReservationRow
    BY <1>2, <1>3 DEF EditedRow, ReservationRow
  <2>2. reservations' \in [DOMAIN reservations -> ReservationRow]
    BY <1>2, <1>5, <2>1 DEF TypeOK, TablesOK
  <2>3. "modified" \in NoticeKinds BY DEF NoticeKinds
  <2>4. Parties(row, r.user, "modified", id) \in Notices
    BY <1>2, <1>3, <2>3, PartiesType
  <2>5. ControlOK' BY <1>5, <2>4, FinishType DEF TypeOK
  <2>6. /\ RacedReservations(w, id, r.slot) \subseteq ReservationIds \X ReservationIds
        /\ RacedBlockings(w, id, r.slot) \subseteq ReservationIds \X BlockingIds
    BY <1>2, RacedType DEF TypeOK
  <2>7. ReservedOver(r.slot) \subseteq ReservationIds /\ BlockedOver(r.slot) \subseteq BlockingIds
    BY DEF TypeOK, TablesOK, ReservedOver, BlockedOver, Confirmed, Active
  <2>8. doubleGap \subseteq ReservationIds \X ReservationIds
        /\ blockGap \subseteq ReservationIds \X BlockingIds
    BY DEF TypeOK, HistoryOK
  <2>9. /\ {<<id, x>> : x \in ReservedOver(r.slot)} \subseteq ReservationIds \X ReservationIds
        /\ {<<id, b>> : b \in BlockedOver(r.slot)} \subseteq ReservationIds \X BlockingIds
    BY <1>2, <2>7
  <2>10. /\ doubleGap' \subseteq ReservationIds \X ReservationIds
         /\ blockGap' \subseteq ReservationIds \X BlockingIds
    BY <1>5, <2>6, <2>8, <2>9
  <2>11. HistoryOK'
    BY <1>2, <1>5, <2>10, WroteReservationType DEF TypeOK, HistoryOK, UpdateReservation
  <2> QED BY <2>2, <2>5, <2>11, RowStepType DEF UpdateReservation
<1> QED BY <1>4, <1>5 DEF UpdateReservation

LEMMA SubmitCancelType ==
  ASSUME TypeOK, NEW w \in Workers, SubmitCancel(w)
  PROVE  TypeOK'
<1>1. PICK u \in Users, id \in DOMAIN reservations :
        Goto(w, "cancelRow", [op |-> "cancel", user |-> u, target |-> id])
  BY DEF SubmitCancel
<1> DEFINE request == [op |-> "cancel", user |-> u, target |-> id]
<1>2. request \in CancelRequest BY DEF CancelRequest, TypeOK, TablesOK
<1>3. Fits("cancelRow", request) /\ "cancelRow" \in Labels
  BY <1>2 DEF Fits, Labels, BlockLoop
<1>4. ControlOK' BY <1>1, <1>3, GotoType DEF TypeOK, SubmitCancel
<1> QED BY <1>4, ControlStepType DEF SubmitCancel

LEMMA CancelReservationType ==
  ASSUME TypeOK, TargetsExist, NEW w \in Workers, CancelReservation(w)
  PROVE  TypeOK'
<1> DEFINE r == req[w]
           row == reservations[r.target]
<1>1. r \in CancelRequest
  BY RequestKind DEF TypeOK, CancelReservation
<1>2. r.target \in ReservationIds /\ r.target \in DOMAIN reservations
  BY <1>1 DEF CancelRequest, TargetsExist, Refers
<1>3. row \in ReservationRow BY <1>2 DEF TypeOK, TablesOK
<1>4. [row EXCEPT !.status = "canceled"] \in ReservationRow BY <1>3 DEF ReservationRow
<1>5. reservations' \in [DOMAIN reservations -> ReservationRow]
  BY <1>2, <1>4 DEF TypeOK, TablesOK, CancelReservation
<1>6. "canceled" \in NoticeKinds BY DEF NoticeKinds
<1>7. Parties(row, r.user, "canceled", r.target) \in Notices
  BY <1>2, <1>3, <1>6, PartiesType
<1>8. ControlOK' BY <1>7, FinishType DEF TypeOK, CancelReservation
<1>9. HistoryOK' BY DEF TypeOK, HistoryOK, CancelReservation, gaps
<1> QED BY <1>5, <1>8, <1>9, RowStepType DEF CancelReservation

LEMMA SubmitCancelSeriesType ==
  ASSUME TypeOK, NEW w \in Workers, SubmitCancelSeries(w)
  PROVE  TypeOK'
<1> DEFINE request(u, s) == [op |-> "cancelSeries", user |-> u, series |-> s,
                             from |-> today, upcoming |-> Upcoming(s)]
<1>1. PICK u \in Users, s \in DOMAIN recurrences : Goto(w, "cancelSeriesRows", request(u, s))
  BY DEF SubmitCancelSeries
<1>2. /\ s \in SeriesIds /\ today \in Days
      /\ Upcoming(s) \subseteq ReservationIds
  BY DEF TypeOK, TablesOK, ClockOK, Upcoming, Confirmed
<1>3. request(u, s) \in CancelSeriesRequest BY <1>2 DEF CancelSeriesRequest
<1>4. Fits("cancelSeriesRows", request(u, s)) /\ "cancelSeriesRows" \in Labels
  BY <1>3 DEF Fits, Labels, BlockLoop
<1>5. ControlOK' BY <1>1, <1>4, GotoType DEF TypeOK, SubmitCancelSeries
<1> QED BY <1>5, ControlStepType DEF SubmitCancelSeries

LEMMA CancelSeriesRowsType ==
  ASSUME TypeOK, TargetsExist, NEW w \in Workers, CancelSeriesRows(w)
  PROVE  TypeOK'
<1> DEFINE r == req[w]
           head == recurrences[r.series]
           owners == UNION {NoticeIf(reservations[k].user # r.user,
                                     reservations[k].user, "seriesCanceled", k) :
                              k \in r.upcoming}
           summary == NoticeIf(head.requester \notin {NoUser, r.user},
                               head.requester, "seriesCanceled", r.series)
<1>1. r \in CancelSeriesRequest
  BY RequestKind DEF TypeOK, CancelSeriesRows
<1>2. /\ r.series \in SeriesIds /\ r.series \in DOMAIN recurrences
      /\ r.upcoming \subseteq ReservationIds /\ r.upcoming \subseteq DOMAIN reservations
  BY <1>1 DEF CancelSeriesRequest, TargetsExist, Refers
<1>3. head \in RecurrenceRow BY <1>2 DEF TypeOK, TablesOK
<1>4. "seriesCanceled" \in NoticeKinds BY DEF NoticeKinds
<1>5. summary \subseteq Notice
  <2>1. r.series \in Nat BY <1>2, IdsAreNat
  <2>2. head.requester \in Users \union {NoUser} BY <1>3 DEF RecurrenceRow
  <2> QED BY <1>4, <2>1, <2>2, NoticeIfType
<1>6. owners \subseteq Notice
  <2>1. ASSUME NEW k \in r.upcoming
        PROVE  NoticeIf(reservations[k].user # r.user, reservations[k].user,
                        "seriesCanceled", k) \subseteq Notice
    <3>1. k \in Nat BY <1>2, IdsAreNat
    <3>2. reservations[k].user \in Users BY <1>2 DEF TypeOK, TablesOK, ReservationRow
    <3> QED BY <1>4, <3>1, <3>2, NoticeIfType
  <2> QED BY <2>1
<1>7. [owners |-> owners, requester |-> summary] \in Notices BY <1>5, <1>6 DEF Notices
<1>8. ControlOK' BY <1>7, FinishType DEF TypeOK, CancelSeriesRows
<1>9. reservations' \in [DOMAIN reservations -> ReservationRow]
  BY DEF TypeOK, TablesOK, ReservationRow, CancelSeriesRows
<1>10. HistoryOK' BY DEF TypeOK, HistoryOK, CancelSeriesRows, gaps
<1> QED BY <1>8, <1>9, <1>10, RowStepType DEF CancelSeriesRows

LEMMA SubmitBlockType ==
  ASSUME TypeOK, NEW w \in Workers, SubmitBlock(w)
  PROVE  TypeOK'
<1> DEFINE slot(s, from, i) == [space |-> s, date |-> from, start |-> i.start, end |-> i.end]
           request(u, s, from, to, i) ==
             [op |-> "block", user |-> u, slot |-> slot(s, from, i),
              dates |-> from .. to, snapshot |-> {}, told |-> NoRow]
<1>1. PICK u \in Users, s \in Spaces, from \in Days, to \in Days, i \in Intervals :
        Goto(w, "snapshot", request(u, s, from, to, i))
  BY DEF SubmitBlock
<1>2. slot(s, from, i) \in Slot BY IntervalsWellTyped DEF Slot, Interval
<1>3. from .. to \subseteq Days BY DaysAreNat DEF Days
<1>4. request(u, s, from, to, i) \in BlockRequest BY <1>2, <1>3 DEF BlockRequest
<1>5. Fits("snapshot", request(u, s, from, to, i)) /\ "snapshot" \in Labels
  BY <1>4 DEF Fits, Labels, BlockLoop
<1>6. ControlOK' BY <1>1, <1>5, GotoType DEF TypeOK, SubmitBlock
<1> QED BY <1>6, ControlStepType DEF SubmitBlock

LEMMA TakeSnapshotType ==
  ASSUME TypeOK, NEW w \in Workers, TakeSnapshot(w)
  PROVE  TypeOK'
<1> DEFINE seen == {[id |-> k, slot |-> reservations[k].slot] : k \in Collisions(req[w])}
           request == [req[w] EXCEPT !.snapshot = seen]
<1>1. req[w] \in BlockRequest
  BY RequestKind DEF TypeOK, TakeSnapshot
<1>2. seen \subseteq Reading
  BY DEF TypeOK, TablesOK, ReservationRow, Reading, Collisions, Confirmed
<1>3. request \in BlockRequest BY <1>1, <1>2 DEF BlockRequest
<1>4. Fits("insertBlocking", request) /\ "insertBlocking" \in Labels
  BY <1>3 DEF Fits, Labels, BlockLoop
<1>5. ControlOK' BY <1>4, GotoType DEF TypeOK, TakeSnapshot
<1>6. HistoryOK' BY ForgetType DEF TypeOK, TakeSnapshot
<1> QED BY <1>5, <1>6 DEF TypeOK, TablesOK, ClockOK, TakeSnapshot, tables, clock

LEMMA InsertBlockingType ==
  ASSUME TypeOK, NEW w \in Workers, InsertBlocking(w)
  PROVE  TypeOK'
<1> DEFINE r == req[w]
           row == [status |-> "active", slot |-> r.slot, user |-> r.user]
<1>1. r \in BlockRequest
  BY RequestKind DEF TypeOK, InsertBlocking, BlockLoop
<1>2. PICK id \in BlockingIds :
        /\ blockings' = Insert(blockings, id, row)
        /\ WroteBlocking(w, id)
        /\ blockGap' = blockGap \union {<<k, id>> : k \in ReservedOver(r.slot) \intersect newRes[w]}
        /\ NextInLoop(w, r)
  BY DEF InsertBlocking
<1>3. row \in BlockingRow BY <1>1 DEF BlockRequest, BlockingRow
<1>4. /\ blockings \in [DOMAIN blockings -> BlockingRow]
      /\ DOMAIN blockings \subseteq BlockingIds
  BY DEF TypeOK, TablesOK
<1>5. /\ DOMAIN blockings' = DOMAIN blockings \union {id}
      /\ blockings' \in [DOMAIN blockings \union {id} -> BlockingRow]
  BY <1>2, <1>3, <1>4, InsertType
<1>6. TablesOK' BY <1>4, <1>5 DEF TypeOK, TablesOK, InsertBlocking
<1>7. ControlOK' BY <1>1, <1>2, NextInLoopType DEF TypeOK
<1>8. blockGap' \subseteq ReservationIds \X BlockingIds
  BY <1>2 DEF TypeOK, HistoryOK, TablesOK, ReservedOver, Confirmed
<1>9. HistoryOK' BY <1>2, <1>8, WroteBlockingType DEF TypeOK, HistoryOK, InsertBlocking
<1> QED BY <1>6, <1>7, <1>9 DEF TypeOK, ClockOK, InsertBlocking, clock

LEMMA OverrideReservationType ==
  ASSUME TypeOK, TargetsExist, NEW w \in Workers, OverrideReservation(w)
  PROVE  TypeOK'
<1> DEFINE r == req[w]
           request(x) == [r EXCEPT !.snapshot = @ \ {x}, !.told = x.id]
<1>1. r \in BlockRequest
  BY RequestKind DEF TypeOK, OverrideReservation, BlockLoop
<1>2. PICK x \in r.snapshot :
        /\ reservations' = [reservations EXCEPT ![x.id].status = "overridden"]
        /\ Goto(w, "notifyOverride", request(x))
  BY DEF OverrideReservation
<1>3. /\ x \in Reading /\ x.id \in ReservationIds /\ x.id \in DOMAIN reservations
  BY <1>1 DEF BlockRequest, Reading, TargetsExist, Refers
<1>4. reservations[x.id] \in ReservationRow BY <1>3 DEF TypeOK, TablesOK
<1>5. [reservations[x.id] EXCEPT !.status = "overridden"] \in ReservationRow
  BY <1>4 DEF ReservationRow
<1>6. reservations' \in [DOMAIN reservations -> ReservationRow]
  BY <1>2, <1>3, <1>5 DEF TypeOK, TablesOK
<1>7. r.snapshot \ {x} \in SUBSET Reading BY <1>1 DEF BlockRequest
<1>8. request(x) \in BlockRequest BY <1>1, <1>3, <1>7 DEF BlockRequest
<1>9. request(x).told = x.id BY <1>1 DEF BlockRequest
<1>10. x.id # NoRow BY <1>3, RowIdsNotNull
<1>11. Fits("notifyOverride", request(x)) /\ "notifyOverride" \in Labels
  BY <1>8, <1>9, <1>10 DEF Fits, Labels, BlockLoop
<1>12. ControlOK' BY <1>2, <1>11, GotoType DEF TypeOK, OverrideReservation
<1>13. HistoryOK' BY DEF TypeOK, HistoryOK, OverrideReservation, gaps
<1> QED BY <1>6, <1>12, <1>13, RowStepType DEF OverrideReservation

LEMMA SendType ==
  ASSUME notices \subseteq Notice, NEW n \in Notice, Send(n)
  PROVE  notices' \subseteq Notice
BY DEF Send

LEMMA NotifyOverrideType ==
  ASSUME TypeOK, TargetsExist, NEW w \in Workers, NotifyOverride(w)
  PROVE  TypeOK'
<1> DEFINE r == req[w]
           next == [r EXCEPT !.told = NoRow]
<1>1. r \in BlockRequest /\ r.told # NoRow
  BY DEF TypeOK, ControlOK, Fits, NotifyOverride, BlockLoop
<1>2. next \in BlockRequest BY <1>1 DEF BlockRequest
<1>3. ControlOK' BY <1>2, NextInLoopType DEF TypeOK, NotifyOverride
<1>4. r.told \in DOMAIN reservations /\ r.told \in ReservationIds
  BY <1>1 DEF TargetsExist, Refers, BlockRequest
<1>5. r.told \in Nat BY <1>4, IdsAreNat
<1>6. reservations[r.told].user \in Users BY <1>4 DEF TypeOK, TablesOK, ReservationRow
<1>7. OverrideNotice(r) \in Notice BY <1>5, <1>6 DEF OverrideNotice, Notice, NoticeKinds
<1>8. notices' \subseteq Notice BY <1>7, SendType DEF TypeOK, TablesOK, NotifyOverride
<1> QED BY <1>3, <1>8 DEF TypeOK, TablesOK, ClockOK, HistoryOK, NotifyOverride, clock, gaps

LEMMA NotifyPartyType ==
  ASSUME TypeOK, NEW w \in Workers, NotifyParty(w)
  PROVE  TypeOK'
<1> DEFINE t == todo[w]
<1>1. t \in Notices BY DEF TypeOK, ControlOK
<1>2. CASE \E n \in t.owners : Send(n) /\ Finish(w, [t EXCEPT !.owners = @ \ {n}])
  <2>1. PICK n \in t.owners : Send(n) /\ Finish(w, [t EXCEPT !.owners = @ \ {n}])
    BY <1>2
  <2>2. n \in Notice /\ t.owners \ {n} \in SUBSET Notice BY <1>1 DEF Notices
  <2>3. [t EXCEPT !.owners = @ \ {n}] \in Notices BY <1>1, <2>2 DEF Notices
  <2>4. ControlOK' BY <2>1, <2>3, FinishType DEF TypeOK
  <2>5. notices' \subseteq Notice BY <2>1, <2>2, SendType DEF TypeOK, TablesOK
  <2> QED BY <2>4, <2>5 DEF TypeOK, TablesOK, ClockOK, HistoryOK, NotifyParty, clock, gaps
<1>3. CASE \E n \in t.requester : Send(n) /\ Finish(w, [t EXCEPT !.requester = @ \ {n}])
  <2>1. PICK n \in t.requester : Send(n) /\ Finish(w, [t EXCEPT !.requester = @ \ {n}])
    BY <1>3
  <2>2. n \in Notice /\ t.requester \ {n} \in SUBSET Notice BY <1>1 DEF Notices
  <2>3. [t EXCEPT !.requester = @ \ {n}] \in Notices BY <1>1, <2>2 DEF Notices
  <2>4. ControlOK' BY <2>1, <2>3, FinishType DEF TypeOK
  <2>5. notices' \subseteq Notice BY <2>1, <2>2, SendType DEF TypeOK, TablesOK
  <2> QED BY <2>4, <2>5 DEF TypeOK, TablesOK, ClockOK, HistoryOK, NotifyParty, clock, gaps
<1> QED BY <1>2, <1>3 DEF NotifyParty

LEMMA SubmitUnblockType ==
  ASSUME TypeOK, NEW w \in Workers, SubmitUnblock(w)
  PROVE  TypeOK'
<1> DEFINE request(u, id) == [op |-> "unblock", user |-> u, target |-> id]
<1>1. PICK u \in Users, id \in DOMAIN blockings : Goto(w, "removeBlocking", request(u, id))
  BY DEF SubmitUnblock
<1>2. request(u, id) \in UnblockRequest BY DEF UnblockRequest, TypeOK, TablesOK
<1>3. Fits("removeBlocking", request(u, id)) /\ "removeBlocking" \in Labels
  BY <1>2 DEF Fits, Labels, BlockLoop
<1>4. ControlOK' BY <1>1, <1>3, GotoType DEF TypeOK, SubmitUnblock
<1> QED BY <1>4, ControlStepType DEF SubmitUnblock

LEMMA RemoveBlockingType ==
  ASSUME TypeOK, TargetsExist, NEW w \in Workers, RemoveBlocking(w)
  PROVE  TypeOK'
<1> DEFINE id == req[w].target
<1>1. req[w] \in UnblockRequest
  BY RequestKind DEF TypeOK, RemoveBlocking
<1>2. id \in DOMAIN blockings BY <1>1 DEF UnblockRequest, TargetsExist, Refers
<1>3. blockings[id] \in BlockingRow BY <1>2 DEF TypeOK, TablesOK
<1>4. [blockings[id] EXCEPT !.status = "removed"] \in BlockingRow BY <1>3 DEF BlockingRow
<1>5. blockings' \in [DOMAIN blockings -> BlockingRow]
  BY <1>2, <1>4 DEF TypeOK, TablesOK, RemoveBlocking
<1>6. TablesOK' BY <1>5 DEF TypeOK, TablesOK, RemoveBlocking
<1>7. ControlOK' BY RefuseType DEF TypeOK, RemoveBlocking
<1> QED BY <1>6, <1>7 DEF TypeOK, ClockOK, HistoryOK, RemoveBlocking, clock, gaps

LEMMA DieType ==
  ASSUME TypeOK, NEW w \in Workers, Die(w)
  PROVE  TypeOK'
<1>1. ControlOK'
  <2>1. CASE Refuse(w) BY <2>1, RefuseType DEF TypeOK
  <2>2. CASE pc[w] # "notify" /\ req[w].op = "recurring" /\ NextDate(w, req[w].created)
    <3>1. pc[w] # "idle" /\ pc[w] # "notify" BY <2>2 DEF Die
    <3>2. req[w] \in CreateRequest
      BY <2>2, <3>1 DEF TypeOK, ControlOK, Fits, Labels, UpdateRequest, CancelRequest,
                       CancelSeriesRequest, BlockRequest, UnblockRequest
    <3>3. req[w].created \in BOOLEAN BY <3>2 DEF CreateRequest
    <3> QED BY <2>2, <3>2, <3>3, NextDateType DEF TypeOK
  <2> QED BY <2>1, <2>2 DEF Die
<1>2. blockGap' \subseteq ReservationIds \X BlockingIds
  BY DEF Die, TypeOK, TablesOK, HistoryOK, Confirmed, Active
<1>3. HistoryOK' BY <1>2 DEF TypeOK, HistoryOK, Die, Forget
<1> QED BY <1>1, <1>3 DEF TypeOK, TablesOK, ClockOK, Die, tables, clock

LEMMA TickType ==
  ASSUME TypeOK, Tick
  PROVE  TypeOK'
<1>1. MaxDay \in Nat /\ DayEnd \in Nat \ {0}
  BY Zenon, BookingAssumption, ScheduleAssumption
<1>2. ClockOK' BY <1>1 DEF TypeOK, ClockOK, Tick, Days
<1> QED BY <1>2 DEF TypeOK, TablesOK, ControlOK, HistoryOK, Tick, tables, control, gaps

-------------------------------------------------------------------------------
(* TargetsExist: no table loses a row. *)

Grows ==
  /\ DOMAIN reservations \subseteq DOMAIN reservations'
  /\ DOMAIN recurrences \subseteq DOMAIN recurrences'
  /\ DOMAIN blockings \subseteq DOMAIN blockings'
RefersNext(request) ==
  Refers(request, DOMAIN reservations', DOMAIN recurrences', DOMAIN blockings')

LEMMA RefersGrows ==
  ASSUME NEW request, Grows,
         Refers(request, DOMAIN reservations, DOMAIN recurrences, DOMAIN blockings)
  PROVE  RefersNext(request)
BY DEF Refers, RefersNext, Grows

LEMMA TargetsStep ==
  ASSUME TargetsExist, ControlOK, Grows, NEW w \in Workers, NEW request,
         req' = [req EXCEPT ![w] = request], RefersNext(request)
  PROVE  TargetsExist'
<1> SUFFICES ASSUME NEW v \in Workers PROVE RefersNext(req'[v])
  BY DEF TargetsExist, RefersNext
<1>1. CASE v = w BY <1>1 DEF ControlOK
<1>2. CASE v # w
  <2>1. req'[v] = req[v] BY <1>2 DEF ControlOK
  <2> QED BY <2>1, RefersGrows DEF TargetsExist
<1> QED BY <1>1, <1>2

LEMMA GotoTargets ==
  ASSUME TargetsExist, ControlOK, Grows, NEW w \in Workers, NEW to, NEW request,
         Goto(w, to, request), RefersNext(request)
  PROVE  TargetsExist'
BY TargetsStep DEF Goto

LEMMA FinishTargets ==
  ASSUME TargetsExist, ControlOK, Grows, NEW w \in Workers, NEW tail, Finish(w, tail)
  PROVE  TargetsExist'
<1>1. RefersNext(NoRequest) BY DEF RefersNext, Refers, NoRequest
<1> QED BY <1>1, TargetsStep DEF Finish

LEMMA NextDateTargets ==
  ASSUME TargetsExist, ControlOK, Grows, NEW w \in Workers, req[w] \in CreateRequest,
         NEW created, NextDate(w, created)
  PROVE  TargetsExist'
<1> DEFINE r == req[w]
           tail == [owners |-> {}, requester |->
                      NoticeIf(created /\ r.requester # NoUser, r.requester,
                               "seriesConfirmed", r.series)]
           next(d) == [r EXCEPT !.dates = Rest(r), !.slot = OnDate(@, d), !.created = created]
<1>1. CASE Finish(w, tail) BY <1>1, FinishTargets
<1>2. ASSUME NEW d \in Rest(r), Goto(w, "checkReservations", next(d))
      PROVE  TargetsExist'
  <2>1. next(d).op = r.op /\ r.op \in {"create", "recurring"} BY DEF CreateRequest
  <2>2. RefersNext(next(d)) BY <2>1 DEF RefersNext, Refers
  <2> QED BY <1>2, <2>2, GotoTargets
<1> QED BY <1>1, <1>2 DEF NextDate

LEMMA UnavailableTargets ==
  ASSUME TargetsExist, ControlOK, Grows, NEW w \in Workers,
         req[w] \in CreateRequest \union UpdateRequest, Unavailable(w)
  PROVE  TargetsExist'
<1>1. CASE req[w].op = "recurring"
  <2>1. req[w] \in CreateRequest BY <1>1 DEF UpdateRequest
  <2> QED BY <1>1, <2>1, NextDateTargets DEF Unavailable
<1>2. CASE req[w].op # "recurring"
  BY <1>2, FinishTargets DEF Unavailable, Refuse
<1> QED BY <1>1, <1>2

LEMMA NextInLoopTargets ==
  ASSUME TargetsExist, ControlOK, Grows, NEW w \in Workers, NEW r \in BlockRequest,
         RefersNext(r), NextInLoop(w, r)
  PROVE  TargetsExist'
<1> DEFINE next(d) == [r EXCEPT !.dates = Rest(r), !.slot = OnDate(@, d)]
<1>1. CASE Goto(w, "overrideRow", r) BY <1>1, GotoTargets
<1>2. CASE Refuse(w) BY <1>2, FinishTargets DEF Refuse
<1>3. ASSUME NEW d \in Rest(r), Goto(w, "insertBlocking", next(d))
      PROVE  TargetsExist'
  <2>1. /\ next(d).op = "block" /\ r.op = "block"
        /\ next(d).snapshot = r.snapshot /\ next(d).told = r.told
    BY DEF BlockRequest
  <2>2. RefersNext(next(d)) BY <2>1 DEF RefersNext, Refers
  <2> QED BY <1>3, <2>2, GotoTargets
<1> QED BY <1>1, <1>2, <1>3 DEF NextInLoop

LEMMA SubmitTargets ==
  ASSUME TypeOK, TargetsExist, NEW w \in Workers, Submit(w)
  PROVE  TargetsExist'
<1> USE DEF TypeOK
<1>1. ASSUME NEW request, NEW to, Goto(w, to, request), Grows,
             request.op \in {"create", "recurring"}
      PROVE  TargetsExist'
  <2>1. RefersNext(request) BY <1>1 DEF RefersNext, Refers
  <2> QED BY <1>1, <2>1, GotoTargets
<1>2. CASE SubmitCreate(w)
  <2>1. Grows BY <1>2 DEF SubmitCreate, Grows, tables
  <2> QED BY <1>1, <1>2, <2>1 DEF SubmitCreate
<1>3. CASE SubmitRecurring(w)
  <2>1. PICK id, head : recurrences' = Insert(recurrences, id, head)
    BY <1>3 DEF SubmitRecurring
  <2>2. Grows BY <1>3, <2>1 DEF SubmitRecurring, Grows, Insert
  <2>3. PICK request : Goto(w, "checkReservations", request) /\ request.op = "recurring"
    BY <1>3 DEF SubmitRecurring
  <2> QED BY <1>1, <2>2, <2>3
<1>4. CASE SubmitUpdate(w)
  <2>1. Grows BY <1>4 DEF SubmitUpdate, Grows, tables
  <2>2. PICK to, request : /\ Goto(w, to, request)
                           /\ request.op = "update" /\ request.target \in Confirmed
    BY <1>4 DEF SubmitUpdate
  <2>3. RefersNext(request) BY <2>1, <2>2 DEF RefersNext, Refers, Confirmed, Grows
  <2> QED BY <2>1, <2>2, <2>3, GotoTargets
<1>5. CASE SubmitCancel(w)
  <2>1. Grows BY <1>5 DEF SubmitCancel, Grows, tables
  <2>2. PICK to, request : /\ Goto(w, to, request)
                           /\ request.op = "cancel" /\ request.target \in DOMAIN reservations
    BY <1>5 DEF SubmitCancel
  <2>3. RefersNext(request) BY <2>1, <2>2 DEF RefersNext, Refers, Grows
  <2> QED BY <2>1, <2>2, <2>3, GotoTargets
<1>6. CASE SubmitCancelSeries(w)
  <2>1. Grows BY <1>6 DEF SubmitCancelSeries, Grows, tables
  <2>2. PICK to, request : /\ Goto(w, to, request)
                           /\ request.op = "cancelSeries"
                           /\ request.series \in DOMAIN recurrences
                           /\ request.upcoming \subseteq DOMAIN reservations
    BY <1>6 DEF SubmitCancelSeries, Upcoming, Confirmed
  <2>3. RefersNext(request) BY <2>1, <2>2 DEF RefersNext, Refers, Grows
  <2> QED BY <2>1, <2>2, <2>3, GotoTargets
<1>7. CASE SubmitBlock(w)
  <2>1. Grows BY <1>7 DEF SubmitBlock, Grows, tables
  <2>2. PICK to, request : /\ Goto(w, to, request)
                           /\ request.op = "block"
                           /\ request.snapshot = {} /\ request.told = NoRow
    BY <1>7 DEF SubmitBlock
  <2>3. RefersNext(request) BY <2>1, <2>2 DEF RefersNext, Refers, Grows
  <2> QED BY <2>1, <2>2, <2>3, GotoTargets
<1>8. CASE SubmitUnblock(w)
  <2>1. Grows BY <1>8 DEF SubmitUnblock, Grows, tables
  <2>2. PICK to, request : /\ Goto(w, to, request)
                           /\ request.op = "unblock" /\ request.target \in DOMAIN blockings
    BY <1>8 DEF SubmitUnblock
  <2>3. RefersNext(request) BY <2>1, <2>2 DEF RefersNext, Refers, Grows
  <2> QED BY <2>1, <2>2, <2>3, GotoTargets
<1> QED BY <1>2, <1>3, <1>4, <1>5, <1>6, <1>7, <1>8 DEF Submit

LEMMA SameTablesGrow == ASSUME UNCHANGED tables PROVE Grows
BY DEF tables, Grows

LEMMA ProceedTargets ==
  ASSUME TypeOK, TargetsExist, NEW w \in Workers, Proceed(w)
  PROVE  TargetsExist'
<1> USE DEF TypeOK
<1> DEFINE r == req[w]
<1>1. ASSUME Grows, RefersNext(r), NEW to, Goto(w, to, r)
      PROVE  TargetsExist'
  BY <1>1, GotoTargets
<1>2. ASSUME Grows PROVE RefersNext(r)
  BY <1>2, RefersGrows DEF TargetsExist
<1>3. CASE CheckReservations(w)
  <2>1. Grows BY <1>3, SameTablesGrow DEF CheckReservations
  <2>2. r \in CreateRequest \union UpdateRequest BY <1>3, RequestKind DEF CheckReservations
  <2>3. Unavailable(w) \/ Goto(w, "checkBlockings", r)
    BY Zenon, <1>3 DEF CheckReservations
  <2> QED BY <1>1, <1>2, <2>1, <2>2, <2>3, UnavailableTargets
<1>4. CASE CheckBlockings(w)
  <2>1. Grows BY <1>4, SameTablesGrow DEF CheckBlockings
  <2>2. r \in CreateRequest \union UpdateRequest BY <1>4, RequestKind DEF CheckBlockings
  <2>3. Unavailable(w) \/ \E to : Goto(w, to, r)
    BY Zenon, <1>4 DEF CheckBlockings
  <2> QED BY <1>1, <1>2, <2>1, <2>2, <2>3, UnavailableTargets
<1>5. CASE CountActive(w)
  <2>1. Grows BY <1>5, SameTablesGrow DEF CountActive
  <2>2. Finish(w, NoNotices) \/ Goto(w, "insert", r)
    BY Zenon, <1>5 DEF CountActive, Refuse
  <2> QED BY <1>1, <1>2, <2>1, <2>2, FinishTargets
<1>6. CASE InsertReservation(w)
  <2>1. r \in CreateRequest BY <1>6, RequestKind DEF InsertReservation
  <2>2. \/ UNCHANGED reservations
        \/ \E id, row : reservations' = Insert(reservations, id, row)
    BY <1>6 DEF InsertReservation
  <2>3. Grows BY <1>6, <2>2 DEF InsertReservation, Grows, Insert
  <2>4. Unavailable(w) \/ NextDate(w, TRUE) \/ \E tail : Finish(w, tail)
    BY <1>6 DEF InsertReservation
  <2> QED BY <2>1, <2>3, <2>4, UnavailableTargets, NextDateTargets, FinishTargets
<1>7. CASE UpdateReservation(w)
  <2>1. Grows BY <1>7 DEF UpdateReservation, Grows, TablesOK
  <2>2. \E tail : Finish(w, tail) BY <1>7 DEF UpdateReservation, Refuse
  <2> QED BY <2>1, <2>2, FinishTargets
<1>8. CASE CancelReservation(w)
  <2>1. Grows BY <1>8 DEF CancelReservation, Grows, TablesOK
  <2> QED BY <1>8, <2>1, FinishTargets DEF CancelReservation
<1>9. CASE CancelSeriesRows(w)
  <2>1. Grows BY <1>9 DEF CancelSeriesRows, Grows, TablesOK
  <2> QED BY <1>9, <2>1, FinishTargets DEF CancelSeriesRows
<1>10. CASE TakeSnapshot(w)
  <2> DEFINE seen == {[id |-> k, slot |-> reservations[k].slot] : k \in Collisions(r)}
             next == [r EXCEPT !.snapshot = seen]
  <2>1. Grows BY <1>10, SameTablesGrow DEF TakeSnapshot
  <2>2. r \in BlockRequest BY <1>10, RequestKind DEF TakeSnapshot
  <2>3. /\ next.op = "block" /\ next.snapshot = seen
        /\ next.told = r.told /\ r.told \in DOMAIN reservations \union {NoRow}
    BY <2>2 DEF BlockRequest, TargetsExist, Refers
  <2>4. \A x \in seen : x.id \in DOMAIN reservations BY DEF Collisions, Confirmed
  <2> HIDE DEF next, seen
  <2>5. RefersNext(next) BY <2>1, <2>3, <2>4 DEF RefersNext, Refers, Grows
  <2>6. Goto(w, "insertBlocking", next) BY <1>10 DEF TakeSnapshot, next, seen
  <2> QED BY <2>1, <2>5, <2>6, GotoTargets
<1>11. CASE InsertBlocking(w)
  <2>1. r \in BlockRequest BY <1>11, RequestKind DEF InsertBlocking, BlockLoop
  <2>2. \E id, row : blockings' = Insert(blockings, id, row) BY <1>11 DEF InsertBlocking
  <2>3. Grows BY <1>11, <2>2 DEF InsertBlocking, Grows, Insert
  <2>4. NextInLoop(w, r) BY <1>11 DEF InsertBlocking
  <2> QED BY <1>2, <2>1, <2>3, <2>4, NextInLoopTargets
<1>12. CASE OverrideReservation(w)
  <2> DEFINE next(x) == [r EXCEPT !.snapshot = @ \ {x}, !.told = x.id]
  <2>1. Grows BY <1>12 DEF OverrideReservation, Grows, TablesOK
  <2>2. r \in BlockRequest BY <1>12, RequestKind DEF OverrideReservation, BlockLoop
  <2>3. PICK x \in r.snapshot : Goto(w, "notifyOverride", next(x))
    BY <1>12 DEF OverrideReservation
  <2>4. /\ next(x).op = "block" /\ next(x).snapshot = r.snapshot \ {x}
        /\ next(x).told = x.id
    BY <2>2 DEF BlockRequest
  <2>5. \A y \in r.snapshot : y.id \in DOMAIN reservations
    BY <2>2 DEF TargetsExist, Refers, BlockRequest
  <2>6. RefersNext(next(x)) BY <2>1, <2>4, <2>5 DEF RefersNext, Refers, Grows
  <2> QED BY <2>1, <2>3, <2>6, GotoTargets
<1>13. CASE NotifyOverride(w)
  <2> DEFINE next == [r EXCEPT !.told = NoRow]
  <2>1. Grows BY <1>13 DEF NotifyOverride, Grows
  <2>2. r \in BlockRequest BY <1>13, RequestKind DEF NotifyOverride, BlockLoop
  <2>3. next \in BlockRequest /\ next.snapshot = r.snapshot /\ next.told = NoRow
        /\ next.op = "block" /\ r.op = "block"
    BY <2>2 DEF BlockRequest
  <2>4. RefersNext(r) BY <1>2, <2>1
  <2>5. RefersNext(next) BY <2>3, <2>4 DEF RefersNext, Refers
  <2>6. NextInLoop(w, next) BY <1>13 DEF NotifyOverride
  <2> QED BY <2>1, <2>3, <2>5, <2>6, NextInLoopTargets
<1>14. CASE RemoveBlocking(w)
  <2>1. Grows BY <1>14 DEF RemoveBlocking, Grows, TablesOK
  <2> QED BY <1>14, <2>1, FinishTargets DEF RemoveBlocking, Refuse
<1>15. CASE NotifyParty(w)
  <2>1. Grows BY <1>15 DEF NotifyParty, Grows
  <2>2. \E tail : Finish(w, tail) BY <1>15 DEF NotifyParty
  <2> QED BY <2>1, <2>2, FinishTargets
<1> QED BY <1>3, <1>4, <1>5, <1>6, <1>7, <1>8, <1>9, <1>10, <1>11, <1>12, <1>13, <1>14,
           <1>15 DEF Proceed

LEMMA DieTargets ==
  ASSUME TypeOK, TargetsExist, NEW w \in Workers, Die(w)
  PROVE  TargetsExist'
<1>1. Grows BY SameTablesGrow DEF Die
<1>2. CASE Refuse(w) BY <1>1, <1>2, FinishTargets DEF TypeOK, Refuse
<1>3. CASE pc[w] # "notify" /\ req[w].op = "recurring" /\ NextDate(w, req[w].created)
  <2>1. pc[w] # "idle" /\ pc[w] # "notify" BY <1>3 DEF Die
  <2>2. req[w] \in CreateRequest
    BY <1>3, <2>1 DEF TypeOK, ControlOK, Fits, Labels, UpdateRequest, CancelRequest,
                     CancelSeriesRequest, BlockRequest, UnblockRequest
  <2> QED BY <1>1, <1>3, <2>2, NextDateTargets DEF TypeOK
<1> QED BY <1>2, <1>3 DEF Die

-------------------------------------------------------------------------------
(* The type invariant. *)

LEMMA TypeInit == Init => TypeOK /\ TargetsExist
<1> SUFFICES ASSUME Init PROVE TypeOK /\ TargetsExist OBVIOUS
<1>1. DOMAIN <<>> = {} OBVIOUS
<1>2. TablesOK BY <1>1 DEF Init, TablesOK
<1>3. ClockOK
  <2>1. MaxDay \in Nat \ {0} /\ DayEnd \in Nat \ {0}
    BY Zenon, BookingAssumption, ScheduleAssumption
  <2> QED BY <2>1 DEF Init, ClockOK, Days
<1>4. ControlOK
  <2>1. Fits("idle", NoRequest) BY DEF Fits, BlockLoop
  <2>2. NoNotices \in Notices BY DEF NoNotices, Notices
  <2> QED BY <2>1, <2>2 DEF Init, ControlOK, Labels
<1>5. HistoryOK BY DEF Init, HistoryOK
<1>6. TargetsExist BY DEF Init, TargetsExist, Refers, NoRequest
<1> QED BY <1>2, <1>3, <1>4, <1>5, <1>6 DEF TypeOK

LEMMA TypeStep == TypeOK /\ TargetsExist /\ [Next]_vars => TypeOK' /\ TargetsExist'
<1> SUFFICES ASSUME TypeOK, TargetsExist, [Next]_vars PROVE TypeOK' /\ TargetsExist'
  OBVIOUS
<1>1. CASE UNCHANGED vars
  BY <1>1 DEF vars, tables, clock, control, gaps, TypeOK, TablesOK, ClockOK, ControlOK,
              HistoryOK, TargetsExist
<1>2. CASE Tick
  <2>1. TargetsExist' BY <1>2 DEF Tick, tables, control, TargetsExist
  <2> QED BY <1>2, <2>1, TickType
<1>3. ASSUME NEW w \in Workers, Submit(w)
      PROVE  TypeOK' /\ TargetsExist'
  BY <1>3, SubmitTargets, SubmitCreateType, SubmitRecurringType, SubmitUpdateType,
     SubmitCancelType, SubmitCancelSeriesType, SubmitBlockType, SubmitUnblockType DEF Submit
<1>4. ASSUME NEW w \in Workers, Proceed(w)
      PROVE  TypeOK' /\ TargetsExist'
  BY <1>4, ProceedTargets, CheckReservationsType, CheckBlockingsType, CountActiveType,
     InsertReservationType, UpdateReservationType, CancelReservationType,
     CancelSeriesRowsType, TakeSnapshotType, InsertBlockingType, OverrideReservationType,
     NotifyOverrideType, RemoveBlockingType, NotifyPartyType DEF Proceed
<1>5. ASSUME NEW w \in Workers, Die(w)
      PROVE  TypeOK' /\ TargetsExist'
  BY <1>5, DieType, DieTargets
<1>6. ASSUME NEW w \in Workers, RefuseRequest(w)
      PROVE  UNCHANGED vars
  BY <1>6 DEF RefuseRequest
<1> QED BY <1>1, <1>2, <1>3, <1>4, <1>5, <1>6 DEF Next

(* Every variable keeps its type, and no handler ever refers to a row that *)
(* is gone: the handlers of ReservationService and BlockingService update  *)
(* rows by ids read in earlier statements.                                 *)
THEOREM TypeCorrect == Spec => [](TypeOK /\ TargetsExist)
<1>1. Init => TypeOK /\ TargetsExist BY TypeInit
<1>2. TypeOK /\ TargetsExist /\ [Next]_vars => (TypeOK /\ TargetsExist)' BY TypeStep
<1> QED BY <1>1, <1>2, PTL DEF Spec
-------------------------------------------------------------------------------
(* Intervals and slots. *)

LEMMA ConflictSymmetric ==
  ASSUME NEW left \in Slot, NEW right \in Slot
  PROVE  Conflict(left, right) <=> Conflict(right, left)
<1>1. DayEnd \in Nat BY Zenon, ScheduleAssumption
<1>2. /\ left.start \in Int /\ left.end \in Int
      /\ right.start \in Int /\ right.end \in Int
  BY <1>1 DEF Slot, Time
<1> QED BY <1>2 DEF Conflict, Overlaps

LEMMA OnDateTwice ==
  ASSUME NEW slot \in Slot, NEW d \in Days, NEW e \in Days
  PROVE  /\ OnDate(OnDate(slot, d), e) = OnDate(slot, e)
         /\ OnDate(slot, slot.date) = slot
         /\ OnDate(slot, d).date = d
BY DEF OnDate, Slot

LEMMA RowsWellTyped ==
  ASSUME TypeOK, NEW r \in DOMAIN reservations
  PROVE  reservations[r].slot \in Slot /\ r \in ReservationIds
BY DEF TypeOK, TablesOK, ReservationRow

LEMMA BlockingsWellTyped ==
  ASSUME TypeOK, NEW b \in DOMAIN blockings
  PROVE  blockings[b].slot \in Slot /\ b \in BlockingIds
BY DEF TypeOK, TablesOK, BlockingRow

-------------------------------------------------------------------------------
(* A step of one worker leaves the others where they are. *)

KeepsOthers(w) == \A v \in Workers \ {w} : pc'[v] = pc[v] /\ req'[v] = req[v]
HistoryGrows(w) ==
  \A v \in Workers \ {w} : newRes[v] \subseteq newRes'[v] /\ newBlk[v] \subseteq newBlk'[v]

LEMMA GotoKeeps ==
  ASSUME ControlOK, NEW w \in Workers, NEW to, NEW request, Goto(w, to, request)
  PROVE  KeepsOthers(w)
BY DEF ControlOK, Goto, KeepsOthers

LEMMA FinishKeeps ==
  ASSUME ControlOK, NEW w \in Workers, NEW tail, Finish(w, tail)
  PROVE  KeepsOthers(w)
BY DEF ControlOK, Finish, KeepsOthers

LEMMA NextDateKeeps ==
  ASSUME ControlOK, NEW w \in Workers, NEW created, NextDate(w, created)
  PROVE  KeepsOthers(w)
BY GotoKeeps, FinishKeeps DEF NextDate

LEMMA UnavailableKeeps ==
  ASSUME ControlOK, NEW w \in Workers, Unavailable(w)
  PROVE  KeepsOthers(w)
BY NextDateKeeps, FinishKeeps DEF Unavailable, Refuse

LEMMA NextInLoopKeeps ==
  ASSUME ControlOK, NEW w \in Workers, NEW r, NextInLoop(w, r)
  PROVE  KeepsOthers(w)
BY GotoKeeps, FinishKeeps DEF NextInLoop, Refuse

LEMMA OthersKept ==
  ASSUME TypeOK, NEW w \in Workers, Submit(w) \/ Proceed(w) \/ Die(w)
  PROVE  KeepsOthers(w)
<1> USE DEF TypeOK
<1>1. CASE Submit(w)
  <2>1. \E to, request : Goto(w, to, request)
    <3>1. CASE SubmitCreate(w) BY <3>1 DEF SubmitCreate
    <3>2. CASE SubmitRecurring(w) BY <3>2 DEF SubmitRecurring
    <3>3. CASE SubmitUpdate(w) BY <3>3 DEF SubmitUpdate
    <3>4. CASE SubmitCancel(w) BY <3>4 DEF SubmitCancel
    <3>5. CASE SubmitCancelSeries(w) BY <3>5 DEF SubmitCancelSeries
    <3>6. CASE SubmitBlock(w) BY <3>6 DEF SubmitBlock
    <3>7. CASE SubmitUnblock(w) BY <3>7 DEF SubmitUnblock
    <3> QED BY <1>1, <3>1, <3>2, <3>3, <3>4, <3>5, <3>6, <3>7 DEF Submit
  <2> QED BY <2>1, GotoKeeps
<1>2. CASE Die(w)
  BY <1>2, NextDateKeeps, FinishKeeps DEF Die, Refuse
<1>3. CASE CheckReservations(w)
  <2>1. Unavailable(w) \/ Goto(w, "checkBlockings", req[w])
    BY Zenon, <1>3 DEF CheckReservations
  <2> QED BY <2>1, UnavailableKeeps, GotoKeeps
<1>4. CASE CheckBlockings(w)
  <2>1. Unavailable(w) \/ \E to : Goto(w, to, req[w])
    BY Zenon, <1>4 DEF CheckBlockings
  <2> QED BY <2>1, UnavailableKeeps, GotoKeeps
<1>5. CASE CountActive(w)
  <2>1. Finish(w, NoNotices) \/ Goto(w, "insert", req[w])
    BY Zenon, <1>5 DEF CountActive, Refuse
  <2> QED BY <2>1, FinishKeeps, GotoKeeps
<1>6. CASE InsertReservation(w)
  <2>1. Unavailable(w) \/ NextDate(w, TRUE) \/ \E tail : Finish(w, tail)
    BY <1>6 DEF InsertReservation
  <2> QED BY <2>1, UnavailableKeeps, NextDateKeeps, FinishKeeps
<1>7. CASE UpdateReservation(w)
  <2>1. \E tail : Finish(w, tail) BY <1>7 DEF UpdateReservation, Refuse
  <2> QED BY <2>1, FinishKeeps
<1>8. CASE CancelReservation(w) \/ CancelSeriesRows(w) \/ RemoveBlocking(w)
  BY <1>8, FinishKeeps DEF CancelReservation, CancelSeriesRows, RemoveBlocking, Refuse
<1>9. CASE TakeSnapshot(w)
  BY <1>9, GotoKeeps DEF TakeSnapshot
<1>10. CASE InsertBlocking(w)
  <2>1. NextInLoop(w, req[w]) BY <1>10 DEF InsertBlocking
  <2> QED BY <2>1, NextInLoopKeeps
<1>11. CASE OverrideReservation(w)
  <2>1. \E request : Goto(w, "notifyOverride", request) BY <1>11 DEF OverrideReservation
  <2> QED BY <2>1, GotoKeeps
<1>12. CASE NotifyOverride(w)
  <2>1. \E r : NextInLoop(w, r) BY <1>12 DEF NotifyOverride
  <2> QED BY <2>1, NextInLoopKeeps
<1>13. CASE NotifyParty(w)
  <2>1. \E tail : Finish(w, tail) BY <1>13 DEF NotifyParty
  <2> QED BY <2>1, FinishKeeps
<1> QED BY <1>1, <1>2, <1>3, <1>4, <1>5, <1>6, <1>7, <1>8, <1>9, <1>10, <1>11, <1>12, <1>13
        DEF Proceed

LEMMA HistoryKept ==
  ASSUME TypeOK, NEW w \in Workers, Submit(w) \/ Proceed(w) \/ Die(w)
  PROVE  HistoryGrows(w)
<1> USE DEF TypeOK, HistoryOK
<1>1. \/ UNCHANGED <<newRes, newBlk>>
      \/ Forget(w)
      \/ newBlk' = [newBlk EXCEPT ![w] = {}] /\ UNCHANGED newRes
      \/ \E id : WroteReservation(w, id)
      \/ \E id : WroteBlocking(w, id)
  <2>1. CASE Submit(w)
    BY <2>1 DEF Submit, SubmitCreate, SubmitRecurring, SubmitUpdate, SubmitCancel,
                SubmitCancelSeries, SubmitBlock, SubmitUnblock, gaps
  <2>2. CASE Die(w) BY <2>2 DEF Die
  <2>3. CASE CheckReservations(w) \/ TakeSnapshot(w)
    BY <2>3 DEF CheckReservations, TakeSnapshot
  <2>4. CASE CheckBlockings(w) BY Zenon, <2>4 DEF CheckBlockings
  <2>5. CASE CountActive(w) BY Zenon, <2>5 DEF CountActive
  <2>6. CASE InsertReservation(w) BY <2>6 DEF InsertReservation
  <2>7. CASE UpdateReservation(w) BY <2>7 DEF UpdateReservation
  <2>8. CASE InsertBlocking(w) BY <2>8 DEF InsertBlocking
  <2>9. CASE \/ CancelReservation(w) \/ CancelSeriesRows(w) \/ RemoveBlocking(w)
             \/ OverrideReservation(w) \/ NotifyOverride(w) \/ NotifyParty(w)
    BY <2>9 DEF CancelReservation, CancelSeriesRows, RemoveBlocking, OverrideReservation,
                NotifyOverride, NotifyParty, gaps
  <2> QED BY <2>1, <2>2, <2>3, <2>4, <2>5, <2>6, <2>7, <2>8, <2>9 DEF Proceed
<1> QED BY <1>1 DEF HistoryGrows, Forget, WroteReservation, WroteBlocking

-------------------------------------------------------------------------------
(* Where a worker is after a step of its own. *)

Resting == {"idle", "notify", "checkReservations"}

LEMMA FinishRests ==
  ASSUME ControlOK, NEW w \in Workers, NEW tail, Finish(w, tail)
  PROVE  pc'[w] \in {"idle", "notify"}
BY DEF ControlOK, Finish

LEMMA RefuseRests ==
  ASSUME ControlOK, NEW w \in Workers, Refuse(w)
  PROVE  pc'[w] = "idle"
BY DEF ControlOK, Finish, Refuse

LEMMA GotoLands ==
  ASSUME ControlOK, NEW w \in Workers, NEW to, NEW request, Goto(w, to, request)
  PROVE  pc'[w] = to /\ req'[w] = request
BY DEF ControlOK, Goto

LEMMA NextDateRests ==
  ASSUME ControlOK, NEW w \in Workers, NEW created, NextDate(w, created)
  PROVE  pc'[w] \in Resting
BY FinishRests, GotoLands DEF NextDate, Resting

LEMMA UnavailableRests ==
  ASSUME ControlOK, NEW w \in Workers, Unavailable(w)
  PROVE  pc'[w] \in Resting
BY NextDateRests, FinishRests DEF Unavailable, Refuse, Resting

LEMMA DieRests ==
  ASSUME TypeOK, NEW w \in Workers, Die(w)
  PROVE  pc'[w] \in Resting
BY NextDateRests, FinishRests DEF TypeOK, Die, Refuse, Resting

LEMMA NextInLoopLands ==
  ASSUME ControlOK, NEW w \in Workers, NEW r, NextInLoop(w, r)
  PROVE  pc'[w] \in {"overrideRow", "insertBlocking", "idle"}
BY GotoLands, RefuseRests DEF NextInLoop

LEMMA SubmitLands ==
  ASSUME TypeOK, NEW w \in Workers, Submit(w)
  PROVE  \/ pc'[w] \in {"checkReservations", "cancelRow", "cancelSeriesRows", "snapshot",
                        "removeBlocking"}
         \/ /\ SubmitUpdate(w) /\ pc'[w] = "updateRow" /\ ~req'[w].moved
            /\ \E id \in Confirmed : req'[w].target = id /\ req'[w].slot = reservations[id].slot
<1> USE DEF TypeOK
<1>1. CASE SubmitCreate(w)
  <2>1. \E request : Goto(w, "checkReservations", request) BY <1>1 DEF SubmitCreate
  <2> QED BY <2>1, GotoLands
<1>2. CASE SubmitRecurring(w)
  <2>1. \E request : Goto(w, "checkReservations", request) BY <1>2 DEF SubmitRecurring
  <2> QED BY <2>1, GotoLands
<1>3. CASE SubmitUpdate(w)
  <2> DEFINE next(id, d, start, end) ==
               [space |-> reservations[id].slot.space, date |-> d, start |-> start,
                end |-> end]
             moved(id, d, start, end) == next(id, d, start, end) # reservations[id].slot
             request(u, id, d, start, end) ==
               [op |-> "update", user |-> u, target |-> id, slot |-> next(id, d, start, end),
                moved |-> moved(id, d, start, end)]
  <2>1. PICK u \in Users, id \in Confirmed, d \in Days, start \in Starts, end \in Ends :
          Goto(w, IF moved(id, d, start, end) THEN "checkReservations" ELSE "updateRow",
               request(u, id, d, start, end))
    BY <1>3 DEF SubmitUpdate
  <2>2. CASE moved(id, d, start, end)
    BY <2>1, <2>2, GotoLands
  <2>3. CASE ~moved(id, d, start, end)
    <3>1. pc'[w] = "updateRow" /\ req'[w] = request(u, id, d, start, end)
      BY <2>1, <2>3, GotoLands
    <3>2. req'[w].target = id /\ req'[w].slot = reservations[id].slot
      BY <2>3, <3>1
    <3>3. moved(id, d, start, end) = FALSE
      BY <2>3
    <3>4. req'[w].moved = moved(id, d, start, end)
      BY <3>1
    <3>5. ~req'[w].moved
      <4> HIDE DEF moved
      <4> QED BY <3>3, <3>4
    <3> QED BY <1>3, <3>1, <3>2, <3>5
  <2> QED BY <2>2, <2>3
<1>4. CASE SubmitCancel(w)
  <2>1. \E request : Goto(w, "cancelRow", request) BY <1>4 DEF SubmitCancel
  <2> QED BY <2>1, GotoLands
<1>5. CASE SubmitCancelSeries(w)
  <2>1. \E request : Goto(w, "cancelSeriesRows", request) BY <1>5 DEF SubmitCancelSeries
  <2> QED BY <2>1, GotoLands
<1>6. CASE SubmitBlock(w)
  <2>1. \E request : Goto(w, "snapshot", request) BY <1>6 DEF SubmitBlock
  <2> QED BY <2>1, GotoLands
<1>7. CASE SubmitUnblock(w)
  <2>1. \E request : Goto(w, "removeBlocking", request) BY <1>7 DEF SubmitUnblock
  <2> QED BY <2>1, GotoLands
<1> QED BY <1>1, <1>2, <1>3, <1>4, <1>5, <1>6, <1>7 DEF Submit

-------------------------------------------------------------------------------
(* How a step changes the rows of reservations: all but row `id` keep their *)
(* slot, and none of them becomes confirmed.                                *)

Stable(id) ==
  \A k \in DOMAIN reservations' \ {id} :
    /\ k \in DOMAIN reservations
    /\ reservations'[k].slot = reservations[k].slot
    /\ reservations'[k].status = "confirmed" => reservations[k].status = "confirmed"

LEMMA StableReserved ==
  ASSUME NEW id, Stable(id), NEW slot
  PROVE  ReservedOver(slot)' \subseteq ReservedOver(slot) \union {id}
BY DEF Stable, ReservedOver, Confirmed

LEMMA UnchangedStable ==
  ASSUME UNCHANGED reservations, NEW id
  PROVE  Stable(id)
BY DEF Stable

LEMMA QuietStep ==
  ASSUME TypeOK, TargetsExist, NEW w \in Workers, Submit(w) \/ Proceed(w) \/ Die(w),
         ~InsertReservation(w), ~UpdateReservation(w)
  PROVE  Stable(NoRow) /\ doubleGap' = doubleGap
<1> USE DEF TypeOK, TablesOK
<1>1. CASE Submit(w)
  <2>1. UNCHANGED <<reservations, doubleGap>>
    BY <1>1 DEF Submit, SubmitCreate, SubmitRecurring, SubmitUpdate, SubmitCancel,
                SubmitCancelSeries, SubmitBlock, SubmitUnblock, tables, gaps
  <2> QED BY <2>1, UnchangedStable
<1>2. CASE Die(w) \/ CheckReservations(w) \/ TakeSnapshot(w)
  BY <1>2, UnchangedStable DEF Die, CheckReservations, TakeSnapshot, tables
<1>3. CASE CheckBlockings(w) \/ CountActive(w)
  <2>1. UNCHANGED <<reservations, doubleGap>>
    BY Zenon, <1>3 DEF CheckBlockings, CountActive, tables
  <2> QED BY <2>1, UnchangedStable
<1>5. CASE CancelReservation(w)
  <2>1. doubleGap' = doubleGap BY <1>5 DEF CancelReservation, gaps
  <2>2. Stable(NoRow) BY <1>5 DEF CancelReservation, Stable, ReservationRow
  <2> QED BY <2>1, <2>2
<1>6. CASE CancelSeriesRows(w)
  <2>1. doubleGap' = doubleGap BY <1>6 DEF CancelSeriesRows, gaps
  <2>2. Stable(NoRow) BY <1>6 DEF CancelSeriesRows, Stable, ReservationRow
  <2> QED BY <2>1, <2>2
<1>7. CASE OverrideReservation(w)
  <2>1. doubleGap' = doubleGap BY <1>7 DEF OverrideReservation, gaps
  <2>2. \E id : reservations' = [reservations EXCEPT ![id].status = "overridden"]
    BY <1>7 DEF OverrideReservation
  <2>3. Stable(NoRow) BY <2>2 DEF Stable, ReservationRow
  <2> QED BY <2>1, <2>3
<1>8. CASE InsertBlocking(w) \/ NotifyOverride(w) \/ RemoveBlocking(w) \/ NotifyParty(w)
  BY <1>8, UnchangedStable
     DEF InsertBlocking, NotifyOverride, RemoveBlocking, NotifyParty, gaps
<1> QED BY <1>1, <1>2, <1>3, <1>5, <1>6, <1>7, <1>8 DEF Proceed

-------------------------------------------------------------------------------
(* The two statements that write a slot. *)

LEMMA InsertCase ==
  ASSUME TypeOK, NEW w \in Workers, InsertReservation(w)
  PROVE  /\ pc[w] = "insert" /\ req[w] \in CreateRequest
         /\ \/ UNCHANGED <<reservations, doubleGap, blockGap>>
            \/ \E id \in ReservationIds \ DOMAIN reservations :
                 /\ DOMAIN reservations' = DOMAIN reservations \union {id}
                 /\ \A k \in DOMAIN reservations : reservations'[k] = reservations[k]
                 /\ reservations'[id].slot = req[w].slot
                 /\ reservations'[id].status = "confirmed"
                 /\ UniqueSlot(req[w].slot, NoRow)
                 /\ WroteReservation(w, id)
                 /\ doubleGap' = doubleGap \union RacedReservations(w, id, req[w].slot)
                 /\ blockGap' = blockGap \union RacedBlockings(w, id, req[w].slot)
<1> DEFINE r == req[w]
           row == [status |-> "confirmed", slot |-> r.slot, user |-> r.user,
                   requester |-> r.requester, series |-> r.series]
<1>1. pc[w] = "insert" BY DEF InsertReservation
<1>2. r \in CreateRequest BY <1>1, RequestKind DEF TypeOK
<1>3. CASE ~UniqueSlot(r.slot, NoRow)
  BY <1>1, <1>2, <1>3 DEF InsertReservation
<1>4. CASE UniqueSlot(r.slot, NoRow)
  <2>1. PICK id \in ReservationIds :
          /\ IsFresh(id, ReservationIds, reservations)
          /\ reservations' = Insert(reservations, id, row)
          /\ WroteReservation(w, id)
          /\ doubleGap' = doubleGap \union RacedReservations(w, id, r.slot)
          /\ blockGap' = blockGap \union RacedBlockings(w, id, r.slot)
    BY <1>4 DEF InsertReservation
  <2>2. id \in ReservationIds \ DOMAIN reservations BY <2>1 DEF IsFresh
  <2>3. /\ DOMAIN reservations' = DOMAIN reservations \union {id}
        /\ reservations'[id] = row
        /\ \A k \in DOMAIN reservations : reservations'[k] = reservations[k]
    BY <2>1, <2>2 DEF Insert
  <2>4. reservations'[id].slot = r.slot /\ reservations'[id].status = "confirmed"
    BY <2>3
  <2> HIDE DEF row
  <2> QED BY <1>1, <1>2, <1>4, <2>1, <2>2, <2>3, <2>4
<1> QED BY <1>3, <1>4

LEMMA UpdateCase ==
  ASSUME TypeOK, TargetsExist, NEW w \in Workers, UpdateReservation(w)
  PROVE  /\ pc[w] = "updateRow" /\ req[w] \in UpdateRequest
         /\ req[w].target \in DOMAIN reservations /\ req[w].target \in ReservationIds
         /\ \/ UNCHANGED <<reservations, doubleGap, blockGap>> /\ Forget(w)
            \/ /\ DOMAIN reservations' = DOMAIN reservations
               /\ \A k \in DOMAIN reservations \ {req[w].target} :
                    reservations'[k] = reservations[k]
               /\ reservations'[req[w].target].slot = req[w].slot
               /\ reservations'[req[w].target].status = reservations[req[w].target].status
               /\ \/ reservations[req[w].target].status # "confirmed"
                  \/ UniqueSlot(req[w].slot, req[w].target)
               /\ WroteReservation(w, req[w].target)
               /\ req[w].moved =>
                    /\ doubleGap' = {p \in doubleGap : req[w].target \notin {p[1], p[2]}}
                         \union RacedReservations(w, req[w].target, req[w].slot)
                    /\ blockGap' = {p \in blockGap : p[1] # req[w].target}
                         \union RacedBlockings(w, req[w].target, req[w].slot)
               /\ ~req[w].moved /\ req[w].target \in newRes[w] =>
                    /\ doubleGap' = doubleGap \union
                         {<<req[w].target, x>> : x \in ReservedOver(req[w].slot)}
                    /\ blockGap' = blockGap \union
                         {<<req[w].target, b>> : b \in BlockedOver(req[w].slot)}
               /\ ~req[w].moved /\ req[w].target \notin newRes[w] =>
                    UNCHANGED <<doubleGap, blockGap>>
<1> DEFINE r == req[w]
           id == r.target
<1>1. pc[w] = "updateRow" BY DEF UpdateReservation
<1>2. r \in UpdateRequest BY <1>1, RequestKind DEF TypeOK
<1>3. id \in DOMAIN reservations BY <1>2 DEF TargetsExist, Refers, UpdateRequest
<1>4. reservations[id] \in ReservationRow /\ id \in ReservationIds
  BY <1>3 DEF TypeOK, TablesOK
<1>5. CASE reservations[id].status = "confirmed" /\ ~UniqueSlot(r.slot, id)
  BY <1>1, <1>2, <1>3, <1>4, <1>5 DEF UpdateReservation
<1>6. CASE ~(reservations[id].status = "confirmed" /\ ~UniqueSlot(r.slot, id))
  <2>1. /\ reservations' = [reservations EXCEPT ![id] = EditedRow(reservations[id], r.slot)]
        /\ WroteReservation(w, id)
    BY <1>6 DEF UpdateReservation
  <2>2. /\ EditedRow(reservations[id], r.slot).slot = r.slot
        /\ EditedRow(reservations[id], r.slot).status = reservations[id].status
    BY <1>4 DEF EditedRow, ReservationRow
  <2>3. /\ DOMAIN reservations' = DOMAIN reservations
        /\ \A k \in DOMAIN reservations \ {id} : reservations'[k] = reservations[k]
        /\ reservations'[id].slot = r.slot
        /\ reservations'[id].status = reservations[id].status
    BY <1>3, <2>1, <2>2 DEF TypeOK, TablesOK
  <2>4. CASE r.moved
    BY <1>1, <1>2, <1>3, <1>4, <1>6, <2>1, <2>3, <2>4 DEF UpdateReservation
  <2>5. CASE ~r.moved
    BY <1>1, <1>2, <1>3, <1>4, <1>6, <2>1, <2>3, <2>5 DEF UpdateReservation
  <2> QED BY <2>4, <2>5
<1> QED BY <1>5, <1>6

LEMMA InsertStable ==
  ASSUME TypeOK, NEW w \in Workers, InsertReservation(w)
  PROVE  \/ Stable(NoRow) /\ UNCHANGED <<reservations, doubleGap, blockGap>>
         \/ \E id \in ReservationIds : Stable(id) /\ WroteReservation(w, id)
<1>1. CASE UNCHANGED <<reservations, doubleGap, blockGap>>
  BY <1>1, UnchangedStable
<1>2. ASSUME NEW id \in ReservationIds \ DOMAIN reservations,
             DOMAIN reservations' = DOMAIN reservations \union {id},
             \A k \in DOMAIN reservations : reservations'[k] = reservations[k],
             WroteReservation(w, id)
      PROVE  Stable(id) /\ WroteReservation(w, id)
  BY <1>2 DEF Stable
<1> QED BY <1>1, <1>2, InsertCase

LEMMA UpdateStable ==
  ASSUME TypeOK, TargetsExist, NEW w \in Workers, UpdateReservation(w)
  PROVE  \/ Stable(NoRow) /\ UNCHANGED <<reservations, doubleGap, blockGap>>
         \/ \E id \in ReservationIds : Stable(id) /\ WroteReservation(w, id)
<1> DEFINE id == req[w].target
<1>1. id \in ReservationIds BY UpdateCase
<1>2. \/ UNCHANGED <<reservations, doubleGap, blockGap>>
      \/ /\ DOMAIN reservations' = DOMAIN reservations
         /\ \A k \in DOMAIN reservations \ {id} : reservations'[k] = reservations[k]
         /\ WroteReservation(w, id)
  BY UpdateCase
<1>3. CASE UNCHANGED <<reservations, doubleGap, blockGap>>
  BY <1>3, UnchangedStable
<1>4. CASE /\ DOMAIN reservations' = DOMAIN reservations
           /\ \A k \in DOMAIN reservations \ {id} : reservations'[k] = reservations[k]
           /\ WroteReservation(w, id)
  <2>1. Stable(id) BY <1>4 DEF Stable
  <2> QED BY <1>1, <1>4, <2>1
<1> QED BY <1>2, <1>3, <1>4

LEMMA StepStable ==
  ASSUME TypeOK, TargetsExist, NEW w \in Workers, Submit(w) \/ Proceed(w) \/ Die(w)
  PROVE  \/ Stable(NoRow)
         \/ \E id \in ReservationIds : Stable(id) /\ WroteReservation(w, id)
BY QuietStep, InsertStable, UpdateStable

-------------------------------------------------------------------------------
(* CheckedReservations and EditedRows. *)

Checked(v) ==
  \/ pc[v] \in {"checkBlockings", "countActive", "insert"}
  \/ pc[v] = "updateRow" /\ req[v].moved

(* A worker keeps the worth of its check through the steps of the others. *)
LEMMA OthersWatched ==
  ASSUME TypeOK, TargetsExist, NEW w \in Workers, Submit(w) \/ Proceed(w) \/ Die(w),
         NEW v \in Workers, v # w, Watching(v), NEW slot
  PROVE  \E new \in SUBSET newRes'[v] :
           /\ newRes[v] \subseteq newRes'[v]
           /\ ReservedOver(slot)' \subseteq ReservedOver(slot) \union new
           /\ \A k \in DOMAIN reservations' \ new :
                k \in DOMAIN reservations /\ reservations'[k].slot = reservations[k].slot
<1>1. newRes[v] \subseteq newRes'[v] BY HistoryKept DEF HistoryGrows
<1>2. CASE Stable(NoRow)
  <2>1. NoRow \notin DOMAIN reservations'
    BY <1>2, RowIdsNotNull, TypeStep DEF TypeOK, TablesOK, Next
  <2>2. NoRow \notin ReservedOver(slot)' BY <2>1 DEF ReservedOver, Confirmed
  <2>3. ReservedOver(slot)' \subseteq ReservedOver(slot) BY <1>2, <2>2, StableReserved
  <2> QED BY <1>1, <1>2, <2>1, <2>3 DEF Stable
<1>3. ASSUME NEW id \in ReservationIds, Stable(id), WroteReservation(w, id)
      PROVE  \E new \in SUBSET newRes'[v] :
               /\ newRes[v] \subseteq newRes'[v]
               /\ ReservedOver(slot)' \subseteq ReservedOver(slot) \union new
               /\ \A k \in DOMAIN reservations' \ new :
                    k \in DOMAIN reservations /\ reservations'[k].slot = reservations[k].slot
  <2>1. {id} \in SUBSET newRes'[v] BY <1>3 DEF WroteReservation, TypeOK, HistoryOK
  <2>2. ReservedOver(slot)' \subseteq ReservedOver(slot) \union {id} BY <1>3, StableReserved
  <2>3. \A k \in DOMAIN reservations' \ {id} :
          k \in DOMAIN reservations /\ reservations'[k].slot = reservations[k].slot
    BY <1>3 DEF Stable
  <2> QED BY <1>1, <2>1, <2>2, <2>3
<1> QED BY <1>2, <1>3, StepStable

(* A worker that comes out of a step checked has gone through a check.     *)
LEMMA CheckAdvances ==
  ASSUME TypeOK, NEW w \in Workers, Submit(w) \/ Proceed(w) \/ Die(w), Checked(w)'
  PROVE  /\ req'[w] = req[w] /\ UNCHANGED <<reservations, blockings>>
         /\ \/ /\ CheckReservations(w) /\ pc'[w] = "checkBlockings"
               /\ ReservedOver(req[w].slot) \ {req[w].target} = {}
            \/ /\ CheckBlockings(w) /\ UNCHANGED newRes
               /\ BlockedOver(req[w].slot) = {}
            \/ CountActive(w) /\ UNCHANGED <<newRes, newBlk>>
<1> USE DEF TypeOK
<1>1. pc'[w] \in {"checkBlockings", "countActive", "insert", "updateRow"}
  BY DEF Checked
<1>2. ~Submit(w) BY SubmitLands DEF Checked
<1>3. ~Die(w) BY <1>1, DieRests DEF Resting
<1>4. ~InsertReservation(w)
  <2>1. InsertReservation(w) => pc'[w] \in Resting
    BY UnavailableRests, NextDateRests, FinishRests DEF InsertReservation, Resting
  <2> QED BY <1>1, <2>1 DEF Resting
<1>5. ~\/ UpdateReservation(w) \/ CancelReservation(w) \/ CancelSeriesRows(w)
       \/ RemoveBlocking(w) \/ NotifyParty(w)
  BY <1>1, FinishRests DEF UpdateReservation, CancelReservation, CancelSeriesRows,
     RemoveBlocking, NotifyParty, Refuse
<1>6. ~\/ TakeSnapshot(w) \/ OverrideReservation(w)
  <2>1. TakeSnapshot(w) => \E request : Goto(w, "insertBlocking", request)
    BY DEF TakeSnapshot
  <2>2. OverrideReservation(w) => \E request : Goto(w, "notifyOverride", request)
    BY DEF OverrideReservation
  <2> QED BY <1>1, <2>1, <2>2, GotoLands
<1>7. ~\/ InsertBlocking(w) \/ NotifyOverride(w)
  BY <1>1, NextInLoopLands DEF InsertBlocking, NotifyOverride
<1>8. CASE CheckReservations(w)
  <2>1. ~Unavailable(w) BY <1>1, UnavailableRests DEF Resting
  <2>2. /\ ReservedOver(req[w].slot) \ {req[w].target} = {}
        /\ Goto(w, "checkBlockings", req[w])
        /\ UNCHANGED <<reservations, blockings>>
    BY Zenon, <1>8, <2>1 DEF CheckReservations, tables
  <2> QED BY <1>8, <2>2, GotoLands
<1>9. CASE CheckBlockings(w)
  <2>1. ~Unavailable(w) BY <1>1, UnavailableRests DEF Resting
  <2>2. /\ BlockedOver(req[w].slot) = {} /\ UNCHANGED newRes
        /\ \E to : Goto(w, to, req[w])
        /\ UNCHANGED <<reservations, blockings>>
    BY Zenon, <1>9, <2>1 DEF CheckBlockings, tables
  <2> QED BY <1>9, <2>2, GotoLands
<1>10. CASE CountActive(w)
  <2>1. ~Refuse(w) BY <1>1, RefuseRests
  <2>2. /\ Goto(w, "insert", req[w]) /\ UNCHANGED <<newRes, newBlk>>
        /\ UNCHANGED <<reservations, blockings>>
    BY Zenon, <1>10, <2>1 DEF CountActive, tables
  <2> QED BY <1>10, <2>2, GotoLands
<1> QED BY <1>2, <1>3, <1>4, <1>5, <1>6, <1>7, <1>8, <1>9, <1>10 DEF Proceed

LEMMA CheckedReservationsStep ==
  ASSUME TypeOK, TargetsExist, CheckedReservations, EditedRows,
         NEW w \in Workers, Submit(w) \/ Proceed(w) \/ Die(w)
  PROVE  CheckedReservations'
<1> SUFFICES ASSUME NEW v \in Workers, Checked(v)'
             PROVE  (ReservedOver(req[v].slot) \ {req[v].target} \subseteq newRes[v])'
  BY DEF CheckedReservations, Checked
<1>1. CASE v # w
  <2>1. pc'[v] = pc[v] /\ req'[v] = req[v] BY <1>1, OthersKept DEF KeepsOthers
  <2>2. Checked(v) BY <2>1 DEF Checked
  <2>3. Watching(v) BY <2>2 DEF Checked, Watching
  <2>4. ReservedOver(req[v].slot) \ {req[v].target} \subseteq newRes[v]
    BY <2>2 DEF CheckedReservations, Checked
  <2> DEFINE slot == req[v].slot
  <2>5. \E new \in SUBSET newRes'[v] :
           /\ newRes[v] \subseteq newRes'[v]
           /\ ReservedOver(req[v].slot)' \subseteq ReservedOver(slot) \union new
    BY <1>1, <2>1, <2>3, OthersWatched
  <2> QED BY <2>1, <2>4, <2>5
<1>2. CASE v = w
  <2>1. req'[w] = req[w] /\ UNCHANGED reservations BY <1>2, CheckAdvances
  <2>2. ReservedOver(req[w].slot)' = ReservedOver(req[w].slot)
    BY <2>1 DEF ReservedOver, Confirmed
  <2>3. CASE ReservedOver(req[w].slot) \ {req[w].target} = {}
    BY <1>2, <2>1, <2>2, <2>3
  <2>4. CASE UNCHANGED newRes /\ (CheckBlockings(w) \/ CountActive(w))
    <3>1. Checked(w) BY <2>4 DEF CheckBlockings, CountActive, Checked
    <3>2. ReservedOver(req[w].slot) \ {req[w].target} \subseteq newRes[w]
      BY <3>1 DEF CheckedReservations, Checked
    <3> QED BY <1>2, <2>1, <2>2, <2>4, <3>2
  <2> QED BY <1>2, <2>3, <2>4, CheckAdvances
<1> QED BY <1>1, <1>2

(* Where a handler of an edit comes from: the check, or a fresh read. *)
LEMMA EditComesFrom ==
  ASSUME TypeOK, NEW w \in Workers, Submit(w) \/ Proceed(w) \/ Die(w),
         pc'[w] = "updateRow"
  PROVE  \/ /\ SubmitUpdate(w) /\ ~req'[w].moved
            /\ \E id \in Confirmed :
                 req'[w].target = id /\ req'[w].slot = reservations[id].slot
         \/ /\ CheckBlockings(w) /\ req'[w] = req[w] /\ pc[w] = "checkBlockings"
            /\ req[w].op = "update"
<1> USE DEF TypeOK
<1>1. CASE Submit(w) BY <1>1, SubmitLands
<1>2. ~Die(w) BY DieRests DEF Resting
<1>3. ~InsertReservation(w)
  BY UnavailableRests, NextDateRests, FinishRests DEF InsertReservation, Resting
<1>4. ~\/ UpdateReservation(w) \/ CancelReservation(w) \/ CancelSeriesRows(w)
       \/ RemoveBlocking(w) \/ NotifyParty(w)
  BY FinishRests DEF UpdateReservation, CancelReservation, CancelSeriesRows,
     RemoveBlocking, NotifyParty, Refuse
<1>5. ~\/ TakeSnapshot(w) \/ OverrideReservation(w)
  <2>1. TakeSnapshot(w) => \E request : Goto(w, "insertBlocking", request)
    BY DEF TakeSnapshot
  <2>2. OverrideReservation(w) => \E request : Goto(w, "notifyOverride", request)
    BY DEF OverrideReservation
  <2> QED BY <2>1, <2>2, GotoLands
<1>6. ~\/ InsertBlocking(w) \/ NotifyOverride(w)
  BY NextInLoopLands DEF InsertBlocking, NotifyOverride
<1>7. ~\/ CheckReservations(w) \/ CountActive(w)
  <2>1. CheckReservations(w) => Unavailable(w) \/ Goto(w, "checkBlockings", req[w])
    BY Zenon DEF CheckReservations
  <2>2. CountActive(w) => Refuse(w) \/ Goto(w, "insert", req[w])
    BY Zenon DEF CountActive
  <2> QED BY <2>1, <2>2, UnavailableRests, RefuseRests, GotoLands DEF Resting
<1>8. CASE CheckBlockings(w)
  <2>1. ~Unavailable(w) BY UnavailableRests DEF Resting
  <2>2. Goto(w, IF req[w].op = "create" THEN "countActive"
                ELSE IF req[w].op = "recurring" THEN "insert" ELSE "updateRow", req[w])
    BY Zenon, <1>8, <2>1 DEF CheckBlockings
  <2>3. req'[w] = req[w] /\ req[w].op \notin {"create", "recurring"}
    BY <2>2, GotoLands
  <2>4. req[w] \in CreateRequest \union UpdateRequest
    BY <1>8, RequestKind DEF CheckBlockings
  <2>5. req[w].op = "update" BY <2>3, <2>4 DEF CreateRequest, UpdateRequest
  <2> QED BY <1>8, <2>3, <2>5 DEF CheckBlockings
<1> QED BY <1>1, <1>2, <1>3, <1>4, <1>5, <1>6, <1>7, <1>8 DEF Proceed

(* The check of an edit is only ever run for an edit that moves the row. *)
LEMMA CheckComesFrom ==
  ASSUME TypeOK, EditedRows, NEW w \in Workers, Submit(w) \/ Proceed(w) \/ Die(w),
         pc'[w] \in {"checkReservations", "checkBlockings"}, req'[w].op = "update"
  PROVE  req'[w].moved
<1> USE DEF TypeOK
<1>1. CASE Submit(w)
  <2>1. CASE SubmitCreate(w)
    <3>1. \E to, request : Goto(w, to, request) /\ request.op = "create"
      BY <2>1 DEF SubmitCreate
    <3> QED BY <3>1, GotoLands
  <2>2. CASE SubmitRecurring(w)
    <3>1. \E to, request : Goto(w, to, request) /\ request.op = "recurring"
      BY <2>2 DEF SubmitRecurring
    <3> QED BY <3>1, GotoLands
  <2>3. CASE SubmitUpdate(w)
    <3> DEFINE next(id, d, start, end) ==
                 [space |-> reservations[id].slot.space, date |-> d, start |-> start,
                  end |-> end]
               moved(id, d, start, end) == next(id, d, start, end) # reservations[id].slot
               request(u, id, d, start, end) ==
                 [op |-> "update", user |-> u, target |-> id,
                  slot |-> next(id, d, start, end), moved |-> moved(id, d, start, end)]
    <3>1. PICK u \in Users, id \in Confirmed, d \in Days, start \in Starts, end \in Ends :
            Goto(w, IF moved(id, d, start, end) THEN "checkReservations" ELSE "updateRow",
                 request(u, id, d, start, end))
      BY <2>3 DEF SubmitUpdate
    <3>2. moved(id, d, start, end) = TRUE
      BY <3>1, GotoLands
    <3>3. req'[w] = request(u, id, d, start, end)
      BY <3>1, GotoLands
    <3>4. req'[w].moved = moved(id, d, start, end)
      BY <3>3
    <3> HIDE DEF moved
    <3> QED BY <3>2, <3>4
  <2>4. CASE SubmitCancel(w)
    <3>1. \E request : Goto(w, "cancelRow", request) BY <2>4 DEF SubmitCancel
    <3> QED BY <3>1, GotoLands
  <2>5. CASE SubmitCancelSeries(w)
    <3>1. \E request : Goto(w, "cancelSeriesRows", request) BY <2>5 DEF SubmitCancelSeries
    <3> QED BY <3>1, GotoLands
  <2>6. CASE SubmitBlock(w)
    <3>1. \E request : Goto(w, "snapshot", request) BY <2>6 DEF SubmitBlock
    <3> QED BY <3>1, GotoLands
  <2>7. CASE SubmitUnblock(w)
    <3>1. \E request : Goto(w, "removeBlocking", request) BY <2>7 DEF SubmitUnblock
    <3> QED BY <3>1, GotoLands
  <2> QED BY <1>1, <2>1, <2>2, <2>3, <2>4, <2>5, <2>6, <2>7 DEF Submit
<1>2. ASSUME req[w] \in CreateRequest, NEW created, NextDate(w, created)
      PROVE  FALSE
  <2> DEFINE next(d) == [req[w] EXCEPT !.dates = Rest(req[w]), !.slot = OnDate(@, d),
                                       !.created = created]
  <2>1. PICK d : Goto(w, "checkReservations", next(d)) BY <1>2, FinishRests DEF NextDate
  <2>2. next(d).op = req[w].op BY <1>2 DEF CreateRequest
  <2>3. req'[w].op = req[w].op BY <2>1, <2>2, GotoLands
  <2> QED BY <1>2, <2>3 DEF CreateRequest
<1>3. ASSUME req[w] \in CreateRequest \union UpdateRequest, Unavailable(w)
      PROVE  FALSE
  <2>1. CASE req[w].op = "recurring"
    BY <1>2, <1>3, <2>1 DEF Unavailable, UpdateRequest
  <2>2. CASE req[w].op # "recurring"
    BY <1>3, <2>2, RefuseRests DEF Unavailable
  <2> QED BY <2>1, <2>2
<1>4. ~Die(w)
  <2> SUFFICES ASSUME Die(w) PROVE FALSE OBVIOUS
  <2>1. CASE Refuse(w) BY <2>1, RefuseRests
  <2>2. CASE pc[w] # "notify" /\ req[w].op = "recurring" /\ NextDate(w, req[w].created)
    <3>1. pc[w] # "idle" /\ pc[w] # "notify" BY <2>2 DEF Die
    <3>2. req[w] \in CreateRequest
      BY <2>2, <3>1 DEF ControlOK, Fits, Labels, UpdateRequest, CancelRequest,
                        CancelSeriesRequest, BlockRequest, UnblockRequest
    <3> QED BY <1>2, <2>2, <3>2
  <2> QED BY <2>1, <2>2 DEF Die
<1>5. ~InsertReservation(w)
  <2>1. InsertReservation(w) => /\ req[w] \in CreateRequest
                                /\ \/ Unavailable(w) \/ NextDate(w, TRUE)
                                   \/ \E tail : Finish(w, tail)
    BY RequestKind DEF InsertReservation
  <2> QED BY <1>2, <1>3, <2>1, FinishRests
<1>6. ~\/ UpdateReservation(w) \/ CancelReservation(w) \/ CancelSeriesRows(w)
       \/ RemoveBlocking(w) \/ NotifyParty(w)
  BY FinishRests DEF UpdateReservation, CancelReservation, CancelSeriesRows,
     RemoveBlocking, NotifyParty, Refuse
<1>7. ~\/ TakeSnapshot(w) \/ OverrideReservation(w)
  <2>1. TakeSnapshot(w) => \E request : Goto(w, "insertBlocking", request)
    BY DEF TakeSnapshot
  <2>2. OverrideReservation(w) => \E request : Goto(w, "notifyOverride", request)
    BY DEF OverrideReservation
  <2> QED BY <2>1, <2>2, GotoLands
<1>8. ~\/ InsertBlocking(w) \/ NotifyOverride(w)
  BY NextInLoopLands DEF InsertBlocking, NotifyOverride
<1>9. ~\/ CheckBlockings(w) \/ CountActive(w)
  <2>1. CheckBlockings(w) =>
          \/ Unavailable(w)
          \/ Goto(w, IF req[w].op = "create" THEN "countActive"
                     ELSE IF req[w].op = "recurring" THEN "insert" ELSE "updateRow", req[w])
    BY Zenon DEF CheckBlockings
  <2>2. CheckBlockings(w) => req[w] \in CreateRequest \union UpdateRequest
    BY RequestKind DEF CheckBlockings
  <2>3. CountActive(w) => Refuse(w) \/ Goto(w, "insert", req[w])
    BY Zenon DEF CountActive
  <2> QED BY <1>3, <2>1, <2>2, <2>3, RefuseRests, GotoLands
<1>10. CASE CheckReservations(w)
  <2>1. Unavailable(w) \/ Goto(w, "checkBlockings", req[w])
    BY Zenon, <1>10 DEF CheckReservations
  <2>2. pc[w] = "checkReservations" BY <1>10 DEF CheckReservations
  <2>3. req[w] \in CreateRequest \union UpdateRequest BY <2>2, RequestKind
  <2>4. req'[w] = req[w] BY <1>3, <2>1, <2>3, GotoLands
  <2> QED BY <2>2, <2>4 DEF EditedRows
<1> QED BY <1>1, <1>4, <1>5, <1>6, <1>7, <1>8, <1>9, <1>10 DEF Proceed

LEMMA EditedRowsStep ==
  ASSUME TypeOK, TypeOK', TargetsExist, EditedRows,
         NEW w \in Workers, Submit(w) \/ Proceed(w) \/ Die(w)
  PROVE  EditedRows'
<1> SUFFICES ASSUME NEW v \in Workers
             PROVE  /\ /\ pc'[v] \in {"checkReservations", "checkBlockings"}
                       /\ req'[v].op = "update"
                       => req'[v].moved
                    /\ /\ pc'[v] = "updateRow" /\ ~req'[v].moved
                       /\ req'[v].target \notin newRes'[v]
                       => reservations'[req'[v].target].slot = req'[v].slot
  BY DEF EditedRows
<1>1. CASE v # w
  <2>1. pc'[v] = pc[v] /\ req'[v] = req[v] BY <1>1, OthersKept DEF KeepsOthers
  <2>2. pc[v] \in {"checkReservations", "checkBlockings"} /\ req[v].op = "update"
          => req[v].moved
    BY DEF EditedRows
  <2>3. ASSUME pc[v] = "updateRow", ~req[v].moved, req[v].target \notin newRes'[v]
        PROVE  reservations'[req[v].target].slot = req[v].slot
    <3>1. Watching(v) BY <2>3 DEF Watching
    <3>2. PICK new \in SUBSET newRes'[v] :
            /\ newRes[v] \subseteq newRes'[v]
            /\ \A k \in DOMAIN reservations' \ new :
                 k \in DOMAIN reservations /\ reservations'[k].slot = reservations[k].slot
      BY <1>1, <3>1, OthersWatched
    <3>3. reservations[req[v].target].slot = req[v].slot
      BY <2>3, <3>2 DEF EditedRows
    <3>4. req[v].target \in DOMAIN reservations'
      <4>1. req'[v] \in UpdateRequest BY <2>1, <2>3, RequestKind DEF TypeOK
      <4>2. TargetsExist' BY SubmitTargets, ProceedTargets, DieTargets
      <4> QED BY <2>1, <4>1, <4>2 DEF TargetsExist, Refers, UpdateRequest
    <3> QED BY <2>3, <3>2, <3>3, <3>4
  <2> QED BY <2>1, <2>2, <2>3
<1>2. CASE v = w
  <2>1. pc'[w] \in {"checkReservations", "checkBlockings"} /\ req'[w].op = "update"
          => req'[w].moved
    BY CheckComesFrom
  <2>2. ASSUME pc'[w] = "updateRow", ~req'[w].moved
        PROVE  reservations'[req'[w].target].slot = req'[w].slot
    <3>1. CASE SubmitUpdate(w)
      <4>1. UNCHANGED reservations BY <3>1 DEF SubmitUpdate, tables
      <4>2. ~CheckBlockings(w) BY <3>1 DEF SubmitUpdate, CheckBlockings
      <4> QED BY <2>2, <4>1, <4>2, EditComesFrom
    <3>2. CASE ~SubmitUpdate(w)
      <4>1. req'[w] = req[w] /\ pc[w] = "checkBlockings" /\ req[w].op = "update"
        BY <2>2, <3>2, EditComesFrom
      <4>2. req[w].moved BY <4>1 DEF EditedRows
      <4> QED BY <2>2, <4>1, <4>2
    <3> QED BY <3>1, <3>2
  <2> QED BY <1>2, <2>1, <2>2
<1> QED BY <1>1, <1>2

-------------------------------------------------------------------------------
(* The unique index. *)

LEMMA NoExactDuplicateStep ==
  ASSUME TypeOK, TargetsExist, NoExactDuplicate,
         NEW w \in Workers, Submit(w) \/ Proceed(w) \/ Die(w)
  PROVE  NoExactDuplicate'
<1> SUFFICES ASSUME NEW r \in Confirmed', NEW s \in Confirmed',
                    reservations'[r].slot = reservations'[s].slot, r # s
             PROVE  FALSE
  BY DEF NoExactDuplicate
<1>1. r \in DOMAIN reservations' /\ s \in DOMAIN reservations'
      /\ reservations'[r].status = "confirmed" /\ reservations'[s].status = "confirmed"
  BY DEF Confirmed
<1>2. CASE Stable(NoRow)
  <2>1. NoRow \notin DOMAIN reservations'
    BY RowIdsNotNull, TypeStep DEF TypeOK, TablesOK, Next
  <2> QED BY <1>1, <1>2, <2>1 DEF Stable, NoExactDuplicate, Confirmed
<1>3. CASE InsertReservation(w)
  <2>1. CASE UNCHANGED reservations
    BY <1>1, <2>1 DEF NoExactDuplicate, Confirmed
  <2>2. ASSUME NEW id \in ReservationIds \ DOMAIN reservations,
               DOMAIN reservations' = DOMAIN reservations \union {id},
               \A k \in DOMAIN reservations : reservations'[k] = reservations[k],
               reservations'[id].slot = req[w].slot,
               UniqueSlot(req[w].slot, NoRow)
        PROVE  FALSE
    <3>1. NoRow \notin Confirmed BY RowIdsNotNull DEF Confirmed, TypeOK, TablesOK
    <3> QED BY <1>1, <2>2, <3>1 DEF NoExactDuplicate, Confirmed, UniqueSlot
  <2> QED BY <1>3, <2>1, <2>2, InsertCase
<1>4. CASE UpdateReservation(w)
  <2> DEFINE id == req[w].target
  <2>1. CASE UNCHANGED reservations
    BY <1>1, <2>1 DEF NoExactDuplicate, Confirmed
  <2>2. CASE /\ DOMAIN reservations' = DOMAIN reservations
             /\ \A k \in DOMAIN reservations \ {id} : reservations'[k] = reservations[k]
             /\ reservations'[id].slot = req[w].slot
             /\ reservations'[id].status = reservations[id].status
             /\ \/ reservations[id].status # "confirmed"
                \/ UniqueSlot(req[w].slot, id)
    BY <1>1, <2>2 DEF NoExactDuplicate, Confirmed, UniqueSlot
  <2> QED BY <1>4, <2>1, <2>2, UpdateCase
<1> QED BY <1>2, <1>3, <1>4, QuietStep

-------------------------------------------------------------------------------
(* Double bookings. *)

LEMMA DoubleBookingStep ==
  ASSUME TypeOK, TypeOK', TargetsExist, CheckedReservations, EditedRows,
         DoubleBookingOnlyByRace, NEW w \in Workers, Submit(w) \/ Proceed(w) \/ Die(w)
  PROVE  DoubleBookingOnlyByRace'
<1> SUFFICES ASSUME NEW r \in Confirmed', NEW s \in Confirmed', r # s,
                    Conflict(reservations[r].slot, reservations[s].slot)'
             PROVE  <<r, s>> \in doubleGap' \/ <<s, r>> \in doubleGap'
  BY DEF DoubleBookingOnlyByRace
<1>1. /\ r \in DOMAIN reservations' /\ s \in DOMAIN reservations'
      /\ reservations'[r].status = "confirmed" /\ reservations'[s].status = "confirmed"
      /\ r \in ReservationIds /\ s \in ReservationIds
  BY DEF Confirmed, TypeOK, TablesOK
<1>2. /\ reservations'[r].slot \in Slot /\ reservations'[s].slot \in Slot
  BY <1>1 DEF TypeOK, TablesOK, ReservationRow
<1>3. /\ Conflict(reservations'[r].slot, reservations'[s].slot)
      /\ Conflict(reservations'[s].slot, reservations'[r].slot)
  BY <1>2, ConflictSymmetric DEF Conflict
<1>4. ASSUME r \in Confirmed, s \in Confirmed, reservations'[r].slot = reservations[r].slot,
             reservations'[s].slot = reservations[s].slot
      PROVE  <<r, s>> \in doubleGap \/ <<s, r>> \in doubleGap
  BY <1>3, <1>4 DEF DoubleBookingOnlyByRace
<1>5. CASE Stable(NoRow) /\ doubleGap' = doubleGap
  <2>1. r # NoRow /\ s # NoRow BY <1>1, RowIdsNotNull
  <2> QED BY <1>1, <1>4, <1>5, <2>1 DEF Stable, Confirmed
<1>6. CASE InsertReservation(w)
  <2> DEFINE slot == req[w].slot
  <2>1. CASE UNCHANGED <<reservations, doubleGap, blockGap>>
    BY <1>4, <2>1 DEF Confirmed
  <2>2. ASSUME NEW id \in ReservationIds \ DOMAIN reservations,
               DOMAIN reservations' = DOMAIN reservations \union {id},
               \A k \in DOMAIN reservations : reservations'[k] = reservations[k],
               reservations'[id].slot = slot,
               doubleGap' = doubleGap \union RacedReservations(w, id, slot)
        PROVE  <<r, s>> \in doubleGap' \/ <<s, r>> \in doubleGap'
    <3>1. req[w].target = NoRow /\ pc[w] = "insert"
      BY <1>6, InsertCase DEF CreateRequest
    <3>2. ReservedOver(slot) \ {NoRow} \subseteq newRes[w]
      BY <3>1 DEF CheckedReservations
    <3>3. ASSUME NEW k \in Confirmed, Conflict(slot, reservations[k].slot)
          PROVE  <<id, k>> \in doubleGap'
      <4>1. k \in ReservedOver(slot) BY <3>3 DEF ReservedOver
      <4>2. k # id /\ k # NoRow BY <2>2, RowIdsNotNull DEF Confirmed, TypeOK, TablesOK
      <4>3. k \in newRes[w] BY <3>2, <4>1, <4>2
      <4> QED BY <2>2, <4>1, <4>2, <4>3 DEF RacedReservations
    <3>4. CASE r = id
      <4>1. s \in Confirmed /\ reservations'[s].slot = reservations[s].slot
        BY <1>1, <2>2, <3>4 DEF Confirmed
      <4> QED BY <1>3, <2>2, <3>3, <3>4, <4>1
    <3>5. CASE s = id
      <4>1. r \in Confirmed /\ reservations'[r].slot = reservations[r].slot
        BY <1>1, <2>2, <3>5 DEF Confirmed
      <4> QED BY <1>3, <2>2, <3>3, <3>5, <4>1
    <3>6. CASE r # id /\ s # id
      BY <1>1, <1>4, <2>2, <3>6 DEF Confirmed
    <3> QED BY <3>4, <3>5, <3>6
  <2> QED BY <1>6, <2>1, <2>2, InsertCase
<1>7. CASE UpdateReservation(w)
  <2> DEFINE slot == req[w].slot
             id == req[w].target
  <2>1. CASE UNCHANGED <<reservations, doubleGap, blockGap>>
    BY <1>4, <2>1 DEF Confirmed
  <2>2. CASE ~UNCHANGED <<reservations, doubleGap, blockGap>>
    <3>1. /\ DOMAIN reservations' = DOMAIN reservations
          /\ \A k \in DOMAIN reservations \ {id} : reservations'[k] = reservations[k]
          /\ reservations'[id].slot = slot
          /\ reservations'[id].status = reservations[id].status
          /\ pc[w] = "updateRow"
      BY <1>7, <2>2, UpdateCase
    <3>2. \A k \in DOMAIN reservations : k \in Confirmed' => k \in Confirmed
      BY <3>1 DEF Confirmed
    <3>3. r \in Confirmed /\ s \in Confirmed BY <1>1, <3>1, <3>2
    <3>4. CASE req[w].moved
      <4>1. doubleGap' = {p \in doubleGap : id \notin {p[1], p[2]}}
                           \union RacedReservations(w, id, slot)
        BY <1>7, <2>2, <3>4, UpdateCase
      <4>2. ReservedOver(slot) \ {id} \subseteq newRes[w]
        BY <3>1, <3>4 DEF CheckedReservations
      <4>3. ASSUME NEW k \in Confirmed \ {id}, Conflict(slot, reservations[k].slot)
            PROVE  <<id, k>> \in doubleGap'
        <5>1. k \in ReservedOver(slot) BY <4>3 DEF ReservedOver
        <5>2. k \in newRes[w] BY <4>2, <4>3, <5>1
        <5> QED BY <4>1, <4>3, <5>1, <5>2 DEF RacedReservations
      <4>4. CASE r = id
        <5>1. s \in Confirmed \ {id} /\ reservations'[s].slot = reservations[s].slot
          BY <1>1, <3>1, <3>3, <4>4
        <5> QED BY <1>3, <3>1, <4>3, <4>4, <5>1
      <4>5. CASE s = id
        <5>1. r \in Confirmed \ {id} /\ reservations'[r].slot = reservations[r].slot
          BY <1>1, <3>1, <3>3, <4>5
        <5> QED BY <1>3, <3>1, <4>3, <4>5, <5>1
      <4>6. CASE r # id /\ s # id
        <5>1. <<r, s>> \in doubleGap \/ <<s, r>> \in doubleGap
          BY <1>1, <1>4, <3>1, <3>3, <4>6
        <5> QED BY <4>1, <4>6, <5>1
      <4> QED BY <4>4, <4>5, <4>6
    <3>5. CASE ~req[w].moved /\ id \in newRes[w]
      <4>1. doubleGap' = doubleGap \union {<<id, x>> : x \in ReservedOver(slot)}
        BY <1>7, <2>2, <3>5, UpdateCase
      <4>2. CASE r = id
        <5>1. s \in ReservedOver(slot) BY <1>1, <1>3, <3>1, <3>3, <4>2 DEF ReservedOver
        <5> QED BY <4>1, <4>2, <5>1
      <4>3. CASE s = id
        <5>1. r \in ReservedOver(slot) BY <1>1, <1>3, <3>1, <3>3, <4>3 DEF ReservedOver
        <5> QED BY <4>1, <4>3, <5>1
      <4>4. CASE r # id /\ s # id
        BY <1>1, <1>4, <3>1, <3>3, <4>1, <4>4
      <4> QED BY <4>2, <4>3, <4>4
    <3>6. CASE ~req[w].moved /\ id \notin newRes[w]
      <4>1. UNCHANGED doubleGap BY <1>7, <2>2, <3>6, UpdateCase
      <4>2. reservations[id].slot = slot BY <3>1, <3>6 DEF EditedRows
      <4> QED BY <1>1, <1>4, <3>1, <3>3, <4>1, <4>2
    <3> QED BY <3>4, <3>5, <3>6
  <2> QED BY <2>1, <2>2
<1> QED BY <1>5, <1>6, <1>7, QuietStep

-------------------------------------------------------------------------------
(* The reservations' side, put together. *)

ReservationInvariant ==
  /\ TypeOK /\ TargetsExist
  /\ CheckedReservations /\ EditedRows
  /\ DoubleBookingOnlyByRace /\ NoExactDuplicate

LEMMA ReservationInit == Init => ReservationInvariant
<1> SUFFICES ASSUME Init PROVE ReservationInvariant OBVIOUS
<1>1. Confirmed = {} BY DEF Init, Confirmed
<1>2. \A w \in Workers : pc[w] = "idle" BY DEF Init
<1> QED BY <1>1, <1>2, TypeInit DEF ReservationInvariant, CheckedReservations, EditedRows,
           DoubleBookingOnlyByRace, NoExactDuplicate

LEMMA ReservationStep == ReservationInvariant /\ [Next]_vars => ReservationInvariant'
<1> SUFFICES ASSUME ReservationInvariant, [Next]_vars PROVE ReservationInvariant' OBVIOUS
<1> USE DEF ReservationInvariant
<1>1. TypeOK' /\ TargetsExist' BY TypeStep
<1>2. CASE UNCHANGED vars \/ Tick
  <2>1. UNCHANGED <<reservations, pc, req, newRes, doubleGap>>
    BY <1>2 DEF Tick, vars, tables, control, gaps
  <2>2. CheckedReservations' /\ EditedRows'
    BY <2>1 DEF CheckedReservations, EditedRows, ReservedOver, Confirmed
  <2>3. DoubleBookingOnlyByRace' /\ NoExactDuplicate'
    BY <2>1 DEF DoubleBookingOnlyByRace, NoExactDuplicate, Confirmed
  <2> QED BY <1>1, <2>2, <2>3
<1>3. ASSUME NEW w \in Workers, Submit(w) \/ Proceed(w) \/ Die(w)
      PROVE  ReservationInvariant'
  BY <1>1, <1>3, CheckedReservationsStep, EditedRowsStep, DoubleBookingStep,
     NoExactDuplicateStep
<1> QED BY <1>2, <1>3 DEF Next, RefuseRequest

LEMMA ReservationInvariantHolds == Spec => []ReservationInvariant
BY ReservationInit, ReservationStep, PTL DEF Spec

(* checkSlotAvailability is worth what ADR 0001 says: however many requests *)
(* run at once, two confirmed reservations collide only if one of them was  *)
(* written between the other's check and its write.                         *)
THEOREM DoubleBookingsAreRaces == Spec => []DoubleBookingOnlyByRace
<1>1. ReservationInvariant => DoubleBookingOnlyByRace BY DEF ReservationInvariant
<1> QED BY <1>1, ReservationInvariantHolds, PTL

(* The unique index lets no two confirmed rows have the same slot, in every *)
(* interleaving of inserts, edits and cancellations.                        *)
THEOREM ExactDuplicatesImpossible == Spec => []NoExactDuplicate
<1>1. ReservationInvariant => NoExactDuplicate BY DEF ReservationInvariant
<1> QED BY <1>1, ReservationInvariantHolds, PTL

(* No statement of any handler brings a canceled or overridden reservation  *)
(* back, though every UPDATE names its row by id alone.                     *)
THEOREM CanceledStaysCanceled == Spec => NeverConfirmedAgain
<1>1. ReservationInvariant /\ [Next]_vars =>
        [\A r \in DOMAIN reservations : r \in Confirmed' => r \in Confirmed]_vars
  <2> SUFFICES ASSUME ReservationInvariant, [Next]_vars,
                      NEW r \in DOMAIN reservations, r \in Confirmed'
               PROVE  r \in Confirmed
    OBVIOUS
  <2> USE DEF ReservationInvariant
  <2>1. CASE UNCHANGED vars \/ Tick
    BY <2>1 DEF Tick, vars, tables, Confirmed
  <2>2. ASSUME NEW w \in Workers, Submit(w) \/ Proceed(w) \/ Die(w)
        PROVE  r \in Confirmed
    <3>1. r # NoRow BY RowIdsNotNull DEF TypeOK, TablesOK
    <3>2. CASE Stable(NoRow) BY <3>1, <3>2 DEF Stable, Confirmed
    <3>3. CASE InsertReservation(w)
      <4>1. \/ UNCHANGED reservations
            \/ \A k \in DOMAIN reservations : reservations'[k] = reservations[k]
        BY <3>3, InsertCase
      <4> QED BY <4>1 DEF Confirmed
    <3>4. CASE UpdateReservation(w)
      <4>1. \/ UNCHANGED reservations
            \/ \A k \in DOMAIN reservations :
                 reservations'[k].status = reservations[k].status
        BY <3>4, UpdateCase
      <4> QED BY <4>1 DEF Confirmed
    <3> QED BY <2>2, <3>2, <3>3, <3>4, QuietStep
  <2> QED BY <2>1, <2>2 DEF Next, RefuseRequest
<1> QED BY <1>1, ReservationInvariantHolds, PTL DEF Spec, NeverConfirmedAgain

-------------------------------------------------------------------------------
(* What a blocking is worth against the requests that run beside it: a     *)
(* confirmed reservation lies under an active blocking only through a race *)
(* between the two, or because the loop that overrides has not come to it, *)
(* or died before it did.                                                  *)

-------------------------------------------------------------------------------
(* How a step changes the rows of blockings. *)

(* The active ones were active before, in the same slot. *)
BlockStable ==
  \A b \in Active' : b \in Active /\ blockings'[b].slot = blockings[b].slot

LEMMA StableBlocked ==
  ASSUME BlockStable, NEW slot
  PROVE  BlockedOver(slot)' \subseteq BlockedOver(slot)
<1> SUFFICES ASSUME NEW b \in BlockedOver(slot)'
             PROVE  b \in BlockedOver(slot)
  OBVIOUS
<1>1. b \in Active' /\ Conflict(slot, blockings'[b].slot)
  BY DEF BlockedOver, Conflict
<1>2. b \in Active /\ blockings'[b].slot = blockings[b].slot
  BY <1>1 DEF BlockStable
<1> QED BY <1>1, <1>2 DEF BlockedOver

LEMMA BlockingsKept ==
  ASSUME TypeOK, NEW w \in Workers, Submit(w) \/ Proceed(w) \/ Die(w), ~InsertBlocking(w)
  PROVE  BlockStable
<1>1. ASSUME UNCHANGED blockings PROVE BlockStable
  BY <1>1 DEF BlockStable, Active
<1>2. CASE Submit(w)
  BY <1>1, <1>2 DEF Submit, SubmitCreate, SubmitRecurring, SubmitUpdate, SubmitCancel,
                    SubmitCancelSeries, SubmitBlock, SubmitUnblock, tables
<1>3. CASE Die(w) \/ CheckReservations(w) \/ TakeSnapshot(w)
  BY <1>1, <1>3 DEF Die, CheckReservations, TakeSnapshot, tables
<1>4. CASE CheckBlockings(w) \/ CountActive(w)
  <2>1. UNCHANGED blockings BY Zenon, <1>4 DEF CheckBlockings, CountActive, tables
  <2> QED BY <1>1, <2>1
<1>5. CASE \/ InsertReservation(w) \/ UpdateReservation(w) \/ CancelReservation(w)
           \/ CancelSeriesRows(w) \/ OverrideReservation(w) \/ NotifyOverride(w)
           \/ NotifyParty(w)
  BY <1>1, <1>5 DEF InsertReservation, UpdateReservation, CancelReservation,
                    CancelSeriesRows, OverrideReservation, NotifyOverride, NotifyParty
<1>6. CASE RemoveBlocking(w)
  <2>1. blockings' = [blockings EXCEPT ![req[w].target].status = "removed"]
    BY <1>6 DEF RemoveBlocking
  <2> QED BY <2>1 DEF BlockStable, Active, BlockingRow, TypeOK, TablesOK
<1> QED BY <1>2, <1>3, <1>4, <1>5, <1>6 DEF Proceed

LEMMA InsertBlockingCase ==
  ASSUME TypeOK, NEW w \in Workers, InsertBlocking(w)
  PROVE  /\ pc[w] = "insertBlocking" /\ req[w] \in BlockRequest
         /\ NextInLoop(w, req[w]) /\ UNCHANGED <<reservations, newRes>>
         /\ \E id \in BlockingIds :
              /\ \A b \in Active' \ {id} : b \in Active /\ blockings'[b] = blockings[b]
              /\ blockings'[id].slot = req[w].slot
              /\ WroteBlocking(w, id)
              /\ blockGap' = blockGap \union
                   {<<k, id>> : k \in ReservedOver(req[w].slot) \intersect newRes[w]}
<1> DEFINE r == req[w]
           row == [status |-> "active", slot |-> r.slot, user |-> r.user]
<1>1. pc[w] = "insertBlocking" BY DEF InsertBlocking
<1>2. r \in BlockRequest BY <1>1, RequestKind DEF TypeOK, BlockLoop
<1>3. PICK id \in BlockingIds :
        /\ IsFresh(id, BlockingIds, blockings)
        /\ blockings' = Insert(blockings, id, row)
        /\ WroteBlocking(w, id)
        /\ blockGap' = blockGap \union
             {<<k, id>> : k \in ReservedOver(r.slot) \intersect newRes[w]}
        /\ NextInLoop(w, r)
  BY DEF InsertBlocking
<1>4. /\ DOMAIN blockings' = DOMAIN blockings \union {id}
      /\ blockings'[id] = row
      /\ \A k \in DOMAIN blockings \ {id} : blockings'[k] = blockings[k]
  BY <1>3 DEF Insert
<1>5. blockings'[id].slot = r.slot BY <1>4
<1>6. \A b \in Active' \ {id} : b \in Active /\ blockings'[b] = blockings[b]
  BY <1>4 DEF Active
<1>7. UNCHANGED <<reservations, newRes>> BY <1>3 DEF InsertBlocking, WroteBlocking
<1> HIDE DEF row
<1> QED BY <1>1, <1>2, <1>3, <1>5, <1>6, <1>7

(* What other workers see of it: a blocking they have not judged is noted. *)
LEMMA OthersSeeBlockings ==
  ASSUME TypeOK, NEW w \in Workers, Submit(w) \/ Proceed(w) \/ Die(w),
         NEW v \in Workers, v # w, Watching(v), NEW slot
  PROVE  BlockedOver(slot)' \subseteq BlockedOver(slot) \union newBlk'[v]
<1>1. CASE ~InsertBlocking(w)
  BY <1>1, BlockingsKept, StableBlocked
<1>2. CASE InsertBlocking(w)
  <2>1. PICK id \in BlockingIds :
          /\ \A b \in Active' \ {id} : b \in Active /\ blockings'[b] = blockings[b]
          /\ WroteBlocking(w, id)
    BY <1>2, InsertBlockingCase
  <2>2. id \in newBlk'[v] BY <2>1 DEF WroteBlocking
  <2>3. ASSUME NEW b \in BlockedOver(slot)', b # id PROVE b \in BlockedOver(slot)
    <3>1. b \in Active' /\ Conflict(slot, blockings'[b].slot)
      BY DEF BlockedOver, Conflict
    <3>2. b \in Active /\ blockings'[b] = blockings[b] BY <2>1, <2>3, <3>1
    <3> QED BY <3>1, <3>2 DEF BlockedOver
  <2> QED BY <2>2, <2>3
<1> QED BY <1>1, <1>2

-------------------------------------------------------------------------------
(* CheckedBlockings. *)

CheckedBoth(v) ==
  \/ pc[v] \in {"countActive", "insert"}
  \/ pc[v] = "updateRow" /\ req[v].moved

LEMMA CheckedBlockingsStep ==
  ASSUME TypeOK, CheckedBlockings, EditedRows,
         NEW w \in Workers, Submit(w) \/ Proceed(w) \/ Die(w)
  PROVE  CheckedBlockings'
<1> SUFFICES ASSUME NEW v \in Workers, CheckedBoth(v)'
             PROVE  (BlockedOver(req[v].slot) \subseteq newBlk[v])'
  BY DEF CheckedBlockings, CheckedBoth
<1>1. CASE v # w
  <2>1. pc'[v] = pc[v] /\ req'[v] = req[v] BY <1>1, OthersKept DEF KeepsOthers
  <2>2. CheckedBoth(v) BY <2>1 DEF CheckedBoth
  <2>3. Watching(v) BY <2>2 DEF CheckedBoth, Watching
  <2>4. BlockedOver(req[v].slot) \subseteq newBlk[v]
    BY <2>2 DEF CheckedBlockings, CheckedBoth
  <2>5. newBlk[v] \subseteq newBlk'[v] BY <1>1, HistoryKept DEF HistoryGrows
  <2> DEFINE slot == req[v].slot
  <2>6. BlockedOver(req[v].slot)' \subseteq BlockedOver(slot) \union newBlk'[v]
    BY <1>1, <2>1, <2>3, OthersSeeBlockings
  <2> QED BY <2>4, <2>5, <2>6
<1>2. CASE v = w
  <2>1. Checked(w)' BY <1>2 DEF CheckedBoth, Checked
  <2>2. req'[w] = req[w] /\ UNCHANGED blockings BY <2>1, CheckAdvances
  <2>3. BlockedOver(req[w].slot)' = BlockedOver(req[w].slot)
    BY <2>2 DEF BlockedOver, Active
  <2>4. pc'[w] # "checkBlockings" BY <1>2 DEF CheckedBoth
  <2>5. CASE BlockedOver(req[w].slot) = {} BY <1>2, <2>3, <2>5
  <2>6. CASE CountActive(w) /\ UNCHANGED newBlk
    <3>1. CheckedBoth(w) BY <2>6 DEF CountActive, CheckedBoth
    <3>2. BlockedOver(req[w].slot) \subseteq newBlk[w]
      BY <3>1 DEF CheckedBlockings, CheckedBoth
    <3> QED BY <1>2, <2>3, <2>6, <3>2
  <2> QED BY <2>1, <2>4, <2>5, <2>6, CheckAdvances
<1> QED BY <1>1, <1>2

-------------------------------------------------------------------------------
(* The loop of a blocking. *)

InLoop(v) == pc[v] \in BlockLoop \union {"snapshot"}
WithinDates(r) == r.slot.date \in r.dates /\ \A x \in r.snapshot : x.slot.date \in r.dates

LEMMA LoopComesFrom ==
  ASSUME TypeOK, NEW w \in Workers, Submit(w) \/ Proceed(w) \/ Die(w), InLoop(w)'
  PROVE  \/ SubmitBlock(w) /\ pc'[w] = "snapshot"
         \/ TakeSnapshot(w) \/ InsertBlocking(w) \/ OverrideReservation(w)
         \/ NotifyOverride(w)
<1> USE DEF TypeOK
<1>0. pc'[w] \in BlockLoop \union {"snapshot"} BY DEF InLoop
<1>1. CASE Submit(w)
  <2>1. ~SubmitCreate(w)
    <3>1. SubmitCreate(w) => \E request : Goto(w, "checkReservations", request)
      BY DEF SubmitCreate
    <3> QED BY <1>0, <3>1, GotoLands DEF BlockLoop
  <2>2. ~SubmitRecurring(w)
    <3>1. SubmitRecurring(w) => \E request : Goto(w, "checkReservations", request)
      BY DEF SubmitRecurring
    <3> QED BY <1>0, <3>1, GotoLands DEF BlockLoop
  <2>3. ~SubmitUpdate(w)
    <3>1. SubmitUpdate(w) => \E to \in {"checkReservations", "updateRow"} : \E request :
                               Goto(w, to, request)
      BY DEF SubmitUpdate
    <3> QED BY <1>0, <3>1, GotoLands DEF BlockLoop
  <2>4. ~SubmitCancel(w)
    <3>1. SubmitCancel(w) => \E request : Goto(w, "cancelRow", request)
      BY DEF SubmitCancel
    <3> QED BY <1>0, <3>1, GotoLands DEF BlockLoop
  <2>5. ~SubmitCancelSeries(w)
    <3>1. SubmitCancelSeries(w) => \E request : Goto(w, "cancelSeriesRows", request)
      BY DEF SubmitCancelSeries
    <3> QED BY <1>0, <3>1, GotoLands DEF BlockLoop
  <2>6. ~SubmitUnblock(w)
    <3>1. SubmitUnblock(w) => \E request : Goto(w, "removeBlocking", request)
      BY DEF SubmitUnblock
    <3> QED BY <1>0, <3>1, GotoLands DEF BlockLoop
  <2>7. SubmitBlock(w) => pc'[w] = "snapshot"
    <3>1. SubmitBlock(w) => \E request : Goto(w, "snapshot", request)
      BY DEF SubmitBlock
    <3> QED BY <3>1, GotoLands
  <2> QED BY <1>1, <2>1, <2>2, <2>3, <2>4, <2>5, <2>6, <2>7 DEF Submit
<1>2. ~Die(w) BY <1>0, DieRests DEF Resting, BlockLoop
<1>3. ~InsertReservation(w)
  BY <1>0, UnavailableRests, NextDateRests, FinishRests
     DEF InsertReservation, Resting, BlockLoop
<1>4. ~\/ UpdateReservation(w) \/ CancelReservation(w) \/ CancelSeriesRows(w)
       \/ RemoveBlocking(w) \/ NotifyParty(w)
  BY <1>0, FinishRests DEF UpdateReservation, CancelReservation, CancelSeriesRows,
     RemoveBlocking, NotifyParty, Refuse, BlockLoop
<1>5. ~\/ CheckReservations(w) \/ CheckBlockings(w) \/ CountActive(w)
  <2>1. CheckReservations(w) => Unavailable(w) \/ Goto(w, "checkBlockings", req[w])
    BY Zenon DEF CheckReservations
  <2>2. CheckBlockings(w) =>
          \/ Unavailable(w)
          \/ Goto(w, IF req[w].op = "create" THEN "countActive"
                     ELSE IF req[w].op = "recurring" THEN "insert" ELSE "updateRow", req[w])
    BY Zenon DEF CheckBlockings
  <2>3. CountActive(w) => Refuse(w) \/ Goto(w, "insert", req[w])
    BY Zenon DEF CountActive
  <2> QED BY <1>0, <2>1, <2>2, <2>3, UnavailableRests, RefuseRests, GotoLands
             DEF Resting, BlockLoop
<1> QED BY <1>1, <1>2, <1>3, <1>4, <1>5 DEF Proceed

(* NextInLoop takes dates off only when no reading of theirs is left; the  *)
(* readings stay until they are overridden.                                *)
LEMMA NextInLoopKeepsReadings ==
  ASSUME TypeOK, NEW w \in Workers, NEW r \in BlockRequest, WithinDates(r), NextInLoop(w, r)
  PROVE  \/ pc'[w] = "overrideRow" /\ req'[w] = r
         \/ pc'[w] = "idle" /\ r.snapshot = {}
         \/ /\ pc'[w] = "insertBlocking" /\ req'[w].snapshot = r.snapshot
            /\ req'[w].dates = Rest(r) /\ WithinDates(req'[w])
            /\ req'[w].slot = OnDate(r.slot, req'[w].slot.date)
            /\ req'[w].slot.date \in Days
<1> USE DEF TypeOK
<1>1. CASE Goto(w, "overrideRow", r)
  BY <1>1, GotoLands
<1>2. CASE Rest(r) = {} /\ (\A x \in r.snapshot : x.slot.date # r.slot.date) /\ Refuse(w)
  <2>1. r.snapshot = {} BY <1>2 DEF WithinDates, Rest
  <2> QED BY <1>2, <2>1, RefuseRests
<1>3. ASSUME NEW d \in Rest(r), \A x \in r.snapshot : x.slot.date # r.slot.date,
             Goto(w, "insertBlocking", [r EXCEPT !.dates = Rest(r), !.slot = OnDate(@, d)])
      PROVE  /\ pc'[w] = "insertBlocking" /\ req'[w].snapshot = r.snapshot
             /\ req'[w].dates = Rest(r) /\ WithinDates(req'[w])
             /\ req'[w].slot = OnDate(r.slot, req'[w].slot.date)
             /\ req'[w].slot.date \in Days
  <2> DEFINE next == [r EXCEPT !.dates = Rest(r), !.slot = OnDate(@, d)]
  <2>1. pc'[w] = "insertBlocking" /\ req'[w] = next BY <1>3, GotoLands
  <2>2. next.snapshot = r.snapshot /\ next.dates = Rest(r) /\ next.slot = OnDate(r.slot, d)
    BY DEF BlockRequest
  <2>3. d \in Days /\ r.slot \in Slot BY DEF Rest, BlockRequest
  <2>4. next.slot.date = d BY <2>2, <2>3 DEF OnDate, Slot
  <2>5. WithinDates(next) BY <1>3, <2>2, <2>4 DEF WithinDates, Rest
  <2> HIDE DEF next
  <2> QED BY <2>1, <2>2, <2>3, <2>4, <2>5
<1> QED BY <1>1, <1>2, <1>3 DEF NextInLoop

(* The two statements after which the loop goes on. *)
LEMMA LoopAdvances ==
  ASSUME TypeOK, LoopDates, NEW w \in Workers, InsertBlocking(w) \/ NotifyOverride(w)
  PROVE  /\ pc[w] \in BlockLoop /\ req[w] \in BlockRequest /\ UNCHANGED <<reservations, newRes>>
         /\ \E r \in BlockRequest :
              /\ WithinDates(r) /\ NextInLoop(w, r)
              /\ r.slot = req[w].slot /\ r.dates = req[w].dates
              /\ r.snapshot = req[w].snapshot
<1>1. CASE InsertBlocking(w)
  <2>1. WithinDates(req[w])
    BY <1>1, InsertBlockingCase DEF LoopDates, BlockLoop, WithinDates
  <2> QED BY <1>1, <2>1, InsertBlockingCase DEF BlockLoop
<1>2. CASE NotifyOverride(w)
  <2> DEFINE r == [req[w] EXCEPT !.told = NoRow]
  <2>1. /\ pc[w] = "notifyOverride" /\ NextInLoop(w, r)
        /\ UNCHANGED <<reservations, newRes>>
    BY <1>2 DEF NotifyOverride, gaps
  <2>2. req[w] \in BlockRequest BY <2>1, RequestKind DEF TypeOK, BlockLoop
  <2>3. r \in BlockRequest BY <2>2 DEF BlockRequest
  <2>4. r.slot = req[w].slot /\ r.dates = req[w].dates /\ r.snapshot = req[w].snapshot
    BY <2>2 DEF BlockRequest
  <2>5. WithinDates(req[w]) BY <2>1 DEF LoopDates, BlockLoop, WithinDates
  <2>6. WithinDates(r) BY <2>4, <2>5 DEF WithinDates
  <2> HIDE DEF r
  <2> QED BY <2>1, <2>2, <2>3, <2>4, <2>6 DEF BlockLoop
<1> QED BY <1>1, <1>2

LEMMA OverrideCase ==
  ASSUME TypeOK, NEW w \in Workers, OverrideReservation(w)
  PROVE  /\ pc[w] = "overrideRow" /\ req[w] \in BlockRequest
         /\ pc'[w] = "notifyOverride" /\ UNCHANGED <<newRes, blockGap>>
         /\ \E x \in req[w].snapshot :
              /\ x.id \notin Confirmed' /\ Confirmed' \subseteq Confirmed
              /\ \A k \in Confirmed' : reservations'[k].slot = reservations[k].slot
              /\ req'[w].slot = req[w].slot /\ req'[w].dates = req[w].dates
              /\ req'[w].snapshot = req[w].snapshot \ {x}
<1> DEFINE r == req[w]
<1>1. pc[w] = "overrideRow" /\ UNCHANGED <<newRes, blockGap>>
  BY DEF OverrideReservation, gaps
<1>2. PICK x \in r.snapshot :
        /\ reservations' = [reservations EXCEPT ![x.id].status = "overridden"]
        /\ Goto(w, "notifyOverride", [r EXCEPT !.snapshot = @ \ {x}, !.told = x.id])
  BY DEF OverrideReservation
<1>3. r \in BlockRequest BY <1>1, RequestKind DEF TypeOK, BlockLoop
<1>4. pc'[w] = "notifyOverride" /\ req'[w] = [r EXCEPT !.snapshot = @ \ {x}, !.told = x.id]
  BY <1>2, GotoLands DEF TypeOK
<1>5. /\ req'[w].slot = r.slot /\ req'[w].dates = r.dates
      /\ req'[w].snapshot = r.snapshot \ {x}
  BY <1>3, <1>4 DEF BlockRequest
<1>6. /\ x.id \notin Confirmed' /\ Confirmed' \subseteq Confirmed
      /\ \A k \in Confirmed' : reservations'[k].slot = reservations[k].slot
  BY <1>2 DEF Confirmed, ReservationRow, TypeOK, TablesOK
<1> QED BY <1>1, <1>3, <1>4, <1>5, <1>6

LEMMA LoopDatesStep ==
  ASSUME TypeOK, LoopDates, NEW w \in Workers, Submit(w) \/ Proceed(w) \/ Die(w)
  PROVE  LoopDates'
<1> SUFFICES ASSUME NEW v \in Workers, InLoop(v)'
             PROVE  WithinDates(req'[v])
  BY DEF LoopDates, InLoop, WithinDates
<1>1. CASE v # w
  <2>1. pc'[v] = pc[v] /\ req'[v] = req[v] BY <1>1, OthersKept DEF KeepsOthers
  <2> QED BY <2>1 DEF LoopDates, InLoop, WithinDates
<1>2. CASE v = w
  <2> USE DEF TypeOK
  <2>1. CASE SubmitBlock(w)
    <3>1. PICK u \in Users, s \in Spaces, from \in Days, to \in Days, i \in Intervals :
            /\ from <= to
            /\ Goto(w, "snapshot",
                    [op |-> "block", user |-> u,
                     slot |-> [space |-> s, date |-> from, start |-> i.start, end |-> i.end],
                     dates |-> from .. to, snapshot |-> {}, told |-> NoRow])
      BY <2>1 DEF SubmitBlock
    <3>2. from \in Int /\ to \in Int BY DaysAreNat
    <3>3. from \in from .. to BY <3>1, <3>2
    <3>4. req'[w] = [op |-> "block", user |-> u,
                     slot |-> [space |-> s, date |-> from, start |-> i.start, end |-> i.end],
                     dates |-> from .. to, snapshot |-> {}, told |-> NoRow]
      BY <3>1, GotoLands
    <3>5. req'[w].slot.date = from /\ req'[w].dates = from .. to /\ req'[w].snapshot = {}
      BY <3>4
    <3> QED BY <1>2, <3>3, <3>5 DEF WithinDates
  <2>2. CASE TakeSnapshot(w)
    <3> DEFINE r == req[w]
               taken == {[id |-> k, slot |-> reservations[k].slot] : k \in Collisions(r)}
    <3>1. pc[w] = "snapshot" /\ Goto(w, "insertBlocking", [r EXCEPT !.snapshot = taken])
      BY <2>2 DEF TakeSnapshot
    <3>2. r \in BlockRequest BY <3>1, RequestKind
    <3>3. req'[w] = [r EXCEPT !.snapshot = taken] BY <3>1, GotoLands
    <3>4. req'[w].slot = r.slot /\ req'[w].dates = r.dates /\ req'[w].snapshot = taken
      BY <3>2, <3>3 DEF BlockRequest
    <3>5. r.slot.date \in r.dates BY <3>1 DEF LoopDates
    <3>6. ASSUME NEW k \in Collisions(r) PROVE reservations[k].slot.date \in r.dates
      <4>1. PICK d \in r.dates : Conflict(OnDate(r.slot, d), reservations[k].slot)
        BY DEF Collisions
      <4>2. OnDate(r.slot, d).date = d BY <3>2 DEF BlockRequest, OnDate, Slot
      <4> QED BY <4>1, <4>2 DEF Conflict
    <3>7. \A x \in taken : x.slot.date \in r.dates BY <3>6
    <3> HIDE DEF taken
    <3> QED BY <1>2, <3>4, <3>5, <3>7 DEF WithinDates
  <2>3. CASE InsertBlocking(w) \/ NotifyOverride(w)
    BY <1>2, <2>3, LoopAdvances, NextInLoopKeepsReadings DEF InLoop, BlockLoop
  <2>4. CASE OverrideReservation(w)
    <3>1. WithinDates(req[w]) BY <2>4, OverrideCase DEF LoopDates, BlockLoop, WithinDates
    <3> QED BY <1>2, <2>4, <3>1, OverrideCase DEF WithinDates
  <2> QED BY <1>2, <2>1, <2>2, <2>3, <2>4, LoopComesFrom
<1> QED BY <1>1, <1>2

(* Whatever a blocking in progress will still cover is in its snapshot, or *)
(* was written since.                                                      *)
LEMMA SnapshotCoversStep ==
  ASSUME TypeOK, TargetsExist, LoopDates, SnapshotCovers,
         NEW w \in Workers, Submit(w) \/ Proceed(w) \/ Die(w)
  PROVE  SnapshotCovers'
<1> SUFFICES ASSUME NEW v \in Workers, NEW d \in DatesToBlock(v)',
                    NEW k \in ReservedOver(OnDate(req[v].slot, d))'
             PROVE  k \in newRes'[v] \/ k \in PendingOverrides(v)'
  BY DEF SnapshotCovers
<1>0. pc'[v] \in BlockLoop BY DEF DatesToBlock, BlockLoop
<1>k. k \in Confirmed' /\ Conflict(OnDate(req'[v].slot, d), reservations'[k].slot)
  BY DEF ReservedOver, Conflict
<1>1. CASE v # w
  <2>1. pc'[v] = pc[v] /\ req'[v] = req[v] BY <1>1, OthersKept DEF KeepsOthers
  <2>2. DatesToBlock(v)' = DatesToBlock(v) /\ PendingOverrides(v)' = PendingOverrides(v)
    BY <2>1 DEF DatesToBlock, PendingOverrides, Rest
  <2>3. Watching(v) BY <1>0, <2>1 DEF Watching
  <2>s. PICK slot : slot = OnDate(req[v].slot, d) OBVIOUS
  <2>4. ReservedOver(slot) \subseteq newRes[v] \union PendingOverrides(v)
    BY <2>2, <2>s DEF SnapshotCovers
  <2>5. k \in ReservedOver(slot)' BY <1>k, <2>1, <2>s DEF ReservedOver, Conflict
  <2>6. \E new \in SUBSET newRes'[v] :
           /\ newRes[v] \subseteq newRes'[v]
           /\ ReservedOver(slot)' \subseteq ReservedOver(slot) \union new
    BY <1>1, <2>3, OthersWatched
  <2> QED BY <2>2, <2>4, <2>5, <2>6
<1>2. CASE v = w
  <2>1. ~SubmitBlock(w) \/ pc'[w] # "snapshot" BY <1>0, <1>2 DEF BlockLoop
  <2>2. CASE TakeSnapshot(w)
    <3> DEFINE r == req[w]
               taken == {[id |-> j, slot |-> reservations[j].slot] : j \in Collisions(r)}
    <3>1. /\ pc[w] = "snapshot" /\ Goto(w, "insertBlocking", [r EXCEPT !.snapshot = taken])
          /\ UNCHANGED reservations
      BY <2>2 DEF TakeSnapshot, tables
    <3>2. r \in BlockRequest BY <3>1, RequestKind DEF TypeOK
    <3>3. pc'[w] = "insertBlocking" /\ req'[w] = [r EXCEPT !.snapshot = taken]
      BY <3>1, GotoLands DEF TypeOK
    <3>4. req'[w].slot = r.slot /\ req'[w].dates = r.dates /\ req'[w].snapshot = taken
      BY <3>2, <3>3 DEF BlockRequest
    <3>5. d \in r.dates BY <1>2, <3>3, <3>4 DEF DatesToBlock
    <3>6. k \in Confirmed /\ Conflict(OnDate(r.slot, d), reservations[k].slot)
      BY <1>k, <1>2, <3>1, <3>4 DEF Confirmed
    <3>7. k \in Collisions(r) BY <3>5, <3>6 DEF Collisions
    <3>8. [id |-> k, slot |-> reservations[k].slot] \in taken BY <3>7
    <3> HIDE DEF taken
    <3>9. k \in {x.id : x \in req'[w].snapshot} BY <3>4, <3>8
    <3> QED BY <1>0, <1>2, <3>9 DEF PendingOverrides
  <2>3. CASE InsertBlocking(w) \/ NotifyOverride(w)
    <3>1. PICK r \in BlockRequest :
            /\ WithinDates(r) /\ NextInLoop(w, r)
            /\ r.slot = req[w].slot /\ r.dates = req[w].dates
            /\ r.snapshot = req[w].snapshot
      BY <2>3, LoopAdvances
    <3>2. /\ pc[w] \in BlockLoop /\ UNCHANGED <<reservations, newRes>>
      BY <2>3, LoopAdvances
    <3>3. Rest(r) = Rest(req[w]) /\ Rest(r) \subseteq req[w].dates BY <3>1 DEF Rest
    <3>4. Rest(r) \subseteq DatesToBlock(w)
      BY <2>3, <3>2, <3>3 DEF DatesToBlock, InsertBlocking, NotifyOverride
    <3>5. /\ d \in Rest(r) /\ OnDate(req'[w].slot, d) = OnDate(req[w].slot, d)
          /\ req'[w].snapshot = req[w].snapshot
      <4>1. CASE pc'[w] = "overrideRow" /\ req'[w] = r
        BY <1>2, <3>1, <4>1 DEF DatesToBlock
      <4>2. CASE /\ pc'[w] = "insertBlocking" /\ req'[w].snapshot = r.snapshot
                 /\ req'[w].dates = Rest(r)
                 /\ req'[w].slot = OnDate(r.slot, req'[w].slot.date)
                 /\ req'[w].slot.date \in Days
        <5>1. d \in Rest(r) BY <1>2, <4>2 DEF DatesToBlock
        <5>2. d \in Days /\ r.slot \in Slot BY <5>1 DEF Rest, BlockRequest
        <5>3. OnDate(req'[w].slot, d) = OnDate(r.slot, d)
          BY <4>2, <5>2, OnDateTwice
        <5> QED BY <3>1, <4>2, <5>1, <5>3
      <4> QED BY <1>0, <1>2, <3>1, <4>1, <4>2, NextInLoopKeepsReadings DEF BlockLoop
    <3>6. k \in ReservedOver(OnDate(req[w].slot, d))
      BY <1>k, <1>2, <3>2, <3>5 DEF ReservedOver, Confirmed
    <3>7. k \in newRes[w] \/ k \in PendingOverrides(w)
      BY <3>4, <3>5, <3>6 DEF SnapshotCovers
    <3>8. PendingOverrides(w)' = PendingOverrides(w)
      BY <1>0, <1>2, <3>2, <3>5 DEF PendingOverrides
    <3> QED BY <1>2, <3>2, <3>7, <3>8
  <2>4. CASE OverrideReservation(w)
    <3>1. PICK x \in req[w].snapshot :
            /\ x.id \notin Confirmed' /\ Confirmed' \subseteq Confirmed
            /\ \A j \in Confirmed' : reservations'[j].slot = reservations[j].slot
            /\ req'[w].slot = req[w].slot /\ req'[w].dates = req[w].dates
            /\ req'[w].snapshot = req[w].snapshot \ {x}
      BY <2>4, OverrideCase
    <3>2. pc[w] = "overrideRow" /\ pc'[w] = "notifyOverride" /\ UNCHANGED newRes
      BY <2>4, OverrideCase
    <3>3. d \in DatesToBlock(w) BY <1>2, <3>1, <3>2 DEF DatesToBlock, Rest
    <3>4. k \in ReservedOver(OnDate(req[w].slot, d))
      BY <1>k, <1>2, <3>1 DEF ReservedOver
    <3>5. k \in newRes[w] \/ k \in PendingOverrides(w)
      BY <3>3, <3>4 DEF SnapshotCovers
    <3>6. k # x.id BY <1>k, <3>1
    <3>7. k \in PendingOverrides(w) => k \in PendingOverrides(w)'
      BY <1>0, <1>2, <3>1, <3>2, <3>6 DEF PendingOverrides, BlockLoop
    <3> QED BY <1>2, <3>2, <3>5, <3>7
  <2> QED BY <1>0, <1>2, <2>1, <2>2, <2>3, <2>4, LoopComesFrom DEF InLoop
<1> QED BY <1>1, <1>2

-------------------------------------------------------------------------------
(* Reservations under a blocking. *)

(* A reservation stays pending until its loop overrides it, or dies.       *)
LEMMA PendingKept ==
  ASSUME TypeOK, LoopDates, NEW w \in Workers, Submit(w) \/ Proceed(w),
         NEW k \in Confirmed', PendingOverride(k)
  PROVE  PendingOverride(k)'
<1>1. PICK v \in Workers : k \in PendingOverrides(v) BY DEF PendingOverride
<1>2. pc[v] \in BlockLoop /\ \E x \in req[v].snapshot : x.id = k
  BY <1>1 DEF PendingOverrides
<1>3. SUFFICES pc'[v] \in BlockLoop /\ \E x \in req'[v].snapshot : x.id = k
  BY <1>3 DEF PendingOverride, PendingOverrides
<1>4. CASE v # w
  <2>1. pc'[v] = pc[v] /\ req'[v] = req[v] BY <1>4, OthersKept DEF KeepsOthers
  <2> QED BY <1>2, <2>1
<1>5. CASE v = w
  <2>1. InsertBlocking(w) \/ OverrideReservation(w) \/ NotifyOverride(w)
    BY <1>2, <1>5
       DEF Submit, SubmitCreate, SubmitRecurring, SubmitUpdate, SubmitCancel,
           SubmitCancelSeries, SubmitBlock, SubmitUnblock, Proceed, CheckReservations,
           CheckBlockings, CountActive, InsertReservation, UpdateReservation,
           CancelReservation, CancelSeriesRows, TakeSnapshot, RemoveBlocking, NotifyParty,
           BlockLoop
  <2>2. CASE InsertBlocking(w) \/ NotifyOverride(w)
    <3>1. PICK r \in BlockRequest :
            WithinDates(r) /\ NextInLoop(w, r) /\ r.snapshot = req[w].snapshot
      BY <2>2, LoopAdvances
    <3>2. r.snapshot # {} BY <1>2, <1>5, <3>1
    <3> QED BY <1>2, <1>5, <3>1, <3>2, NextInLoopKeepsReadings DEF BlockLoop
  <2>3. CASE OverrideReservation(w)
    BY <1>2, <1>5, <2>3, OverrideCase DEF BlockLoop
  <2> QED BY <2>1, <2>2, <2>3
<1> QED BY <1>4, <1>5

LEMMA GapKept ==
  ASSUME NEW w \in Workers, Submit(w) \/ Proceed(w), ~InsertReservation(w),
         ~UpdateReservation(w), ~InsertBlocking(w)
  PROVE  blockGap' = blockGap
<1>1. CASE Submit(w)
  BY <1>1 DEF Submit, SubmitCreate, SubmitRecurring, SubmitUpdate, SubmitCancel,
              SubmitCancelSeries, SubmitBlock, SubmitUnblock, gaps
<1>2. CASE CheckBlockings(w) \/ CountActive(w)
  BY Zenon, <1>2 DEF CheckBlockings, CountActive
<1>3. CASE CheckReservations(w) \/ TakeSnapshot(w)
  BY <1>3 DEF CheckReservations, TakeSnapshot
<1>4. CASE \/ CancelReservation(w) \/ CancelSeriesRows(w) \/ RemoveBlocking(w)
           \/ OverrideReservation(w) \/ NotifyOverride(w) \/ NotifyParty(w)
  BY <1>4 DEF CancelReservation, CancelSeriesRows, RemoveBlocking, OverrideReservation,
              NotifyOverride, NotifyParty, gaps
<1> QED BY <1>1, <1>2, <1>3, <1>4 DEF Proceed

(* What was under a blocking before the step and still is.                 *)
LEMMA StillUnder ==
  ASSUME UnderBlockingOnlyByRace, NEW k \in Confirmed, NEW b \in Active,
         Conflict(reservations[k].slot, blockings[b].slot)
  PROVE  <<k, b>> \in blockGap \/ PendingOverride(k)
BY DEF UnderBlockingOnlyByRace, BlockedOver

LEMMA UnderBlockingStep ==
  ASSUME TypeOK, TypeOK', TargetsExist, EditedRows, CheckedBlockings, LoopDates,
         SnapshotCovers, UnderBlockingOnlyByRace,
         NEW w \in Workers, Submit(w) \/ Proceed(w) \/ Die(w)
  PROVE  UnderBlockingOnlyByRace'
<1> SUFFICES ASSUME NEW k \in Confirmed', NEW b \in Active',
                    Conflict(reservations'[k].slot, blockings'[b].slot)
             PROVE  <<k, b>> \in blockGap' \/ PendingOverride(k)'
  BY DEF UnderBlockingOnlyByRace, BlockedOver, Conflict
<1>1. k \in DOMAIN reservations' /\ k \in ReservationIds /\ k # NoRow
      /\ reservations'[k].status = "confirmed"
  BY RowIdsNotNull DEF Confirmed, TypeOK, TablesOK
<1>2. ASSUME k \in Confirmed, reservations'[k].slot = reservations[k].slot,
             b \in Active, blockings'[b].slot = blockings[b].slot
      PROVE  <<k, b>> \in blockGap \/ PendingOverride(k)
  BY <1>2, StillUnder
<1>3. CASE Die(w)
  <2>1. /\ UNCHANGED <<reservations, blockings>>
        /\ blockGap' = blockGap \union
             {p \in PendingOverrides(w) \X Active :
                p[1] \in Confirmed /\ p[2] \in BlockedOver(reservations[p[1]].slot)}
    BY <1>3 DEF Die, tables
  <2>2. k \in Confirmed /\ b \in Active BY <2>1 DEF Confirmed, Active
  <2>3. <<k, b>> \in blockGap \/ PendingOverride(k) BY <1>2, <2>1, <2>2
  <2>4. ASSUME NEW v \in Workers, k \in PendingOverrides(v)
        PROVE  <<k, b>> \in blockGap' \/ PendingOverride(k)'
    <3>1. CASE v = w
      <4>1. b \in BlockedOver(reservations[k].slot) BY <2>1, <2>2 DEF BlockedOver
      <4> QED BY <2>1, <2>2, <2>4, <3>1, <4>1
    <3>2. CASE v # w
      <4>1. pc'[v] = pc[v] /\ req'[v] = req[v] BY <3>2, OthersKept DEF KeepsOthers
      <4> QED BY <2>4, <4>1 DEF PendingOverride, PendingOverrides
    <3> QED BY <3>1, <3>2
  <2> QED BY <2>1, <2>3, <2>4 DEF PendingOverride
<1>4. CASE InsertReservation(w)
  <2> DEFINE slot == req[w].slot
  <2>1. UNCHANGED blockings /\ Proceed(w)
    BY <1>4 DEF InsertReservation, Proceed
  <2>2. b \in Active /\ blockings'[b].slot = blockings[b].slot BY <2>1 DEF Active
  <2>3. CASE UNCHANGED <<reservations, doubleGap, blockGap>>
    BY <1>2, <2>1, <2>2, <2>3, PendingKept DEF Confirmed
  <2>4. ASSUME NEW id \in ReservationIds \ DOMAIN reservations,
               DOMAIN reservations' = DOMAIN reservations \union {id},
               \A j \in DOMAIN reservations : reservations'[j] = reservations[j],
               reservations'[id].slot = slot,
               blockGap' = blockGap \union RacedBlockings(w, id, slot)
        PROVE  <<k, b>> \in blockGap' \/ PendingOverride(k)'
    <3>1. CASE k = id
      <4>1. b \in BlockedOver(slot) BY <2>2, <2>4, <3>1 DEF BlockedOver
      <4>2. BlockedOver(slot) \subseteq newBlk[w]
        BY <1>4 DEF CheckedBlockings, InsertReservation
      <4> QED BY <2>4, <3>1, <4>1, <4>2 DEF RacedBlockings
    <3>2. CASE k # id
      <4>1. k \in Confirmed /\ reservations'[k].slot = reservations[k].slot
        BY <1>1, <2>4, <3>2 DEF Confirmed
      <4> QED BY <1>2, <2>1, <2>2, <2>4, <4>1, PendingKept
    <3> QED BY <3>1, <3>2
  <2> QED BY <1>4, <2>3, <2>4, InsertCase
<1>5. CASE UpdateReservation(w)
  <2> DEFINE slot == req[w].slot
             id == req[w].target
  <2>1. UNCHANGED blockings /\ Proceed(w)
    BY <1>5 DEF UpdateReservation, Proceed
  <2>2. b \in Active /\ blockings'[b].slot = blockings[b].slot BY <2>1 DEF Active
  <2>3. CASE UNCHANGED <<reservations, doubleGap, blockGap>>
    BY <1>2, <2>1, <2>2, <2>3, PendingKept DEF Confirmed
  <2>4. CASE ~UNCHANGED <<reservations, doubleGap, blockGap>>
    <3>1. /\ DOMAIN reservations' = DOMAIN reservations
          /\ \A j \in DOMAIN reservations \ {id} : reservations'[j] = reservations[j]
          /\ reservations'[id].slot = slot
          /\ reservations'[id].status = reservations[id].status
          /\ pc[w] = "updateRow"
      BY <1>5, <2>4, UpdateCase
    <3>2. k \in Confirmed /\ (k # id => reservations'[k].slot = reservations[k].slot)
      BY <1>1, <3>1 DEF Confirmed
    <3>3. PendingOverride(k) => PendingOverride(k)'
      BY <2>1, PendingKept
    <3>4. k = id => b \in BlockedOver(slot) BY <2>2, <3>1 DEF BlockedOver
    <3>5. CASE req[w].moved
      <4>1. blockGap' = {p \in blockGap : p[1] # id} \union RacedBlockings(w, id, slot)
        BY <1>5, <2>4, <3>5, UpdateCase
      <4>2. BlockedOver(slot) \subseteq newBlk[w]
        BY <3>1, <3>5 DEF CheckedBlockings
      <4>3. CASE k = id
        BY <3>4, <4>1, <4>2, <4>3 DEF RacedBlockings
      <4>4. CASE k # id
        <5>1. <<k, b>> \in blockGap \/ PendingOverride(k) BY <1>2, <2>2, <3>2, <4>4
        <5> QED BY <3>3, <4>1, <4>4, <5>1
      <4> QED BY <4>3, <4>4
    <3>6. CASE ~req[w].moved /\ id \in newRes[w]
      <4>1. blockGap' = blockGap \union {<<id, x>> : x \in BlockedOver(slot)}
        BY <1>5, <2>4, <3>6, UpdateCase
      <4>2. CASE k = id BY <3>4, <4>1, <4>2
      <4>3. CASE k # id
        <5>1. <<k, b>> \in blockGap \/ PendingOverride(k) BY <1>2, <2>2, <3>2, <4>3
        <5> QED BY <3>3, <4>1, <5>1
      <4> QED BY <4>2, <4>3
    <3>7. CASE ~req[w].moved /\ id \notin newRes[w]
      <4>1. UNCHANGED blockGap BY <1>5, <2>4, <3>7, UpdateCase
      <4>2. reservations[id].slot = slot BY <3>1, <3>7 DEF EditedRows
      <4>3. reservations'[k].slot = reservations[k].slot BY <3>1, <3>2, <4>2
      <4>4. <<k, b>> \in blockGap \/ PendingOverride(k) BY <1>2, <2>2, <3>2, <4>3
      <4> QED BY <3>3, <4>1, <4>4
    <3> QED BY <3>5, <3>6, <3>7
  <2> QED BY <2>3, <2>4
<1>6. CASE InsertBlocking(w)
  <2> DEFINE slot == req[w].slot
  <2>1. /\ pc[w] = "insertBlocking" /\ req[w] \in BlockRequest
        /\ UNCHANGED reservations /\ Proceed(w)
    BY <1>6, InsertBlockingCase DEF Proceed
  <2>2. PICK id \in BlockingIds :
          /\ \A x \in Active' \ {id} : x \in Active /\ blockings'[x] = blockings[x]
          /\ blockings'[id].slot = slot
          /\ blockGap' = blockGap \union
               {<<x, id>> : x \in ReservedOver(slot) \intersect newRes[w]}
    BY <1>6, InsertBlockingCase
  <2>3. k \in Confirmed /\ reservations'[k].slot = reservations[k].slot
    BY <2>1 DEF Confirmed
  <2>5. PendingOverride(k) => PendingOverride(k)'
    BY <2>1, PendingKept
  <2>6. CASE b # id
    <3>1. b \in Active /\ blockings'[b].slot = blockings[b].slot BY <2>2, <2>6
    <3> QED BY <1>2, <2>2, <2>3, <2>5, <3>1
  <2>7. CASE b = id
    <3>1. slot \in Slot /\ slot.date \in req[w].dates /\ slot.date \in Days
      BY <2>1 DEF LoopDates, BlockLoop, BlockRequest
    <3>2. reservations[k].slot \in Slot BY <2>3, RowsWellTyped DEF Confirmed
    <3>3. Conflict(slot, reservations[k].slot)
      BY <2>2, <2>3, <2>7, <3>1, <3>2, ConflictSymmetric
    <3>4. k \in ReservedOver(slot) BY <2>3, <3>3 DEF ReservedOver
    <3>5. slot.date \in DatesToBlock(w) /\ OnDate(slot, slot.date) = slot
      BY <2>1, <3>1, OnDateTwice DEF DatesToBlock
    <3>6. k \in newRes[w] \/ k \in PendingOverrides(w)
      BY <3>4, <3>5 DEF SnapshotCovers
    <3> QED BY <2>2, <2>5, <2>7, <3>4, <3>6 DEF PendingOverride
  <2> QED BY <2>6, <2>7
<1>7. CASE /\ ~Die(w) /\ ~InsertReservation(w) /\ ~UpdateReservation(w)
           /\ ~InsertBlocking(w)
  <2>1. Stable(NoRow) /\ BlockStable /\ blockGap' = blockGap
    BY <1>7, QuietStep, BlockingsKept, GapKept
  <2>2. k \in Confirmed /\ reservations'[k].slot = reservations[k].slot
    BY <1>1, <2>1 DEF Stable, Confirmed
  <2>3. b \in Active /\ blockings'[b].slot = blockings[b].slot BY <2>1 DEF BlockStable
  <2> QED BY <1>2, <1>7, <2>1, <2>2, <2>3, PendingKept
<1> QED BY <1>3, <1>4, <1>5, <1>6, <1>7

-------------------------------------------------------------------------------
(* The blockings' side, put together. *)

BlockingInvariant ==
  /\ ReservationInvariant
  /\ CheckedBlockings /\ LoopDates /\ SnapshotCovers
  /\ UnderBlockingOnlyByRace

LEMMA BlockingInit == Init => BlockingInvariant
<1> SUFFICES ASSUME Init PROVE BlockingInvariant OBVIOUS
<1>1. Confirmed = {} BY DEF Init, Confirmed
<1>2. \A w \in Workers : pc[w] = "idle" BY DEF Init
<1>3. CheckedBlockings BY <1>2 DEF CheckedBlockings
<1>4. LoopDates /\ SnapshotCovers
  BY <1>2 DEF LoopDates, SnapshotCovers, DatesToBlock, BlockLoop
<1>5. UnderBlockingOnlyByRace BY <1>1 DEF UnderBlockingOnlyByRace
<1> QED BY <1>3, <1>4, <1>5, ReservationInit DEF BlockingInvariant

LEMMA BlockingStep == BlockingInvariant /\ [Next]_vars => BlockingInvariant'
<1> SUFFICES ASSUME BlockingInvariant, [Next]_vars PROVE BlockingInvariant' OBVIOUS
<1>1. ReservationInvariant' BY ReservationStep DEF BlockingInvariant
<1>2. CASE UNCHANGED vars \/ Tick
  <2>1. UNCHANGED <<reservations, blockings, pc, req, newRes, newBlk, blockGap>>
    BY <1>2 DEF Tick, vars, tables, control, gaps
  <2>2. CheckedBlockings' /\ LoopDates'
    BY <2>1 DEF BlockingInvariant, CheckedBlockings, LoopDates, BlockedOver, Active
  <2>3. SnapshotCovers'
    BY <2>1 DEF BlockingInvariant, SnapshotCovers, DatesToBlock, PendingOverrides,
                ReservedOver, Confirmed, Rest
  <2>4. UnderBlockingOnlyByRace'
    BY <2>1 DEF BlockingInvariant, UnderBlockingOnlyByRace, PendingOverride,
                PendingOverrides, BlockedOver, Active, Confirmed
  <2> QED BY <1>1, <2>2, <2>3, <2>4 DEF BlockingInvariant
<1>3. ASSUME NEW w \in Workers, Submit(w) \/ Proceed(w) \/ Die(w)
      PROVE  BlockingInvariant'
  BY <1>1, <1>3, CheckedBlockingsStep, LoopDatesStep, SnapshotCoversStep, UnderBlockingStep
     DEF BlockingInvariant, ReservationInvariant
<1> QED BY <1>2, <1>3 DEF Next, RefuseRequest

(* The override loop of BlockingService is worth this, for any number of   *)
(* requests, days and rows: a reservation that stays confirmed under an    *)
(* active blocking was written while the blocking was, or is one the loop  *)
(* has not reached, or had not reached when its request died.              *)
THEOREM UnderBlockingsAreRaces == Spec => []UnderBlockingOnlyByRace
<1>1. BlockingInvariant => UnderBlockingOnlyByRace BY DEF BlockingInvariant
<1> QED BY <1>1, BlockingInit, BlockingStep, PTL DEF Spec

-------------------------------------------------------------------------------
(* One request at a time: a single worker whose requests do not die.  Then *)
(* nothing is ever written between a check and the write it is for, and    *)
(* what the loop of a blocking remembers stays true: the days it has left  *)
(* are free of blockings, its readings are confirmed rows that collide     *)
(* with it, and those of the current day lie under the blocking it has     *)
(* just inserted.                                                          *)

Serial == MaxFailures = 0 /\ \E w : Workers = {w}

NothingRaced == \A w \in Workers : newRes[w] = {} /\ newBlk[w] = {}
NoGap == blockGap = {}

CarriesSlot ==
  {"checkReservations", "checkBlockings", "countActive", "insert", "updateRow", "snapshot"}
    \union BlockLoop
SlotsAreAsked == \A w \in Workers : pc[w] \in CarriesSlot => req[w].slot \in AskedSlots

DaysLeft(label, r) == IF label \in {"snapshot", "insertBlocking"} THEN r.dates ELSE Rest(r)
DaysAreFree ==
  \A w \in Workers : InLoop(w) =>
    \A d \in DaysLeft(pc[w], req[w]) : BlockedOver(OnDate(req[w].slot, d)) = {}
IsCollision(x, r) ==
  /\ x.id \in Confirmed /\ reservations[x.id].slot = x.slot
  /\ Conflict(OnDate(r.slot, x.slot.date), x.slot)
SnapshotIsTrue ==
  \A w \in Workers : InLoop(w) => \A x \in req[w].snapshot : IsCollision(x, req[w])
DayIsBlocked ==
  \A w \in Workers : pc[w] \in {"overrideRow", "notifyOverride"} =>
    \E b \in Active : blockings[b].slot = req[w].slot

SerialInvariant ==
  /\ BlockingInvariant /\ NothingRaced /\ NoGap /\ SlotsAreAsked
  /\ DaysAreFree /\ SnapshotIsTrue /\ DayIsBlocked

LEMMA NoRequestDies ==
  ASSUME Serial, TypeOK, NEW w
  PROVE  ~Die(w)
BY DEF Serial, TypeOK, HistoryOK, Die

LEMMA NothingRacedStep ==
  ASSUME Serial, TypeOK, TargetsExist, NothingRaced, NoGap,
         NEW w \in Workers, Submit(w) \/ Proceed(w) \/ Die(w)
  PROVE  NothingRaced' /\ NoGap'
<1> USE DEF TypeOK, HistoryOK
<1>1. Workers = {w} BY DEF Serial
<1>2. newRes[w] = {} /\ newBlk[w] = {} BY DEF NothingRaced
<1>3. ASSUME UNCHANGED <<newRes, newBlk>> \/ Forget(w)
             \/ (UNCHANGED newRes /\ newBlk' = [newBlk EXCEPT ![w] = {}])
             \/ (\E id : WroteReservation(w, id)) \/ (\E id : WroteBlocking(w, id))
      PROVE  NothingRaced'
  BY <1>1, <1>2, <1>3 DEF NothingRaced, Forget, WroteReservation, WroteBlocking
<1>4. CASE Submit(w)
  BY <1>3, <1>4 DEF Submit, SubmitCreate, SubmitRecurring, SubmitUpdate, SubmitCancel,
                SubmitCancelSeries, SubmitBlock, SubmitUnblock, gaps, NoGap
<1>5. CASE CheckReservations(w) \/ TakeSnapshot(w)
  BY <1>3, <1>5 DEF CheckReservations, TakeSnapshot, NoGap
<1>6. CASE CheckBlockings(w) \/ CountActive(w)
  <2>1. blockGap' = blockGap BY Zenon, <1>6 DEF CheckBlockings, CountActive
  <2>2. \/ UNCHANGED <<newRes, newBlk>> \/ Forget(w)
        \/ UNCHANGED newRes /\ newBlk' = [newBlk EXCEPT ![w] = {}]
    BY Zenon, <1>6 DEF CheckBlockings, CountActive
  <2> QED BY <1>3, <2>1, <2>2 DEF NoGap
<1>7. CASE InsertReservation(w)
  <2>1. CASE UNCHANGED blockGap /\ (Forget(w) \/ \E id : WroteReservation(w, id))
    BY <1>3, <2>1 DEF NoGap
  <2>2. CASE \E id : /\ WroteReservation(w, id)
                     /\ blockGap' = blockGap \union RacedBlockings(w, id, req[w].slot)
    BY <1>2, <1>3, <2>2 DEF NoGap, RacedBlockings
  <2> QED BY <1>7, <2>1, <2>2 DEF InsertReservation
<1>8. CASE UpdateReservation(w)
  <2>1. req[w].target \notin newRes[w] BY <1>2
  <2>2. RacedBlockings(w, req[w].target, req[w].slot) = {} BY <1>2 DEF RacedBlockings
  <2>3. Forget(w) \/ WroteReservation(w, req[w].target) BY <1>8 DEF UpdateReservation
  <2>4. blockGap' \subseteq blockGap BY <1>8, <2>1, <2>2, UpdateCase
  <2> QED BY <1>3, <2>3, <2>4 DEF NoGap
<1>9. CASE InsertBlocking(w)
  <2>1. \E id : /\ WroteBlocking(w, id)
                /\ blockGap' = blockGap \union
                     {<<k, id>> : k \in ReservedOver(req[w].slot) \intersect newRes[w]}
    BY <1>9, InsertBlockingCase
  <2> QED BY <1>2, <1>3, <2>1 DEF NoGap
<1>10. CASE \/ CancelReservation(w) \/ CancelSeriesRows(w) \/ RemoveBlocking(w)
            \/ OverrideReservation(w) \/ NotifyOverride(w) \/ NotifyParty(w)
  BY <1>3, <1>10 DEF CancelReservation, CancelSeriesRows, RemoveBlocking, OverrideReservation,
                NotifyOverride, NotifyParty, gaps, NoGap
<1> QED BY <1>4, <1>5, <1>6, <1>7, <1>8, <1>9, <1>10, NoRequestDies DEF Proceed

(* The times of a request stay those it was made with.                     *)
LEMMA AskedOnAnyDay ==
  ASSUME NEW slot \in AskedSlots, NEW d \in Days
  PROVE  OnDate(slot, d) \in AskedSlots
BY DEF AskedSlots, Slot, OnDate

LEMMA NextDateAsked ==
  ASSUME TypeOK, NEW w \in Workers, req[w] \in CreateRequest, req[w].slot \in AskedSlots,
         NEW created, NextDate(w, created)
  PROVE  pc'[w] \in CarriesSlot => req'[w].slot \in AskedSlots
<1> USE DEF TypeOK
<1> DEFINE r == req[w]
<1>1. ASSUME NEW tail, Finish(w, tail) PROVE pc'[w] \notin CarriesSlot
  BY <1>1, FinishRests DEF CarriesSlot, BlockLoop
<1>2. ASSUME NEW d \in Rest(r),
             Goto(w, "checkReservations",
                  [r EXCEPT !.dates = Rest(r), !.slot = OnDate(@, d), !.created = created])
      PROVE  req'[w].slot \in AskedSlots
  <2> DEFINE next == [r EXCEPT !.dates = Rest(r), !.slot = OnDate(@, d), !.created = created]
  <2>1. req'[w] = next BY <1>2, GotoLands
  <2>2. next.slot = OnDate(r.slot, d) /\ d \in Days BY DEF CreateRequest, Rest
  <2> HIDE DEF next
  <2> QED BY <2>1, <2>2, AskedOnAnyDay
<1> QED BY <1>1, <1>2 DEF NextDate

LEMMA SlotsAreAskedStep ==
  ASSUME TypeOK, SlotsAreAsked, LoopDates, NEW w \in Workers, Submit(w) \/ Proceed(w) \/ Die(w)
  PROVE  SlotsAreAsked'
<1> USE DEF TypeOK
<1> SUFFICES ASSUME pc'[w] \in CarriesSlot PROVE req'[w].slot \in AskedSlots
  BY OthersKept DEF SlotsAreAsked, KeepsOthers
<1>1. Starts \subseteq Time /\ Ends \subseteq Time BY BookingAssumption DEF Starts, Ends, Interval
<1>2. \A i \in Intervals : i.start \in Starts /\ i.end \in Ends BY DEF Starts, Ends
<1>3. ASSUME NEW tail, Finish(w, tail) PROVE FALSE
  BY <1>3, FinishRests DEF CarriesSlot, BlockLoop
<1>4. ASSUME Unavailable(w), pc[w] \in {"checkReservations", "checkBlockings", "insert"}
      PROVE  req'[w].slot \in AskedSlots
  <2>1. req[w].slot \in AskedSlots BY <1>4 DEF SlotsAreAsked, CarriesSlot
  <2>2. CASE req[w].op = "recurring"
    <3>1. req[w] \in CreateRequest BY <1>4, <2>2, RequestKind DEF UpdateRequest
    <3> QED BY <1>4, <2>1, <2>2, <3>1, NextDateAsked DEF Unavailable
  <2>3. CASE req[w].op # "recurring" BY <1>3, <1>4, <2>3 DEF Unavailable, Refuse
  <2> QED BY <2>2, <2>3
<1>5. CASE Submit(w)
  <2>1. CASE SubmitCreate(w)
    <3> DEFINE slot(s, d, i) == [space |-> s, date |-> d, start |-> i.start, end |-> i.end]
    <3>1. PICK s \in Spaces, d \in Days, i \in Intervals :
            \E request : Goto(w, "checkReservations", request) /\ request.slot = slot(s, d, i)
      BY <2>1 DEF SubmitCreate
    <3>2. slot(s, d, i) \in AskedSlots BY <1>1, <1>2 DEF AskedSlots, Slot
    <3> QED BY <3>1, <3>2, GotoLands
  <2>2. CASE SubmitRecurring(w)
    <3> DEFINE slot(s, d, i) == [space |-> s, date |-> d, start |-> i.start, end |-> i.end]
    <3>1. PICK s \in Spaces, d \in Days, i \in Intervals :
            \E request : Goto(w, "checkReservations", request) /\ request.slot = slot(s, d, i)
      BY <2>2 DEF SubmitRecurring
    <3>2. slot(s, d, i) \in AskedSlots BY <1>1, <1>2 DEF AskedSlots, Slot
    <3> QED BY <3>1, <3>2, GotoLands
  <2>3. CASE SubmitUpdate(w)
    <3> DEFINE slot(id, d, start, end) ==
                 [space |-> reservations[id].slot.space, date |-> d, start |-> start, end |-> end]
    <3>1. PICK id \in Confirmed, d \in Days, start \in Starts, end \in Ends :
            \E to, request : Goto(w, to, request) /\ request.slot = slot(id, d, start, end)
      BY <2>3 DEF SubmitUpdate
    <3>2. reservations[id].slot \in Slot BY RowsWellTyped DEF Confirmed
    <3>3. slot(id, d, start, end) \in AskedSlots BY <1>1, <3>2 DEF AskedSlots, Slot
    <3> QED BY <3>1, <3>3, GotoLands
  <2>4. CASE SubmitBlock(w)
    <3> DEFINE slot(s, d, i) == [space |-> s, date |-> d, start |-> i.start, end |-> i.end]
    <3>1. PICK s \in Spaces, d \in Days, i \in Intervals :
            \E request : Goto(w, "snapshot", request) /\ request.slot = slot(s, d, i)
      BY <2>4 DEF SubmitBlock
    <3>2. slot(s, d, i) \in AskedSlots BY <1>1, <1>2 DEF AskedSlots, Slot
    <3> QED BY <3>1, <3>2, GotoLands
  <2>5. CASE SubmitCancel(w) \/ SubmitCancelSeries(w) \/ SubmitUnblock(w)
    <3>1. \E to \in {"cancelRow", "cancelSeriesRows", "removeBlocking"} : \E request :
            Goto(w, to, request)
      BY <2>5 DEF SubmitCancel, SubmitCancelSeries, SubmitUnblock
    <3> QED BY <3>1, GotoLands DEF CarriesSlot, BlockLoop
  <2> QED BY <1>5, <2>1, <2>2, <2>3, <2>4, <2>5 DEF Submit
<1>6. CASE CheckReservations(w) \/ CheckBlockings(w) \/ CountActive(w)
  <2>1. pc[w] \in {"checkReservations", "checkBlockings", "countActive"}
        /\ \/ Unavailable(w) /\ pc[w] # "countActive"
           \/ Refuse(w)
           \/ \E to : Goto(w, to, req[w])
    BY Zenon, <1>6 DEF CheckReservations, CheckBlockings, CountActive
  <2>2. req[w].slot \in AskedSlots BY <2>1 DEF SlotsAreAsked, CarriesSlot
  <2> QED BY <1>3, <1>4, <2>1, <2>2, GotoLands DEF Refuse
<1>7. CASE InsertReservation(w)
  <2>1. pc[w] = "insert" /\ req[w] \in CreateRequest BY <1>7, InsertCase
  <2>2. req[w].slot \in AskedSlots BY <2>1 DEF SlotsAreAsked, CarriesSlot
  <2>3. Unavailable(w) \/ NextDate(w, TRUE) \/ \E tail : Finish(w, tail)
    BY <1>7 DEF InsertReservation
  <2> QED BY <1>3, <1>4, <2>1, <2>2, <2>3, NextDateAsked
<1>8. CASE \/ UpdateReservation(w) \/ CancelReservation(w) \/ CancelSeriesRows(w)
           \/ RemoveBlocking(w) \/ NotifyParty(w)
  BY <1>3, <1>8 DEF UpdateReservation, CancelReservation, CancelSeriesRows,
     RemoveBlocking, NotifyParty, Refuse
<1>9. CASE TakeSnapshot(w)
  <2>1. pc[w] = "snapshot" BY <1>9 DEF TakeSnapshot
  <2>2. req[w] \in BlockRequest /\ req[w].slot \in AskedSlots
    BY <2>1, RequestKind DEF SlotsAreAsked, CarriesSlot
  <2>3. \E S : Goto(w, "insertBlocking", [req[w] EXCEPT !.snapshot = S])
    BY <1>9 DEF TakeSnapshot
  <2>4. \A S : [req[w] EXCEPT !.snapshot = S].slot = req[w].slot BY <2>2 DEF BlockRequest
  <2> QED BY <2>2, <2>3, <2>4, GotoLands
<1>10. CASE OverrideReservation(w)
  <2>1. req'[w].slot = req[w].slot /\ pc[w] = "overrideRow" BY <1>10, OverrideCase
  <2> QED BY <2>1 DEF SlotsAreAsked, CarriesSlot, BlockLoop
<1>11. CASE InsertBlocking(w) \/ NotifyOverride(w)
  <2>1. PICK r \in BlockRequest :
          /\ WithinDates(r) /\ NextInLoop(w, r)
          /\ r.slot = req[w].slot /\ pc[w] \in BlockLoop
    BY <1>11, LoopAdvances
  <2>2. r.slot \in AskedSlots BY <2>1 DEF SlotsAreAsked, CarriesSlot
  <2>3. \/ pc'[w] = "overrideRow" /\ req'[w] = r
        \/ pc'[w] = "idle"
        \/ req'[w].slot = OnDate(r.slot, req'[w].slot.date) /\ req'[w].slot.date \in Days
    BY <2>1, NextInLoopKeepsReadings
  <2> QED BY <2>2, <2>3, AskedOnAnyDay DEF CarriesSlot, BlockLoop
<1>12. CASE Die(w)
  <2>1. pc'[w] \in Resting BY <1>12, DieRests
  <2>2. pc'[w] = "checkReservations" BY <2>1 DEF Resting, CarriesSlot, BlockLoop
  <2>3. PICK created : /\ pc[w] \notin {"idle", "notify"} /\ req[w].op = "recurring"
                       /\ NextDate(w, created)
    BY <1>3, <1>12 DEF Die, Refuse
  <2>4. req[w] \in CreateRequest /\ pc[w] \in CarriesSlot
    <3>1. Fits(pc[w], req[w]) /\ pc[w] \in Labels BY DEF ControlOK
    <3> QED BY <2>3, <3>1 DEF Fits, Labels, BlockLoop, CarriesSlot, UpdateRequest, CancelRequest,
                              CancelSeriesRequest, BlockRequest, UnblockRequest
  <2> QED BY <2>3, <2>4, NextDateAsked DEF SlotsAreAsked
<1> QED BY <1>5, <1>6, <1>7, <1>8, <1>9, <1>10, <1>11, <1>12 DEF Proceed

(* InsertBlocking adds a row and changes none.                             *)
LEMMA BlockingAdded ==
  ASSUME TypeOK, NEW w \in Workers, InsertBlocking(w)
  PROVE  /\ UNCHANGED reservations
         /\ \E id \in BlockingIds \ DOMAIN blockings :
              /\ Active' = Active \union {id} /\ blockings'[id].slot = req[w].slot
              /\ \A b \in Active : blockings'[b] = blockings[b]
<1> DEFINE row == [status |-> "active", slot |-> req[w].slot, user |-> req[w].user]
<1>1. PICK id \in BlockingIds \ DOMAIN blockings : blockings' = Insert(blockings, id, row)
  BY DEF InsertBlocking, IsFresh
<1>2. /\ DOMAIN blockings' = DOMAIN blockings \union {id} /\ blockings'[id] = row
      /\ \A k \in DOMAIN blockings : blockings'[k] = blockings[k]
  BY <1>1 DEF Insert
<1>3. row.status = "active" /\ row.slot = req[w].slot OBVIOUS
<1> HIDE DEF row
<1>4. Active' = Active \union {id} BY <1>2, <1>3 DEF Active
<1>5. \A b \in Active : blockings'[b] = blockings[b] BY <1>2 DEF Active
<1> QED BY <1>2, <1>3, <1>4, <1>5 DEF InsertBlocking

LEMMA DaysAreFreeStep ==
  ASSUME Serial, TypeOK, LoopDates, DaysAreFree,
         NEW w \in Workers, Submit(w) \/ Proceed(w) \/ Die(w)
  PROVE  DaysAreFree'
<1> USE DEF TypeOK
<1>1. Workers = {w} BY DEF Serial
<1> SUFFICES ASSUME InLoop(w)', NEW d \in DaysLeft(pc'[w], req'[w])
             PROVE  \A b \in Active' : ~Conflict(OnDate(req'[w].slot, d), blockings'[b].slot)
  BY <1>1 DEF DaysAreFree, BlockedOver
<1>2. CASE SubmitBlock(w) /\ pc'[w] = "snapshot"
  <2> DEFINE slot(s, d0, i) == [space |-> s, date |-> d0, start |-> i.start, end |-> i.end]
  <2> DEFINE request(u, s, from, to, i) ==
        [op |-> "block", user |-> u, slot |-> slot(s, from, i),
         dates |-> from .. to, snapshot |-> {}, told |-> NoRow]
  <2>1. PICK u \in Users, s \in Spaces, from \in Days, to \in Days, i \in Intervals :
          /\ RoleOf[u] \in {"professor", "staff", "maintenance"}
          /\ today <= from /\ from <= to
          /\ ValidInterval(i.start, i.end)
          /\ RoomForBlockings(Cardinality(from .. to))
          /\ \A e \in from .. to : BlockedOver(OnDate(slot(s, from, i), e)) = {}
          /\ Goto(w, "snapshot", request(u, s, from, to, i))
    BY Zenon, <1>2 DEF SubmitBlock
  <2>2. req'[w].slot = slot(s, from, i) /\ req'[w].dates = from .. to
    <3>1. req'[w] = request(u, s, from, to, i) BY <2>1, GotoLands
    <3> HIDE DEF slot
    <3> QED BY <3>1
  <2> HIDE DEF slot
  <2>3. UNCHANGED blockings BY <1>2 DEF SubmitBlock, tables
  <2>4. BlockedOver(OnDate(req'[w].slot, d)) = {} BY <1>2, <2>1, <2>2 DEF DaysLeft
  <2> QED BY <2>3, <2>4 DEF BlockedOver, Active
<1>3. CASE TakeSnapshot(w)
  <2>1. pc[w] = "snapshot" /\ UNCHANGED blockings BY <1>3 DEF TakeSnapshot, tables
  <2>2. req[w] \in BlockRequest BY <2>1, RequestKind
  <2>3. \E S : Goto(w, "insertBlocking", [req[w] EXCEPT !.snapshot = S])
    BY <1>3 DEF TakeSnapshot
  <2>4. \A S : /\ [req[w] EXCEPT !.snapshot = S].slot = req[w].slot
               /\ [req[w] EXCEPT !.snapshot = S].dates = req[w].dates
    BY <2>2 DEF BlockRequest
  <2>5. pc'[w] = "insertBlocking" /\ req'[w].slot = req[w].slot /\ req'[w].dates = req[w].dates
    BY <2>3, <2>4, GotoLands
  <2>6. BlockedOver(OnDate(req'[w].slot, d)) = {}
    BY <2>1, <2>5 DEF DaysAreFree, DaysLeft, InLoop
  <2> QED BY <2>1, <2>6 DEF BlockedOver, Active
<1>4. CASE OverrideReservation(w)
  <2>1. /\ pc[w] = "overrideRow" /\ pc'[w] = "notifyOverride"
        /\ req'[w].slot = req[w].slot /\ req'[w].dates = req[w].dates
    BY <1>4, OverrideCase
  <2>2. UNCHANGED blockings BY <1>4 DEF OverrideReservation
  <2>3. BlockedOver(OnDate(req'[w].slot, d)) = {}
    BY <2>1 DEF DaysAreFree, DaysLeft, Rest, InLoop, BlockLoop
  <2> QED BY <2>2, <2>3 DEF BlockedOver, Active
<1>5. CASE InsertBlocking(w) \/ NotifyOverride(w)
  <2>1. PICK r \in BlockRequest :
          /\ WithinDates(r) /\ NextInLoop(w, r) /\ pc[w] \in BlockLoop
          /\ r.slot = req[w].slot /\ r.dates = req[w].dates
    BY <1>5, LoopAdvances
  <2>2. r.slot \in Slot /\ r.slot.date \in Days /\ r.dates \subseteq Days
    BY DEF BlockRequest, Slot
  <2>3. pc'[w] # "idle" BY DEF InLoop, BlockLoop
  <2>4. d \in Rest(r) /\ OnDate(req'[w].slot, d) = OnDate(r.slot, d)
    <3>1. CASE pc'[w] = "overrideRow" /\ req'[w] = r BY <3>1 DEF DaysLeft
    <3>2. CASE /\ pc'[w] = "insertBlocking" /\ req'[w].dates = Rest(r)
               /\ req'[w].slot = OnDate(r.slot, req'[w].slot.date)
               /\ req'[w].slot.date \in Days
      <4>1. d \in Rest(r) /\ d \in Days BY <2>2, <3>2 DEF DaysLeft, Rest
      <4>2. PICK e \in Days : req'[w].slot = OnDate(r.slot, e) BY <3>2
      <4> QED BY <2>2, <4>1, <4>2, OnDateTwice
    <3> QED BY <2>1, <2>3, <3>1, <3>2, NextInLoopKeepsReadings
  <2>5. d \in Days /\ d \in r.dates /\ d # r.slot.date BY <2>2, <2>4 DEF Rest
  <2>6. BlockedOver(OnDate(r.slot, d)) = {}
    <3>1. d \in DaysLeft(pc[w], req[w]) BY <2>1, <2>4, <2>5 DEF DaysLeft, Rest
    <3> QED BY <2>1, <3>1 DEF DaysAreFree, InLoop
  <2>7. CASE NotifyOverride(w)
    <3>1. UNCHANGED blockings BY <2>7 DEF NotifyOverride
    <3> QED BY <2>4, <2>6, <3>1 DEF BlockedOver, Active
  <2>8. CASE InsertBlocking(w)
    <3>1. PICK id :
            /\ Active' = Active \union {id} /\ blockings'[id].slot = r.slot
            /\ \A b \in Active : blockings'[b] = blockings[b]
      BY <2>1, <2>8, BlockingAdded
    <3>2. OnDate(r.slot, d).date = d BY <2>2, <2>5, OnDateTwice
    <3>3. ~Conflict(OnDate(r.slot, d), r.slot) BY <2>5, <3>2 DEF Conflict
    <3>4. \A b \in Active' : ~Conflict(OnDate(r.slot, d), blockings'[b].slot)
      BY <2>6, <3>1, <3>3 DEF BlockedOver
    <3> QED BY <2>4, <3>4 DEF BlockedOver
  <2> QED BY <1>5, <2>7, <2>8
<1> QED BY <1>2, <1>3, <1>4, <1>5, LoopComesFrom

LEMMA SnapshotIsTrueStep ==
  ASSUME Serial, TypeOK, LoopDates, SnapshotIsTrue, DayIsBlocked,
         NEW w \in Workers, Submit(w) \/ Proceed(w) \/ Die(w)
  PROVE  SnapshotIsTrue' /\ DayIsBlocked'
<1> USE DEF TypeOK
<1>1. Workers = {w} BY DEF Serial
<1> DEFINE Holds ==
      /\ \A x \in req'[w].snapshot :
           /\ x.id \in Confirmed' /\ reservations'[x.id].slot = x.slot
           /\ Conflict(OnDate(req'[w].slot, x.slot.date), x.slot)
      /\ pc'[w] \in {"overrideRow", "notifyOverride"} =>
           \E b \in Active' : blockings'[b].slot = req'[w].slot
<1> SUFFICES ASSUME InLoop(w)' PROVE Holds
  <2>1. pc'[w] \in {"overrideRow", "notifyOverride"} => InLoop(w)' BY DEF InLoop, BlockLoop
  <2> QED BY <1>1, <2>1 DEF SnapshotIsTrue, DayIsBlocked, IsCollision
<1>2. CASE SubmitBlock(w) /\ pc'[w] = "snapshot"
  <2>1. \E request : Goto(w, "snapshot", request) /\ request.snapshot = {}
    BY <1>2 DEF SubmitBlock
  <2>2. req'[w].snapshot = {} BY <2>1, GotoLands
  <2> QED BY <1>2, <2>2
<1>3. CASE TakeSnapshot(w)
  <2>1. pc[w] = "snapshot" /\ UNCHANGED reservations BY <1>3 DEF TakeSnapshot, tables
  <2>2. req[w] \in BlockRequest BY <2>1, RequestKind
  <2>0. PICK S : S = {[id |-> k, slot |-> reservations[k].slot] : k \in Collisions(req[w])}
    OBVIOUS
  <2>3. Goto(w, "insertBlocking", [req[w] EXCEPT !.snapshot = S]) BY <1>3, <2>0 DEF TakeSnapshot
  <2>4. \A T : /\ [req[w] EXCEPT !.snapshot = T].slot = req[w].slot
               /\ [req[w] EXCEPT !.snapshot = T].snapshot = T
    BY <2>2 DEF BlockRequest
  <2>5. pc'[w] = "insertBlocking" /\ req'[w].slot = req[w].slot /\ req'[w].snapshot = S
    <3>1. PICK request : request = [req[w] EXCEPT !.snapshot = S] OBVIOUS
    <3>2. pc'[w] = "insertBlocking" /\ req'[w] = request BY <2>3, <3>1, GotoLands
    <3> QED BY <2>4, <3>1, <3>2
  <2> SUFFICES ASSUME NEW x \in S
               PROVE  /\ x.id \in Confirmed /\ reservations[x.id].slot = x.slot
                      /\ Conflict(OnDate(req[w].slot, x.slot.date), x.slot)
    BY <2>1, <2>5 DEF Confirmed
  <2>6. PICK k \in Collisions(req[w]) : x = [id |-> k, slot |-> reservations[k].slot]
    BY <2>0
  <2>7. x.id = k /\ x.slot = reservations[k].slot BY <2>6
  <2>8. PICK d \in req[w].dates : Conflict(OnDate(req[w].slot, d), reservations[k].slot)
    BY <2>6 DEF Collisions
  <2>9. d \in Days /\ req[w].slot \in Slot BY <2>2 DEF BlockRequest
  <2>10. OnDate(req[w].slot, d).date = d BY <2>9, OnDateTwice
  <2>11. d = reservations[k].slot.date BY <2>8, <2>10 DEF Conflict
  <2> QED BY <2>6, <2>7, <2>8, <2>11 DEF Collisions
<1>4. CASE OverrideReservation(w)
  <2>1. /\ pc[w] = "overrideRow" /\ req[w] \in BlockRequest
        /\ pc'[w] = "notifyOverride" /\ req'[w].slot = req[w].slot
    BY <1>4, OverrideCase
  <2>2. PICK x \in req[w].snapshot :
          /\ reservations' = [reservations EXCEPT ![x.id].status = "overridden"]
          /\ req'[w].snapshot = req[w].snapshot \ {x}
    <3>1. PICK x \in req[w].snapshot :
            /\ reservations' = [reservations EXCEPT ![x.id].status = "overridden"]
            /\ Goto(w, "notifyOverride", [req[w] EXCEPT !.snapshot = @ \ {x}, !.told = x.id])
      BY <1>4 DEF OverrideReservation
    <3>2. req'[w] = [req[w] EXCEPT !.snapshot = @ \ {x}, !.told = x.id] BY <3>1, GotoLands
    <3>3. req'[w].snapshot = req[w].snapshot \ {x} BY <2>1, <3>2 DEF BlockRequest
    <3> QED BY <3>1, <3>3
  <2>3. \A y \in req[w].snapshot : IsCollision(y, req[w])
    BY <2>1 DEF SnapshotIsTrue, InLoop, BlockLoop
  <2>4. ASSUME NEW y \in req[w].snapshot, y # x PROVE y.id # x.id
    <3>1. y \in Reading /\ x \in Reading BY <2>1 DEF BlockRequest
    <3>2. y.slot = reservations[y.id].slot /\ x.slot = reservations[x.id].slot
      BY <2>3 DEF IsCollision
    <3> QED BY <2>4, <3>1, <3>2 DEF Reading
  <2>5. \A k \in Confirmed \ {x.id} : k \in Confirmed' /\ reservations'[k] = reservations[k]
    BY <2>2 DEF Confirmed, TablesOK
  <2>6. UNCHANGED blockings BY <1>4 DEF OverrideReservation
  <2>7. \E b \in Active : blockings[b].slot = req[w].slot BY <2>1 DEF DayIsBlocked
  <2> QED BY <2>1, <2>2, <2>3, <2>4, <2>5, <2>6, <2>7 DEF IsCollision, Active
<1>5. CASE InsertBlocking(w) \/ NotifyOverride(w)
  <2>1. PICK r \in BlockRequest :
          /\ WithinDates(r) /\ NextInLoop(w, r) /\ pc[w] \in BlockLoop /\ UNCHANGED reservations
          /\ r.slot = req[w].slot /\ r.dates = req[w].dates /\ r.snapshot = req[w].snapshot
    BY <1>5, LoopAdvances
  <2>2. r.slot \in Slot /\ r.slot.date \in Days BY DEF BlockRequest, Slot
  <2>3. pc'[w] # "idle" BY DEF InLoop, BlockLoop
  <2>4. \A x \in r.snapshot : IsCollision(x, req[w]) BY <2>1 DEF SnapshotIsTrue, InLoop
  <2>5. /\ req'[w].snapshot = r.snapshot
        /\ \A d \in Days : OnDate(req'[w].slot, d) = OnDate(r.slot, d)
        /\ pc'[w] \in {"overrideRow", "insertBlocking"}
        /\ pc'[w] = "overrideRow" => req'[w].slot = r.slot
    <3>1. CASE pc'[w] = "overrideRow" /\ req'[w] = r BY <3>1
    <3>2. CASE /\ pc'[w] = "insertBlocking" /\ req'[w].snapshot = r.snapshot
               /\ req'[w].slot = OnDate(r.slot, req'[w].slot.date)
               /\ req'[w].slot.date \in Days
      <4>1. PICK e \in Days : req'[w].slot = OnDate(r.slot, e) BY <3>2
      <4> QED BY <2>2, <3>2, <4>1, OnDateTwice
    <3> QED BY <2>1, <2>3, <3>1, <3>2, NextInLoopKeepsReadings
  <2>6. \A x \in r.snapshot : x.slot.date \in Days BY DEF BlockRequest, Reading, Slot
  <2>7. \E b \in Active' : blockings'[b].slot = r.slot
    <3>1. CASE InsertBlocking(w) BY <2>1, <3>1, BlockingAdded
    <3>2. CASE NotifyOverride(w)
      <4>1. pc[w] = "notifyOverride" /\ UNCHANGED blockings BY <3>2 DEF NotifyOverride
      <4> QED BY <2>1, <4>1 DEF DayIsBlocked, Active
    <3> QED BY <1>5, <3>1, <3>2
  <2> QED BY <2>1, <2>4, <2>5, <2>6, <2>7 DEF IsCollision, Confirmed
<1> QED BY <1>2, <1>3, <1>4, <1>5, LoopComesFrom

LEMMA SerialInit == Init => SerialInvariant
<1> SUFFICES ASSUME Init PROVE SerialInvariant OBVIOUS
<1>1. \A w \in Workers : pc[w] = "idle" BY DEF Init
<1>2. NothingRaced /\ NoGap BY DEF Init, NothingRaced, NoGap
<1>3. SlotsAreAsked /\ DaysAreFree /\ SnapshotIsTrue /\ DayIsBlocked
  BY <1>1
  DEF SlotsAreAsked, CarriesSlot, DaysAreFree, SnapshotIsTrue, DayIsBlocked, InLoop, BlockLoop
<1> QED BY <1>2, <1>3, BlockingInit DEF SerialInvariant

LEMMA SerialStep ==
  ASSUME Serial, SerialInvariant, [Next]_vars
  PROVE  SerialInvariant'
<1>1. BlockingInvariant /\ BlockingInvariant' BY BlockingStep DEF SerialInvariant
<1>2. TypeOK /\ TargetsExist /\ LoopDates
  BY <1>1 DEF BlockingInvariant, ReservationInvariant
<1>3. CASE UNCHANGED vars \/ Tick
  <2>1. UNCHANGED <<reservations, blockings, pc, req, newRes, newBlk, blockGap>>
    BY <1>3 DEF Tick, vars, tables, control, gaps
  <2>2. NothingRaced' /\ NoGap' /\ SlotsAreAsked'
    BY <2>1 DEF SerialInvariant, NothingRaced, NoGap, SlotsAreAsked
  <2>3. DaysAreFree' BY <2>1 DEF SerialInvariant, DaysAreFree, InLoop, BlockedOver, Active
  <2>4. SnapshotIsTrue' /\ DayIsBlocked'
    BY <2>1
    DEF SerialInvariant, SnapshotIsTrue, DayIsBlocked, IsCollision, InLoop, Confirmed, Active
  <2> QED BY <1>1, <2>2, <2>3, <2>4 DEF SerialInvariant
<1>4. ASSUME NEW w \in Workers, Submit(w) \/ Proceed(w) \/ Die(w) PROVE SerialInvariant'
  <2>1. NothingRaced' /\ NoGap' BY <1>2, <1>4, NothingRacedStep DEF SerialInvariant
  <2>2. SlotsAreAsked' BY <1>2, <1>4, SlotsAreAskedStep DEF SerialInvariant
  <2>3. DaysAreFree' BY <1>2, <1>4, DaysAreFreeStep DEF SerialInvariant
  <2>4. SnapshotIsTrue' /\ DayIsBlocked' BY <1>2, <1>4, SnapshotIsTrueStep DEF SerialInvariant
  <2> QED BY <1>1, <2>1, <2>2, <2>3, <2>4 DEF SerialInvariant
<1> QED BY <1>3, <1>4 DEF Next, RefuseRequest

(* The calendar between two blockings shows every confirmed reservation.   *)
LEMMA AllHeld ==
  ASSUME UnderBlockingOnlyByRace, NoGap, \A v \in Workers : pc[v] \notin BlockLoop
  PROVE  Held = Confirmed
<1>1. \A r : ~PendingOverride(r) BY DEF PendingOverride, PendingOverrides
<1> QED BY <1>1 DEF UnderBlockingOnlyByRace, NoGap, Held

LEMMA AllHeldAfter ==
  ASSUME UnderBlockingOnlyByRace', NoGap', \A v \in Workers : pc'[v] \notin BlockLoop
  PROVE  Held' = Confirmed'
<1>1. \A r : ~PendingOverride(r)' BY DEF PendingOverride, PendingOverrides
<1> QED BY <1>1 DEF UnderBlockingOnlyByRace, NoGap, Held

(* A statement outside the loop of a blocking leaves the worker outside.   *)
LEMMA BothHeld ==
  ASSUME Serial, SerialInvariant, SerialInvariant', NEW w \in Workers, Proceed(w),
         pc[w] \notin BlockLoop \union {"snapshot", "idle"}
  PROVE  Held = Confirmed /\ Held' = Confirmed'
<1>1. Workers = {w} BY DEF Serial
<1>2. TypeOK BY DEF SerialInvariant, BlockingInvariant, ReservationInvariant
<1>3. ~InLoop(w)'
  BY <1>2, LoopComesFrom DEF SubmitBlock, TakeSnapshot, InsertBlocking, OverrideReservation,
     NotifyOverride, BlockLoop
<1>4. \A v \in Workers : pc[v] \notin BlockLoop /\ pc'[v] \notin BlockLoop
  BY <1>1, <1>3 DEF InLoop
<1> QED BY <1>4, AllHeld, AllHeldAfter DEF SerialInvariant, BlockingInvariant

(* What the calendar shows, and how a step changes it.                     *)
LEMMA CalendarStands ==
  ASSUME Held' = Held, \A r \in Held : reservations'[r].slot = reservations[r].slot,
         Active' = Active, \A b \in Active : blockings'[b].slot = blockings[b].slot
  PROVE  UNCHANGED Calendar!cvars
BY DEF Calendar!cvars

LEMMA InsertIsReserve ==
  ASSUME Serial, SerialInvariant, SerialInvariant', NEW w \in Workers, InsertReservation(w)
  PROVE  Calendar!CalendarNext \/ UNCHANGED Calendar!cvars
<1>1. TypeOK /\ CheckedReservations /\ CheckedBlockings /\ NothingRaced
  BY DEF SerialInvariant, BlockingInvariant, ReservationInvariant
<1>2. pc[w] = "insert" /\ req[w] \in CreateRequest /\ UNCHANGED blockings
  BY <1>1, InsertCase DEF InsertReservation
<1>3. Held = Confirmed /\ Held' = Confirmed'
  BY <1>2, BothHeld DEF Proceed, BlockLoop
<1>4. Active' = Active /\ \A b \in Active : blockings'[b].slot = blockings[b].slot
  BY <1>2 DEF Active
<1>5. CASE UNCHANGED reservations
  <2>1. Held' = Held /\ \A r \in Held : reservations'[r].slot = reservations[r].slot
    BY <1>3, <1>5 DEF Confirmed
  <2> QED BY <1>4, <2>1, CalendarStands
<1>6. ASSUME NEW id \in ReservationIds \ DOMAIN reservations,
             DOMAIN reservations' = DOMAIN reservations \union {id},
             \A k \in DOMAIN reservations : reservations'[k] = reservations[k],
             reservations'[id].slot = req[w].slot, reservations'[id].status = "confirmed"
      PROVE  Calendar!CalendarNext
  <2>1. PICK slot \in AskedSlots : slot = req[w].slot
    BY <1>2 DEF SerialInvariant, SlotsAreAsked, CarriesSlot
  <2>2. req[w].target = NoRow /\ NoRow \notin Confirmed
    BY <1>1, <1>2, RowIdsNotNull DEF CreateRequest, TypeOK, TablesOK, Confirmed
  <2>3. ReservedOver(slot) = {} /\ BlockedOver(slot) = {}
    BY <1>1, <1>2, <2>1, <2>2 DEF CheckedReservations, CheckedBlockings, NothingRaced, ReservedOver
  <2>4. Confirmed' = Confirmed \union {id} /\ id \notin Confirmed BY <1>6 DEF Confirmed
  <2>5. \A r \in Confirmed : reservations'[r].slot = reservations[r].slot
    BY <1>6 DEF Confirmed
  <2>6. \A r \in Held : ~Conflict(slot, reservations[r].slot)
    BY <1>3, <2>3 DEF ReservedOver
  <2>7. \A b \in Active : ~Conflict(slot, blockings[b].slot)
    BY <2>3 DEF BlockedOver
  <2>8. Calendar!Reserve(id, slot)
    BY <1>3, <1>4, <1>6, <2>1, <2>4, <2>5, <2>6, <2>7
    DEF Calendar!Reserve, Calendar!Free, Calendar!With
  <2> QED BY <2>8 DEF Calendar!CalendarNext
<1> QED BY <1>1, <1>5, <1>6, InsertCase

LEMMA UpdateIsMove ==
  ASSUME Serial, SerialInvariant, SerialInvariant', NEW w \in Workers, UpdateReservation(w)
  PROVE  Calendar!CalendarNext \/ UNCHANGED Calendar!cvars
<1>1. /\ TypeOK /\ TargetsExist /\ CheckedReservations /\ CheckedBlockings /\ EditedRows
      /\ NothingRaced
  BY DEF SerialInvariant, BlockingInvariant, ReservationInvariant
<1>2. PICK id \in DOMAIN reservations : id = req[w].target BY <1>1, UpdateCase
<1>3. /\ pc[w] = "updateRow" /\ req[w] \in UpdateRequest /\ id \in ReservationIds
      /\ UNCHANGED blockings
  BY <1>1, <1>2, UpdateCase DEF UpdateReservation
<1>4. Held = Confirmed /\ Held' = Confirmed'
  BY <1>3, BothHeld DEF Proceed, BlockLoop
<1>5. Active' = Active /\ \A b \in Active : blockings'[b].slot = blockings[b].slot
  BY <1>3 DEF Active
<1>6. \/ UNCHANGED reservations
      \/ /\ DOMAIN reservations' = DOMAIN reservations
         /\ \A k \in DOMAIN reservations \ {id} : reservations'[k] = reservations[k]
         /\ reservations'[id].slot = req[w].slot
         /\ reservations'[id].status = reservations[id].status
  BY <1>1, <1>2, UpdateCase
<1>7. Confirmed' = Confirmed
      /\ \A r \in Confirmed \ {id} : reservations'[r].slot = reservations[r].slot
  BY <1>6 DEF Confirmed
<1>8. CASE id \notin Confirmed \/ reservations'[id].slot = reservations[id].slot
  <2>1. Held' = Held /\ \A r \in Held : reservations'[r].slot = reservations[r].slot
    BY <1>4, <1>7, <1>8
  <2> QED BY <1>5, <2>1, CalendarStands
<1>9. CASE id \in Confirmed /\ reservations'[id].slot # reservations[id].slot
  <2>1. reservations'[id].slot = req[w].slot BY <1>6, <1>9
  <2>2. req[w].moved BY <1>1, <1>2, <1>3, <1>9, <2>1 DEF EditedRows, NothingRaced
  <2>3. PICK slot \in AskedSlots : slot = req[w].slot
    BY <1>3 DEF SerialInvariant, SlotsAreAsked, CarriesSlot
  <2>4. ReservedOver(slot) \ {id} = {} /\ BlockedOver(slot) = {}
    BY <1>1, <1>2, <1>3, <2>2, <2>3 DEF CheckedReservations, CheckedBlockings, NothingRaced
  <2>5. \A r \in Held \ {id} : ~Conflict(slot, reservations[r].slot)
    BY <1>4, <2>4 DEF ReservedOver
  <2>6. \A b \in Active : ~Conflict(slot, blockings[b].slot)
    BY <2>4 DEF BlockedOver
  <2>7. Calendar!Move(id, slot)
    BY <1>4, <1>5, <1>7, <1>9, <2>1, <2>3, <2>5, <2>6
    DEF Calendar!Move, Calendar!Free, Calendar!With
  <2> QED BY <1>3, <2>7 DEF Calendar!CalendarNext
<1> QED BY <1>8, <1>9

(* Cancellations, of one row or of a series, release what they find.       *)
LEMMA CancelIsRelease ==
  ASSUME Serial, SerialInvariant, SerialInvariant', NEW w \in Workers,
         CancelReservation(w) \/ CancelSeriesRows(w)
  PROVE  Calendar!CalendarNext \/ UNCHANGED Calendar!cvars
<1>1. TypeOK BY DEF SerialInvariant, BlockingInvariant, ReservationInvariant
<1>2. pc[w] \in {"cancelRow", "cancelSeriesRows"} /\ UNCHANGED blockings
  BY DEF CancelReservation, CancelSeriesRows
<1>3. Held = Confirmed /\ Held' = Confirmed'
  BY <1>2, BothHeld DEF Proceed, BlockLoop
<1>4. Active' = Active /\ \A b \in Active : blockings'[b].slot = blockings[b].slot
  BY <1>2 DEF Active
<1>5. PICK hit : /\ Confirmed' = Confirmed \ hit
                 /\ \A r \in Confirmed' : reservations'[r].slot = reservations[r].slot
  <2>1. CASE CancelReservation(w)
    <3>1. reservations' = [reservations EXCEPT ![req[w].target].status = "canceled"]
      BY <2>1 DEF CancelReservation
    <3>2. Confirmed' = Confirmed \ {req[w].target}
          /\ \A r \in Confirmed' : reservations'[r].slot = reservations[r].slot
      BY <1>1, <3>1 DEF Confirmed, TypeOK, TablesOK, ReservationRow
    <3> QED BY <3>2
  <2>2. CASE CancelSeriesRows(w)
    <3>1. PICK hit : reservations' = [k \in DOMAIN reservations |->
              IF k \in hit THEN [reservations[k] EXCEPT !.status = "canceled"]
              ELSE reservations[k]]
      BY <2>2 DEF CancelSeriesRows
    <3>2. Confirmed' = Confirmed \ hit
          /\ \A r \in Confirmed' : reservations'[r].slot = reservations[r].slot
      BY <1>1, <3>1 DEF Confirmed, TypeOK, TablesOK, ReservationRow
    <3> QED BY <3>2
  <2> QED BY <2>1, <2>2
<1>6. CASE Confirmed \intersect hit = {}
  <2>1. Held' = Held /\ \A r \in Held : reservations'[r].slot = reservations[r].slot
    BY <1>3, <1>5, <1>6
  <2> QED BY <1>4, <2>1, CalendarStands
<1>7. CASE Confirmed \intersect hit # {}
  <2>1. PICK ids \in SUBSET Held : ids = Confirmed \intersect hit BY <1>3
  <2>2. Calendar!Release(ids)
    BY <1>3, <1>4, <1>5, <1>7, <2>1 DEF Calendar!Release, Calendar!Only
  <2> QED BY <2>2 DEF Calendar!CalendarNext
<1> QED BY <1>6, <1>7

LEMMA InsertIsBlock ==
  ASSUME Serial, SerialInvariant, NEW w \in Workers, InsertBlocking(w)
  PROVE  Calendar!CalendarNext
<1>1. TypeOK /\ LoopDates
  BY DEF SerialInvariant, BlockingInvariant, ReservationInvariant
<1>2. pc[w] = "insertBlocking" /\ req[w] \in BlockRequest BY <1>1, InsertBlockingCase
<1>3. PICK slot \in AskedSlots : slot = req[w].slot
  BY <1>2 DEF SerialInvariant, SlotsAreAsked, CarriesSlot, BlockLoop
<1>4. PICK id \in BlockingIds \ DOMAIN blockings :
        /\ Active' = Active \union {id} /\ blockings'[id].slot = slot
        /\ \A b \in Active : blockings'[b] = blockings[b]
  BY <1>1, <1>3, BlockingAdded
<1>5. UNCHANGED reservations BY <1>1, BlockingAdded
<1>6. id \notin Active BY <1>4 DEF Active
<1>7. slot \in Slot BY DEF AskedSlots
<1>8. \A b \in Active : ~Conflict(slot, blockings[b].slot)
  <2>1. slot.date \in req[w].dates /\ slot.date \in Days
    BY <1>1, <1>2, <1>3, <1>7 DEF LoopDates, BlockLoop, Slot
  <2>2. BlockedOver(OnDate(slot, slot.date)) = {}
    BY <1>2, <1>3, <2>1 DEF SerialInvariant, DaysAreFree, DaysLeft, InLoop, BlockLoop
  <2>3. OnDate(slot, slot.date) = slot BY <1>7, <2>1, OnDateTwice
  <2> QED BY <2>2, <2>3 DEF BlockedOver
<1>9. Held' = {r \in Held : ~Conflict(slot, reservations[r].slot)}
  <2>1. \A r \in Confirmed : Conflict(slot, reservations[r].slot) <=>
                             Conflict(reservations[r].slot, slot)
    BY <1>1, <1>7, RowsWellTyped, ConflictSymmetric DEF Confirmed
  <2>2. Confirmed' = Confirmed BY <1>5 DEF Confirmed
  <2>3. ASSUME NEW r \in Confirmed
        PROVE  r \in Held' <=> r \in Held /\ ~Conflict(slot, reservations[r].slot)
    BY <1>4, <1>5, <2>1, <2>2 DEF Held, BlockedOver
  <2> QED BY <2>2, <2>3 DEF Held
<1>10. \A r : reservations'[r] = reservations[r] BY <1>5
<1>11. Calendar!Block(id, slot)
  BY <1>4, <1>6, <1>8, <1>9, <1>10 DEF Calendar!Block, Calendar!With, Calendar!Only
<1> QED BY <1>11 DEF Calendar!CalendarNext

(* What the loop overrides is under the blocking already.                  *)
LEMMA OverriddenIsBlocked ==
  ASSUME Serial, SerialInvariant, NEW w \in Workers, OverrideReservation(w)
  PROVE  \E id \in Confirmed :
           /\ BlockedOver(reservations[id].slot) # {}
           /\ reservations' = [reservations EXCEPT ![id].status = "overridden"]
<1>1. TypeOK /\ LoopDates
  BY DEF SerialInvariant, BlockingInvariant, ReservationInvariant
<1>2. pc[w] = "overrideRow" /\ req[w] \in BlockRequest BY <1>1, OverrideCase
<1>3. PICK x \in req[w].snapshot :
        /\ x.slot.date = req[w].slot.date
        /\ reservations' = [reservations EXCEPT ![x.id].status = "overridden"]
  BY DEF OverrideReservation
<1>4. IsCollision(x, req[w])
  BY <1>2, <1>3 DEF SerialInvariant, SnapshotIsTrue, InLoop, BlockLoop
<1>5. PICK b \in Active : blockings[b].slot = req[w].slot
  BY <1>2 DEF SerialInvariant, DayIsBlocked
<1>6. req[w].slot \in Slot /\ req[w].slot.date \in Days BY <1>2 DEF BlockRequest, Slot
<1>7. OnDate(req[w].slot, req[w].slot.date) = req[w].slot BY <1>6, OnDateTwice
<1>8. x.id \in Confirmed /\ Conflict(req[w].slot, reservations[x.id].slot)
  BY <1>3, <1>4, <1>7 DEF IsCollision
<1>9. reservations[x.id].slot \in Slot BY <1>1, <1>8, RowsWellTyped DEF Confirmed
<1>10. Conflict(reservations[x.id].slot, blockings[b].slot)
  BY <1>5, <1>6, <1>8, <1>9, ConflictSymmetric
<1> QED BY <1>3, <1>8, <1>10 DEF BlockedOver

LEMMA OverrideIsHidden ==
  ASSUME Serial, SerialInvariant, NEW w \in Workers, OverrideReservation(w)
  PROVE  UNCHANGED Calendar!cvars
<1>1. TypeOK BY DEF SerialInvariant, BlockingInvariant, ReservationInvariant
<1>2. PICK id \in Confirmed :
        /\ BlockedOver(reservations[id].slot) # {}
        /\ reservations' = [reservations EXCEPT ![id].status = "overridden"]
  BY OverriddenIsBlocked
<1>3. UNCHANGED blockings BY DEF OverrideReservation
<1>4. Active' = Active /\ \A b \in Active : blockings'[b].slot = blockings[b].slot
  BY <1>3 DEF Active
<1>5. Confirmed' = Confirmed \ {id}
      /\ \A r \in Confirmed' : reservations'[r].slot = reservations[r].slot
  BY <1>1, <1>2 DEF Confirmed, TypeOK, TablesOK, ReservationRow
<1>6. id \notin Held BY <1>2 DEF Held
<1>7. Held' = Held
  <2>1. ASSUME NEW r \in Confirmed' PROVE r \in Held' <=> r \in Held
    BY <1>3, <1>5 DEF Held, BlockedOver, Active
  <2> QED BY <1>5, <1>6, <2>1 DEF Held
<1>8. \A r \in Held : reservations'[r].slot = reservations[r].slot
  BY <1>5, <1>6 DEF Held
<1> QED BY <1>4, <1>7, <1>8, CalendarStands

LEMMA RemoveIsUnblock ==
  ASSUME Serial, SerialInvariant, SerialInvariant', NEW w \in Workers, RemoveBlocking(w)
  PROVE  Calendar!CalendarNext \/ UNCHANGED Calendar!cvars
<1>1. TypeOK BY DEF SerialInvariant, BlockingInvariant, ReservationInvariant
<1>2. pc[w] = "removeBlocking" /\ UNCHANGED reservations BY DEF RemoveBlocking
<1>3. Held = Confirmed /\ Held' = Confirmed' BY <1>2, BothHeld DEF Proceed, BlockLoop
<1>4. Held' = Held /\ \A r \in Held : reservations'[r].slot = reservations[r].slot
  BY <1>2, <1>3 DEF Confirmed
<1>5. PICK id : id = req[w].target OBVIOUS
<1>6. Active' = Active \ {id} /\ \A b \in Active' : blockings'[b].slot = blockings[b].slot
  BY <1>1, <1>5 DEF RemoveBlocking, Active, TypeOK, TablesOK, BlockingRow
<1>7. CASE id \in Active
  <2>1. Calendar!Unblock(id)
    BY <1>4, <1>6, <1>7 DEF Calendar!Unblock, Calendar!Only
  <2> QED BY <1>7, <2>1 DEF Calendar!CalendarNext
<1>8. CASE id \notin Active
  <2>1. Active' = Active /\ \A b \in Active : blockings'[b].slot = blockings[b].slot
    BY <1>6, <1>8
  <2> QED BY <1>4, <2>1, CalendarStands
<1> QED BY <1>7, <1>8

(* The other statements write neither table.                               *)
LEMMA OtherStatements ==
  ASSUME NEW w,
         \/ Submit(w) \/ CheckReservations(w) \/ CheckBlockings(w) \/ CountActive(w)
         \/ TakeSnapshot(w) \/ NotifyOverride(w) \/ NotifyParty(w)
  PROVE  UNCHANGED <<reservations, blockings>>
<1>1. CASE Submit(w)
  BY <1>1 DEF Submit, SubmitCreate, SubmitRecurring, SubmitUpdate, SubmitCancel,
              SubmitCancelSeries, SubmitBlock, SubmitUnblock, tables
<1>2. CASE CheckReservations(w) \/ CheckBlockings(w) \/ CountActive(w)
  BY Zenon, <1>2 DEF CheckReservations, CheckBlockings, CountActive, tables
<1>3. CASE TakeSnapshot(w) \/ NotifyOverride(w) \/ NotifyParty(w)
  BY <1>3 DEF TakeSnapshot, NotifyOverride, NotifyParty, tables
<1> QED BY <1>1, <1>2, <1>3

LEMMA CalendarStep ==
  ASSUME Serial, SerialInvariant, SerialInvariant', [Next]_vars
  PROVE  Calendar!CalendarNext \/ UNCHANGED Calendar!cvars
<1>1. TypeOK BY DEF SerialInvariant, BlockingInvariant, ReservationInvariant
<1>2. ASSUME UNCHANGED <<reservations, blockings>> PROVE UNCHANGED Calendar!cvars
  BY <1>2 DEF Calendar!cvars, Held, Active, Confirmed, BlockedOver
<1>3. CASE UNCHANGED vars \/ Tick
  <2>1. UNCHANGED <<reservations, blockings>> BY <1>3 DEF Tick, vars, tables
  <2> QED BY <1>2, <2>1
<1>4. ASSUME NEW w \in Workers, Submit(w) \/ Proceed(w) \/ Die(w)
      PROVE  Calendar!CalendarNext \/ UNCHANGED Calendar!cvars
  <2>1. ~Die(w) BY <1>1, NoRequestDies
  <2> QED
    BY <1>2, <1>4, <2>1, InsertIsReserve, UpdateIsMove, CancelIsRelease, InsertIsBlock,
       OverrideIsHidden, RemoveIsUnblock, OtherStatements DEF Proceed
<1> QED BY <1>3, <1>4 DEF Next, RefuseRequest

(* One request at a time, ReservationService and BlockingService are the   *)
(* atomic calendar: what a client sees changes as if each reservation,     *)
(* edit, cancellation and day of a blocking happened at once, and nothing  *)
(* that is shown ever collides.                                            *)
THEOREM OneAtATimeIsACalendar ==
  ASSUME Serial
  PROVE  Spec => ImplementsCalendar
<1>1. Init => Calendar!CalendarInit
  BY DEF Init, Calendar!CalendarInit, Held, Active, Confirmed
<1>2. SerialInvariant /\ [Next]_vars => SerialInvariant' BY SerialStep
<1>3. SerialInvariant /\ SerialInvariant' /\ [Next]_vars =>
        [Calendar!CalendarNext]_(Calendar!cvars)
  BY CalendarStep
<1> QED BY SerialInit, <1>1, <1>2, <1>3, PTL DEF Spec, ImplementsCalendar, Calendar!CalendarSpec

(* ARCHITECTURE, "Regra crítica", the other way round: one request at a    *)
(* time, the override loop hits nothing but confirmed reservations under   *)
(* an active blocking (BlockingService.create).                            *)
THEOREM OverridesHitConflicts ==
  ASSUME Serial
  PROVE  Spec => OverrideHitsConflicts
<1> DEFINE Hits == \A r \in DOMAIN reservations :
      reservations'[r].status = "overridden" /\ reservations[r].status # "overridden" =>
         r \in Confirmed /\ BlockedOver(reservations[r].slot) # {}
<1>1. ASSUME SerialInvariant, [Next]_vars PROVE [Hits]_vars
  <2>1. TypeOK /\ TargetsExist
    BY <1>1 DEF SerialInvariant, BlockingInvariant, ReservationInvariant
  <2> SUFFICES ASSUME NEW w \in Workers, Submit(w) \/ Proceed(w) \/ Die(w),
                      NEW r \in DOMAIN reservations,
                      reservations'[r].status = "overridden", reservations[r].status # "overridden"
               PROVE  r \in Confirmed /\ BlockedOver(reservations[r].slot) # {}
    BY <1>1 DEF Next, RefuseRequest, Tick, tables
  <2>2. CASE OverrideReservation(w)
    <3>1. PICK id \in Confirmed :
            /\ BlockedOver(reservations[id].slot) # {}
            /\ reservations' = [reservations EXCEPT ![id].status = "overridden"]
      BY <1>1, <2>2, OverriddenIsBlocked
    <3> QED BY <3>1
  <2>3. CASE CancelReservation(w) \/ CancelSeriesRows(w)
    BY <2>1, <2>3 DEF CancelReservation, CancelSeriesRows, TypeOK, TablesOK, ReservationRow
  <2>4. ~InsertReservation(w) BY <2>1, InsertCase
  <2>5. ~UpdateReservation(w) BY <2>1, UpdateCase
  <2>6. ~(InsertBlocking(w) \/ RemoveBlocking(w) \/ Die(w))
    BY <2>1, NoRequestDies DEF InsertBlocking, RemoveBlocking
  <2> QED BY <2>2, <2>3, <2>4, <2>5, <2>6, OtherStatements DEF Proceed
<1>2. SerialInvariant /\ [Next]_vars => SerialInvariant' BY SerialStep
<1> QED BY SerialInit, <1>1, <1>2, PTL DEF Spec, OverrideHitsConflicts

-------------------------------------------------------------------------------
(* What RoomCalendar promises, and so what the services keep to one        *)
(* request at a time.                                                      *)

Apart(table) == \A r, s \in DOMAIN table : r # s => ~Conflict(table[r], table[s])
HeldNow == [r \in Held |-> reservations[r].slot]
BlockedNow == [b \in Active |-> blockings[b].slot]
CalendarApart == Apart(HeldNow) /\ Apart(BlockedNow)

LEMMA WithApart ==
  ASSUME NEW table, NEW id, NEW slot, Apart(table),
         \A r \in DOMAIN table \ {id} : ~Conflict(slot, table[r]) /\ ~Conflict(table[r], slot)
  PROVE  Apart(Calendar!With(table, id, slot))
BY DEF Apart, Calendar!With

LEMMA OnlyApart ==
  ASSUME NEW table, NEW ids \in SUBSET DOMAIN table, Apart(table)
  PROVE  Apart(Calendar!Only(table, ids))
BY DEF Apart, Calendar!Only

LEMMA CalendarTyped ==
  ASSUME TypeOK
  PROVE  /\ \A r \in DOMAIN HeldNow : HeldNow[r] \in Slot
         /\ \A b \in DOMAIN BlockedNow : BlockedNow[b] \in Slot
         /\ AskedSlots \subseteq Slot
BY DEF TypeOK, TablesOK, ReservationRow, BlockingRow, HeldNow, BlockedNow, Held, Confirmed, Active,
       AskedSlots

LEMMA CalendarKeepsApart ==
  ASSUME TypeOK, CalendarApart, Calendar!CalendarNext \/ UNCHANGED Calendar!cvars
  PROVE  CalendarApart'
<1> USE DEF CalendarApart
<1>1. CASE UNCHANGED Calendar!cvars
  <2>1. HeldNow' = HeldNow /\ BlockedNow' = BlockedNow
    BY <1>1 DEF Calendar!cvars, HeldNow, BlockedNow
  <2> QED BY <2>1 DEF Apart
<1>2. ASSUME NEW id \in ReservationIds, NEW slot \in AskedSlots,
             Calendar!Reserve(id, slot) \/ Calendar!Move(id, slot)
      PROVE  CalendarApart'
  <2>1. /\ HeldNow' = Calendar!With(HeldNow, id, slot) /\ BlockedNow' = BlockedNow
        /\ Calendar!Free(slot, id)
    BY <1>2 DEF Calendar!Reserve, Calendar!Move, HeldNow, BlockedNow
  <2>2. \A r \in DOMAIN HeldNow \ {id} : ~Conflict(slot, HeldNow[r])
    BY <2>1 DEF Calendar!Free, HeldNow
  <2>3. \A r \in DOMAIN HeldNow \ {id} : ~Conflict(HeldNow[r], slot)
    BY <2>2, CalendarTyped, ConflictSymmetric
  <2>4. Apart(Calendar!With(HeldNow, id, slot)) BY <2>2, <2>3, WithApart
  <2> QED BY <2>1, <2>4 DEF Apart
<1>3. ASSUME NEW ids \in SUBSET Held, Calendar!Release(ids) PROVE CalendarApart'
  <2>1. HeldNow' = Calendar!Only(HeldNow, DOMAIN HeldNow \ ids) /\ BlockedNow' = BlockedNow
    BY <1>3 DEF Calendar!Release, HeldNow, BlockedNow
  <2>2. Apart(Calendar!Only(HeldNow, DOMAIN HeldNow \ ids)) BY OnlyApart
  <2> QED BY <2>1, <2>2 DEF Apart
<1>4. ASSUME NEW id \in BlockingIds, NEW slot \in AskedSlots, Calendar!Block(id, slot)
      PROVE  CalendarApart'
  <2> DEFINE kept == {r \in DOMAIN HeldNow : ~Conflict(slot, HeldNow[r])}
  <2>1. /\ HeldNow' = Calendar!Only(HeldNow, kept)
        /\ BlockedNow' = Calendar!With(BlockedNow, id, slot)
        /\ \A b \in DOMAIN BlockedNow : ~Conflict(slot, BlockedNow[b])
    BY <1>4 DEF Calendar!Block, HeldNow, BlockedNow
  <2>2. \A b \in DOMAIN BlockedNow \ {id} : ~Conflict(BlockedNow[b], slot)
    BY <2>1, CalendarTyped, ConflictSymmetric
  <2>3. Apart(Calendar!With(BlockedNow, id, slot)) BY <2>1, <2>2, WithApart
  <2>4. Apart(Calendar!Only(HeldNow, kept)) BY OnlyApart
  <2> QED BY <2>1, <2>3, <2>4 DEF Apart
<1>5. ASSUME NEW id \in Active, Calendar!Unblock(id) PROVE CalendarApart'
  <2>1. HeldNow' = HeldNow /\ BlockedNow' = Calendar!Only(BlockedNow, DOMAIN BlockedNow \ {id})
    BY <1>5 DEF Calendar!Unblock, HeldNow, BlockedNow
  <2>2. Apart(Calendar!Only(BlockedNow, DOMAIN BlockedNow \ {id})) BY OnlyApart
  <2> QED BY <2>1, <2>2 DEF Apart
<1> QED BY <1>1, <1>2, <1>3, <1>4, <1>5 DEF Calendar!CalendarNext, HeldNow, BlockedNow

(* While no request is under way, no confirmed reservation collides with   *)
(* another one or lies under an active blocking, and no two active         *)
(* blockings collide.                                                      *)
RoomsAreHeldOnce ==
  (\A w \in Workers : pc[w] = "idle") =>
    /\ \A r, s \in Confirmed :
         r # s => ~Conflict(reservations[r].slot, reservations[s].slot)
    /\ \A r \in Confirmed : BlockedOver(reservations[r].slot) = {}
    /\ \A a, b \in Active : a # b => ~Conflict(blockings[a].slot, blockings[b].slot)

LEMMA QuietIsHeldOnce == SerialInvariant /\ CalendarApart => RoomsAreHeldOnce
<1> SUFFICES ASSUME SerialInvariant, CalendarApart, \A w \in Workers : pc[w] = "idle"
             PROVE  /\ \A r, s \in Confirmed :
                         r # s => ~Conflict(reservations[r].slot, reservations[s].slot)
                    /\ \A r \in Confirmed : BlockedOver(reservations[r].slot) = {}
                    /\ \A a, b \in Active :
                         a # b => ~Conflict(blockings[a].slot, blockings[b].slot)
  BY DEF RoomsAreHeldOnce
<1>1. \A r \in Confirmed : BlockedOver(reservations[r].slot) = {}
  BY DEF SerialInvariant, BlockingInvariant, UnderBlockingOnlyByRace, NoGap, PendingOverride,
         PendingOverrides, BlockLoop
<1>2. Held = Confirmed BY <1>1 DEF Held
<1> QED BY <1>1, <1>2 DEF CalendarApart, Apart, HeldNow, BlockedNow

(* ARCHITECTURE, "Regra crítica" and "Invariante de ocupação": served one  *)
(* at a time, create, update, cancel and the blockings leave every space   *)
(* held once, and never held under a blocking.                             *)
THEOREM ServedInTurnNothingCollides ==
  ASSUME Serial
  PROVE  Spec => []RoomsAreHeldOnce
<1>1. Init => CalendarApart
  BY DEF Init, CalendarApart, Apart, HeldNow, BlockedNow, Held, Active, Confirmed
<1>2. SerialInvariant /\ [Next]_vars => SerialInvariant' BY SerialStep
<1>3. SerialInvariant /\ SerialInvariant' /\ CalendarApart /\ [Next]_vars => CalendarApart'
  <2>1. SerialInvariant => TypeOK BY DEF SerialInvariant, BlockingInvariant, ReservationInvariant
  <2> QED BY <2>1, CalendarStep, CalendarKeepsApart
<1> QED BY SerialInit, QuietIsHeldOnce, <1>1, <1>2, <1>3, PTL DEF Spec

-------------------------------------------------------------------------------
(* What the limit on a student's active reservations is worth when requests *)
(* run at once: enforceActiveLimit counts, and the INSERT comes a statement *)
(* later.                                                                   *)

Editing(v) == req[v].op = "update"

(* What counts against user u: what the statement of enforceActiveLimit     *)
(* counts, and a reservation in the past that an edit in progress may still *)
(* bring back to a day to come.                                             *)
Charged(u) ==
  {r \in Confirmed : /\ reservations[r].user = u
                     /\ \/ reservations[r].slot.date >= today
                        \/ \E v \in Workers : Editing(v) /\ req[v].target = r}

(* The requests of u that were counted and will insert next. *)
Inserting(u) == {w \in Workers : pc[w] = "insert" /\ req[w].user = u}

(* Only a professor or the staff make a series, the request whose INSERT no *)
(* count precedes.                                                          *)
SeriesByStaff ==
  \A w \in Workers : req[w].op = "recurring" => RoleOf[req[w].user] \in {"professor", "staff"}

(* Reservations and insertions to come, counted together: the last request  *)
(* that was counted saw fewer than the limit, besides those under edit.     *)
ChargesBounded ==
  \A u \in Users : RoleOf[u] = "student" =>
    Cardinality(Charged(u)) + Cardinality(Inserting(u))
      <= Limit["student"] + Cardinality(Workers) - 1

LimitInvariant == ReservationInvariant /\ SeriesByStaff /\ ChargesBounded

(* The handler goes on with the same request, or is done with it. *)
Continues(old, new) ==
  \/ new = NoRequest
  \/ /\ new.op = old.op /\ new.user = old.user
     /\ old.op = "update" => new.target = old.target

LEMMA FinishContinues ==
  ASSUME ControlOK, NEW w \in Workers, NEW tail, Finish(w, tail)
  PROVE  Continues(req[w], req'[w])
BY DEF ControlOK, Finish, Continues

LEMMA GotoContinues ==
  ASSUME ControlOK, NEW w \in Workers, NEW to, NEW request, Goto(w, to, request),
         Continues(req[w], request)
  PROVE  Continues(req[w], req'[w])
BY GotoLands

LEMMA NextDateContinues ==
  ASSUME ControlOK, NEW w \in Workers, req[w] \in CreateRequest, NEW created,
         NextDate(w, created)
  PROVE  Continues(req[w], req'[w])
<1> DEFINE r == req[w]
           next(d) == [r EXCEPT !.dates = Rest(r), !.slot = OnDate(@, d), !.created = created]
<1>1. \A d : next(d).op = r.op /\ next(d).user = r.user /\ next(d).target = r.target
  BY DEF CreateRequest
<1>2. \A d : Continues(r, next(d)) BY <1>1 DEF Continues
<1>3. \/ \E tail : Finish(w, tail)
      \/ \E d : Goto(w, "checkReservations", next(d))
  BY DEF NextDate
<1> HIDE DEF next
<1> QED BY <1>2, <1>3, FinishContinues, GotoContinues

LEMMA UnavailableContinues ==
  ASSUME ControlOK, NEW w \in Workers, req[w] \in CreateRequest \union UpdateRequest,
         Unavailable(w)
  PROVE  Continues(req[w], req'[w])
<1>1. CASE req[w].op = "recurring"
  <2>1. req[w] \in CreateRequest BY <1>1 DEF UpdateRequest
  <2> QED BY <1>1, <2>1, NextDateContinues DEF Unavailable
<1>2. CASE req[w].op # "recurring" BY <1>2, FinishContinues DEF Unavailable, Refuse
<1> QED BY <1>1, <1>2

LEMMA NextInLoopContinues ==
  ASSUME ControlOK, NEW w \in Workers, NEW r, NextInLoop(w, r), r \in BlockRequest,
         Continues(req[w], r), req[w] \in BlockRequest
  PROVE  Continues(req[w], req'[w])
<1> DEFINE next(d) == [r EXCEPT !.dates = Rest(r), !.slot = OnDate(@, d)]
<1>1. r.op = req[w].op /\ r.user = req[w].user
  BY DEF Continues, NoRequest, BlockRequest
<1>2. \A d : next(d).op = r.op /\ next(d).user = r.user
  BY DEF BlockRequest
<1>3. req[w].op # "update" BY DEF BlockRequest
<1>4. \A d : Continues(req[w], next(d))
  <2> HIDE DEF next
  <2> QED BY <1>1, <1>2, <1>3 DEF Continues
<1>5. \/ \E tail : Finish(w, tail)
      \/ \E to : Goto(w, to, r)
      \/ \E d : Goto(w, "insertBlocking", next(d))
  BY DEF NextInLoop, Refuse
<1> HIDE DEF next
<1> QED BY <1>4, <1>5, FinishContinues, GotoContinues

(* A step of a handler works on the request the handler took. *)
LEMMA HandlerContinues ==
  ASSUME TypeOK, NEW w \in Workers, Proceed(w) \/ Die(w)
  PROVE  Continues(req[w], req'[w])
<1> USE DEF TypeOK
<1>0. Continues(req[w], req[w]) BY DEF Continues
<1>1. CASE Die(w)
  <2>1. CASE Refuse(w) BY <2>1, FinishContinues DEF Refuse
  <2>2. CASE pc[w] # "notify" /\ req[w].op = "recurring" /\ NextDate(w, req[w].created)
    <3>1. Fits(pc[w], req[w]) /\ pc[w] \in Labels BY DEF ControlOK
    <3>2. pc[w] # "idle" BY <1>1 DEF Die
    <3>3. req[w] \in CreateRequest
      BY <2>2, <3>1, <3>2 DEF Fits, Labels, UpdateRequest, CancelRequest,
                              CancelSeriesRequest, BlockRequest, UnblockRequest
    <3> QED BY <2>2, <3>3, NextDateContinues
  <2> QED BY <1>1, <2>1, <2>2 DEF Die
<1>2. CASE CheckReservations(w) \/ CheckBlockings(w)
  <2>1. pc[w] \in {"checkReservations", "checkBlockings"}
        /\ (Unavailable(w) \/ \E to : Goto(w, to, req[w]))
    BY Zenon, <1>2 DEF CheckReservations, CheckBlockings
  <2>2. req[w] \in CreateRequest \union UpdateRequest BY <2>1, RequestKind
  <2> QED BY <1>0, <2>1, <2>2, UnavailableContinues, GotoContinues
<1>3. CASE CountActive(w)
  <2>1. Finish(w, NoNotices) \/ \E to : Goto(w, to, req[w])
    BY Zenon, <1>3 DEF CountActive, Refuse
  <2> QED BY <1>0, <2>1, FinishContinues, GotoContinues
<1>4. CASE InsertReservation(w)
  <2>1. req[w] \in CreateRequest BY <1>4, InsertCase
  <2>2. Unavailable(w) \/ NextDate(w, TRUE) \/ \E tail : Finish(w, tail)
    BY <1>4 DEF InsertReservation
  <2> QED BY <2>1, <2>2, UnavailableContinues, NextDateContinues, FinishContinues
<1>5. CASE \/ UpdateReservation(w) \/ CancelReservation(w) \/ CancelSeriesRows(w)
           \/ RemoveBlocking(w) \/ NotifyParty(w)
  BY <1>5, FinishContinues DEF UpdateReservation, CancelReservation, CancelSeriesRows,
     RemoveBlocking, NotifyParty, Refuse
<1>6. CASE TakeSnapshot(w)
  <2>1. pc[w] = "snapshot" BY <1>6 DEF TakeSnapshot
  <2>2. req[w] \in BlockRequest BY <2>1, RequestKind
  <2>3. PICK S : Goto(w, "insertBlocking", [req[w] EXCEPT !.snapshot = S])
    BY <1>6 DEF TakeSnapshot
  <2>4. Continues(req[w], [req[w] EXCEPT !.snapshot = S])
    BY <2>2 DEF BlockRequest, Continues
  <2> QED BY <2>3, <2>4, GotoContinues
<1>7. CASE InsertBlocking(w)
  <2>1. req[w] \in BlockRequest /\ NextInLoop(w, req[w]) BY <1>7, InsertBlockingCase
  <2> QED BY <1>0, <2>1, NextInLoopContinues
<1>8. CASE OverrideReservation(w)
  <2>1. pc[w] = "overrideRow" BY <1>8 DEF OverrideReservation
  <2>2. req[w] \in BlockRequest BY <2>1, RequestKind DEF BlockLoop
  <2>3. PICK x : Goto(w, "notifyOverride", [req[w] EXCEPT !.snapshot = @ \ {x}, !.told = x.id])
    BY <1>8 DEF OverrideReservation
  <2>4. Continues(req[w], [req[w] EXCEPT !.snapshot = @ \ {x}, !.told = x.id])
    BY <2>2 DEF BlockRequest, Continues
  <2> QED BY <2>3, <2>4, GotoContinues
<1>9. CASE NotifyOverride(w)
  <2>1. pc[w] = "notifyOverride" /\ NextInLoop(w, [req[w] EXCEPT !.told = NoRow])
    BY <1>9 DEF NotifyOverride
  <2>2. req[w] \in BlockRequest BY <2>1, RequestKind DEF BlockLoop
  <2>3. [req[w] EXCEPT !.told = NoRow] \in BlockRequest
        /\ Continues(req[w], [req[w] EXCEPT !.told = NoRow])
    BY <2>2 DEF BlockRequest, Continues
  <2> QED BY <2>1, <2>2, <2>3, NextInLoopContinues
<1> QED BY <1>1, <1>2, <1>3, <1>4, <1>5, <1>6, <1>7, <1>8, <1>9 DEF Proceed

(* The kind of a request is settled when it is taken. *)
LEMMA KindTaken ==
  ASSUME TypeOK, NEW w \in Workers, Submit(w)
  PROVE  /\ req'[w].op = "update" => SubmitUpdate(w)
         /\ req'[w].op = "recurring" => SubmitRecurring(w)
<1> USE DEF TypeOK
<1> DEFINE Takes(kinds) == \E to, request : Goto(w, to, request) /\ request.op \in kinds
<1>1. CASE SubmitCreate(w)
  <2>1. Takes({"create"}) BY <1>1 DEF SubmitCreate
  <2> QED BY <2>1, GotoLands
<1>2. CASE SubmitRecurring(w)
  <2>1. Takes({"recurring"}) BY <1>2 DEF SubmitRecurring
  <2> QED BY <1>2, <2>1, GotoLands
<1>3. CASE SubmitUpdate(w)
  <2>1. Takes({"update"}) BY <1>3 DEF SubmitUpdate
  <2> QED BY <1>3, <2>1, GotoLands
<1>4. CASE SubmitCancel(w)
  <2>1. Takes({"cancel"}) BY <1>4 DEF SubmitCancel
  <2> QED BY <2>1, GotoLands
<1>5. CASE SubmitCancelSeries(w)
  <2>1. Takes({"cancelSeries"}) BY <1>5 DEF SubmitCancelSeries
  <2> QED BY <2>1, GotoLands
<1>6. CASE SubmitBlock(w)
  <2>1. Takes({"block"}) BY <1>6 DEF SubmitBlock
  <2> QED BY <2>1, GotoLands
<1>7. CASE SubmitUnblock(w)
  <2>1. Takes({"unblock"}) BY <1>7 DEF SubmitUnblock
  <2> QED BY <2>1, GotoLands
<1> QED BY <1>1, <1>2, <1>3, <1>4, <1>5, <1>6, <1>7 DEF Submit

(* A series is begun by a professor or the staff. *)
LEMMA SeriesByStaffStep ==
  ASSUME TypeOK, SeriesByStaff, NEW w \in Workers, Submit(w) \/ Proceed(w) \/ Die(w)
  PROVE  SeriesByStaff'
<1> SUFFICES ASSUME req'[w].op = "recurring"
             PROVE  RoleOf[req'[w].user] \in {"professor", "staff"}
  BY OthersKept DEF SeriesByStaff, KeepsOthers
<1> USE DEF TypeOK
<1>1. CASE Submit(w)
  <2>1. SubmitRecurring(w) BY <1>1, KindTaken
  <2>2. \E to, request : /\ Goto(w, to, request)
                         /\ RoleOf[request.user] \in {"professor", "staff"}
    BY <2>1 DEF SubmitRecurring
  <2> QED BY <2>2, GotoLands
<1>2. CASE Proceed(w) \/ Die(w)
  <2>1. Continues(req[w], req'[w]) BY <1>2, HandlerContinues
  <2>2. NoRequest.op # "recurring" BY DEF NoRequest
  <2> QED BY <2>1, <2>2 DEF Continues, SeriesByStaff
<1> QED BY <1>1, <1>2

(* No statement but the INSERT adds a confirmed row; none changes an owner. *)
LEMMA OwnersKept ==
  ASSUME TypeOK, TargetsExist, NEW w \in Workers, Submit(w) \/ Proceed(w) \/ Die(w)
  PROVE  /\ \A k \in DOMAIN reservations : reservations'[k].user = reservations[k].user
         /\ InsertReservation(w) \/ DOMAIN reservations' = DOMAIN reservations
<1> USE DEF TypeOK, TablesOK
<1>1. CASE Submit(w)
  BY <1>1 DEF Submit, SubmitCreate, SubmitRecurring, SubmitUpdate, SubmitCancel,
              SubmitCancelSeries, SubmitBlock, SubmitUnblock, tables
<1>2. CASE Die(w) \/ CheckReservations(w) \/ TakeSnapshot(w)
  BY <1>2 DEF Die, CheckReservations, TakeSnapshot, tables
<1>3. CASE CheckBlockings(w) \/ CountActive(w)
  BY Zenon, <1>3 DEF CheckBlockings, CountActive, tables
<1>4. CASE InsertReservation(w) BY <1>4, InsertCase
<1>5. CASE UpdateReservation(w)
  <2> DEFINE id == req[w].target
  <2>1. \/ UNCHANGED reservations
        \/ reservations' = [reservations EXCEPT ![id] = EditedRow(reservations[id], req[w].slot)]
    BY <1>5 DEF UpdateReservation
  <2>2. id \in DOMAIN reservations BY <1>5, UpdateCase
  <2>3. EditedRow(reservations[id], req[w].slot).user = reservations[id].user
    BY <2>2 DEF EditedRow, ReservationRow
  <2> HIDE DEF id
  <2> QED BY <2>1, <2>2, <2>3
<1>6. CASE CancelReservation(w) BY <1>6 DEF CancelReservation, ReservationRow
<1>7. CASE CancelSeriesRows(w) BY <1>7 DEF CancelSeriesRows, ReservationRow
<1>8. CASE OverrideReservation(w)
  <2>1. \E id : reservations' = [reservations EXCEPT ![id].status = "overridden"]
    BY <1>8 DEF OverrideReservation
  <2> QED BY <2>1 DEF ReservationRow
<1>9. CASE InsertBlocking(w) \/ NotifyOverride(w) \/ RemoveBlocking(w) \/ NotifyParty(w)
  BY <1>9 DEF InsertBlocking, NotifyOverride, RemoveBlocking, NotifyParty
<1> QED BY <1>1, <1>2, <1>3, <1>4, <1>5, <1>6, <1>7, <1>8, <1>9 DEF Proceed

LEMMA InsertedOwner ==
  ASSUME TypeOK, NEW w \in Workers, InsertReservation(w),
         NEW id \in DOMAIN reservations' \ DOMAIN reservations
  PROVE  reservations'[id].user = req[w].user
<1> DEFINE r == req[w]
           row == [status |-> "confirmed", slot |-> r.slot, user |-> r.user,
                   requester |-> r.requester, series |-> r.series]
<1>1. PICK k \in ReservationIds : reservations' = Insert(reservations, k, row)
  BY DEF InsertReservation
<1>2. id = k /\ reservations'[id] = row BY <1>1 DEF Insert
<1>3. row.user = r.user OBVIOUS
<1> HIDE DEF row
<1> QED BY <1>2, <1>3

LEMMA WorkersKeepTime ==
  ASSUME NEW w \in Workers, Submit(w) \/ Proceed(w) \/ Die(w)
  PROVE  today' = today
<1>1. CASE Submit(w)
  BY <1>1 DEF Submit, SubmitCreate, SubmitRecurring, SubmitUpdate, SubmitCancel,
              SubmitCancelSeries, SubmitBlock, SubmitUnblock, clock
<1>2. CASE CheckBlockings(w) \/ CountActive(w)
  BY Zenon, <1>2 DEF CheckBlockings, CountActive, clock
<1>3. CASE Die(w) \/ CheckReservations(w) \/ TakeSnapshot(w) \/ InsertReservation(w)
           \/ UpdateReservation(w)
  BY <1>3 DEF Die, CheckReservations, TakeSnapshot, InsertReservation, UpdateReservation, clock
<1>4. CASE CancelReservation(w) \/ CancelSeriesRows(w) \/ OverrideReservation(w)
           \/ InsertBlocking(w) \/ NotifyOverride(w) \/ RemoveBlocking(w) \/ NotifyParty(w)
  BY <1>4 DEF CancelReservation, CancelSeriesRows, OverrideReservation, InsertBlocking,
              NotifyOverride, RemoveBlocking, NotifyParty, clock
<1> QED BY <1>1, <1>2, <1>3, <1>4 DEF Proceed

(* An edit begins with a reservation of today or later. *)
LEMMA EditBegins ==
  ASSUME TypeOK, TypeOK', NEW w \in Workers, Submit(w) \/ Proceed(w) \/ Die(w),
         req'[w].op = "update"
  PROVE  \/ /\ req[w].op = "update" /\ req[w].target = req'[w].target
         \/ /\ req'[w].target \in Confirmed
            /\ reservations[req'[w].target].slot.date >= today
<1> USE DEF TypeOK
<1>1. CASE Submit(w)
  <2>1. SubmitUpdate(w) BY <1>1, KindTaken
  <2>2. PICK id \in Confirmed :
          /\ ~HasStarted(reservations[id].slot)
          /\ \E to, request : Goto(w, to, request) /\ request.target = id
    BY <2>1 DEF SubmitUpdate
  <2>3. req'[w].target = id BY <2>2, GotoLands
  <2>4. reservations[id].slot.date \in Nat /\ today \in Nat
    BY RowsWellTyped, DaysAreNat DEF Confirmed, Slot, ClockOK
  <2>5. reservations[id].slot.date >= today BY <2>2, <2>4 DEF HasStarted
  <2> QED BY <2>3, <2>5
<1>2. CASE Proceed(w) \/ Die(w)
  <2>1. Continues(req[w], req'[w]) BY <1>2, HandlerContinues
  <2>2. NoRequest.op # "update" BY DEF NoRequest
  <2> QED BY <2>1, <2>2 DEF Continues
<1> QED BY <1>1, <1>2

(* What counts against a user grows by the INSERT of a request only. *)
LEMMA ChargedShrinks ==
  ASSUME TypeOK, TypeOK', TargetsExist, NEW w \in Workers, Submit(w) \/ Proceed(w) \/ Die(w),
         NEW u, NEW r \in Charged(u)', r \in DOMAIN reservations
  PROVE  r \in Charged(u)
<1>1. r \in Confirmed' /\ reservations'[r].user = u
      /\ \/ reservations'[r].slot.date >= today'
         \/ \E v \in Workers : req'[v].op = "update" /\ req'[v].target = r
  BY DEF Charged, Editing
<1>2. today' = today /\ reservations[r].user = u BY <1>1, WorkersKeepTime, OwnersKept
<1>3. r # NoRow BY RowIdsNotNull DEF TypeOK, TablesOK
<1>4. r \in Confirmed
  <2>1. CASE Stable(NoRow) BY <1>1, <1>3, <2>1 DEF Stable, Confirmed
  <2>2. CASE InsertReservation(w)
    <3>1. \/ UNCHANGED reservations
          \/ \A k \in DOMAIN reservations : reservations'[k] = reservations[k]
      BY <2>2, InsertCase
    <3> QED BY <1>1, <3>1 DEF Confirmed
  <2>3. CASE UpdateReservation(w)
    <3>1. UNCHANGED reservations
          \/ \A k \in DOMAIN reservations : reservations'[k].status = reservations[k].status
      BY <2>3, UpdateCase
    <3> QED BY <1>1, <3>1 DEF Confirmed
  <2> QED BY <2>1, <2>2, <2>3, QuietStep
<1>5. CASE \E v \in Workers : req'[v].op = "update" /\ req'[v].target = r
  <2>1. PICK v \in Workers : req'[v].op = "update" /\ req'[v].target = r BY <1>5
  <2>2. CASE v = w BY <1>2, <1>4, <2>1, <2>2, EditBegins DEF Charged, Editing
  <2>3. CASE v # w BY <1>2, <1>4, <2>1, <2>3, OthersKept DEF Charged, Editing, KeepsOthers
  <2> QED BY <2>2, <2>3
<1>6. CASE reservations'[r].slot.date >= today'
  <2>1. CASE reservations'[r].slot = reservations[r].slot
    BY <1>2, <1>4, <1>6, <2>1 DEF Charged
  <2>2. CASE reservations'[r].slot # reservations[r].slot
    <3>1. UpdateReservation(w)
      <4>1. ~Stable(NoRow) BY <1>1, <1>3, <2>2 DEF Stable, Confirmed
      <4>2. ~InsertReservation(w)
        <5>1. InsertReservation(w) => UNCHANGED reservations \/ reservations'[r] = reservations[r]
          BY InsertCase
        <5> QED BY <2>2, <5>1
      <4> QED BY <4>1, <4>2, QuietStep
    <3>2. r = req[w].target /\ req[w] \in UpdateRequest BY <2>2, <3>1, UpdateCase
    <3> QED BY <1>2, <1>4, <3>2 DEF Charged, Editing, UpdateRequest
  <2> QED BY <2>1, <2>2
<1> QED BY <1>1, <1>5, <1>6

-------------------------------------------------------------------------------
(* Counting. *)

LEMMA LimitAssumption ==
  /\ IsFiniteSet(Workers) /\ Workers # {} /\ IsFiniteSet(ReservationIds)
  /\ Limit["student"] \in Nat /\ Limit["student"] # Unlimited
BY BookingAssumption

LEMMA WorkersCounted == Cardinality(Workers) \in Nat \ {0}
<1>1. IsFiniteSet(Workers) /\ Workers # {} BY Zenon, LimitAssumption
<1>2. Cardinality(Workers) \in Nat BY <1>1, FS_CardinalityType
<1>3. Cardinality(Workers) # 0 BY <1>1, FS_EmptySet
<1> QED BY <1>2, <1>3

(* A function takes no more values than it has arguments. *)
LEMMA ImageCounted ==
  ASSUME NEW S, IsFiniteSet(S), NEW f
  PROVE  /\ IsFiniteSet({f[x] : x \in S})
         /\ Cardinality({f[x] : x \in S}) <= Cardinality(S)
<1> DEFINE T == {f[x] : x \in S}
           g == [x \in S |-> f[x]]
<1>1. g \in Surjection(S, T) BY DEF Surjection
<1> HIDE DEF T, g
<1>2. IsFiniteSet(T) /\ Cardinality(T) <= Cardinality(S) BY <1>1, FS_Surjection
<1> QED BY <1>2 DEF T

LEMMA RowsFinite ==
  ASSUME TypeOK, NEW S, S \subseteq DOMAIN reservations
  PROVE  IsFiniteSet(S) /\ Cardinality(S) \in Nat
<1>1. S \in SUBSET ReservationIds BY DEF TypeOK, TablesOK
<1>2. IsFiniteSet(S) BY <1>1, LimitAssumption, FS_Subset
<1> QED BY <1>2, FS_CardinalityType

LEMMA WorkersFinite ==
  ASSUME NEW S \in SUBSET Workers
  PROVE  IsFiniteSet(S) /\ Cardinality(S) \in Nat
<1>1. IsFiniteSet(S) BY LimitAssumption, FS_Subset
<1> QED BY <1>1, FS_CardinalityType

(* Two disjoint sets of workers are together no more than all. *)
LEMMA DisjointWorkers ==
  ASSUME NEW S \in SUBSET Workers, NEW T \in SUBSET Workers, S \intersect T = {}
  PROVE  Cardinality(S) + Cardinality(T) <= Cardinality(Workers)
<1>1. IsFiniteSet(S) /\ IsFiniteSet(T) /\ S \union T \in SUBSET Workers BY WorkersFinite
<1>2. Cardinality(S) \in Nat /\ Cardinality(T) \in Nat BY WorkersFinite
<1>3. Cardinality(S \intersect T) = 0 BY FS_EmptySet
<1>4. Cardinality(S \union T) = Cardinality(S) + Cardinality(T) - Cardinality(S \intersect T)
  BY <1>1, FS_Union
<1>5. Cardinality(S \union T) <= Cardinality(Workers) BY <1>1, LimitAssumption, FS_Subset
<1> QED BY <1>2, <1>3, <1>4, <1>5

(* The same sets of rows and workers, or fewer of each. *)
LEMMA FewerCharges ==
  ASSUME NEW A, NEW B, NEW C, NEW D, IsFiniteSet(A), IsFiniteSet(B), C \subseteq A, D \subseteq B
  PROVE  Cardinality(C) + Cardinality(D) <= Cardinality(A) + Cardinality(B)
<1>1. Cardinality(A) \in Nat /\ Cardinality(B) \in Nat BY FS_CardinalityType
<1>2. IsFiniteSet(C) /\ Cardinality(C) <= Cardinality(A) BY FS_Subset
<1>3. IsFiniteSet(D) /\ Cardinality(D) <= Cardinality(B) BY FS_Subset
<1>4. Cardinality(C) \in Nat /\ Cardinality(D) \in Nat BY <1>2, <1>3, FS_CardinalityType
<1> QED BY <1>1, <1>2, <1>3, <1>4

(* A row more, and an insertion to come less. *)
LEMMA ChargeMoves ==
  ASSUME NEW A, NEW B, NEW C, NEW D, IsFiniteSet(A), IsFiniteSet(B), NEW id, NEW w \in B,
         C \subseteq A \union {id}, D \subseteq B \ {w}
  PROVE  Cardinality(C) + Cardinality(D) <= Cardinality(A) + Cardinality(B)
<1>1. Cardinality(A) \in Nat /\ Cardinality(B) \in Nat BY FS_CardinalityType
<1>2. /\ IsFiniteSet(A \union {id})
      /\ Cardinality(A \union {id}) = Cardinality(A)
         \/ Cardinality(A \union {id}) = Cardinality(A) + 1
  BY FS_AddElement
<1>3. IsFiniteSet(B \ {w}) /\ Cardinality(B \ {w}) = Cardinality(B) - 1
  BY FS_RemoveElement
<1>4. Cardinality(C) + Cardinality(D) <= Cardinality(A \union {id}) + Cardinality(B \ {w})
  BY <1>2, <1>3, FewerCharges
<1>5. Cardinality(C) \in Int /\ Cardinality(D) \in Int
  BY <1>2, <1>3, FS_Subset, FS_CardinalityType
<1> QED BY <1>1, <1>2, <1>3, <1>4, <1>5

-------------------------------------------------------------------------------
(* The step. *)

(* A request that comes to its INSERT was counted, or is a series. *)
LEMMA InsertComesFrom ==
  ASSUME TypeOK, NEW w \in Workers, Submit(w) \/ Proceed(w) \/ Die(w), pc'[w] = "insert"
  PROVE  /\ req'[w] = req[w] /\ ~InsertReservation(w)
         /\ req[w].op = "recurring" \/ WithinLimit(req[w].user)
<1> USE DEF TypeOK
<1>1. /\ req'[w] = req[w]
      /\ \/ CheckReservations(w) /\ pc'[w] = "checkBlockings"
         \/ CheckBlockings(w)
         \/ CountActive(w)
  BY CheckAdvances DEF Checked
<1>2. ~InsertReservation(w) BY <1>1 DEF CheckReservations, CheckBlockings, CountActive,
                                        InsertReservation
<1>3. CASE CheckBlockings(w)
  <2>1. ~Unavailable(w) BY UnavailableRests DEF Resting
  <2>2. Goto(w, IF req[w].op = "create" THEN "countActive"
                ELSE IF req[w].op = "recurring" THEN "insert" ELSE "updateRow", req[w])
    BY Zenon, <1>3, <2>1 DEF CheckBlockings
  <2> QED BY <1>1, <1>2, <2>2, GotoLands
<1>4. CASE CountActive(w)
  <2>1. ~Refuse(w) BY RefuseRests
  <2>2. WithinLimit(req[w].user) BY Zenon, <1>4, <2>1 DEF CountActive
  <2> QED BY <1>1, <1>2, <2>2
<1> QED BY <1>1, <1>3, <1>4

LEMMA ChargesBoundedStep ==
  ASSUME TypeOK, TypeOK', TargetsExist, SeriesByStaff, ChargesBounded,
         NEW w \in Workers, Submit(w) \/ Proceed(w) \/ Die(w)
  PROVE  ChargesBounded'
<1> SUFFICES ASSUME NEW u \in Users, RoleOf[u] = "student"
             PROVE  Cardinality(Charged(u)') + Cardinality(Inserting(u)')
                      <= Limit["student"] + Cardinality(Workers) - 1
  BY DEF ChargesBounded
<1> DEFINE A == Charged(u)
           B == Inserting(u)
           C == Charged(u)'
           D == Inserting(u)'
           most == Limit["student"] + Cardinality(Workers) - 1
<1>1. Cardinality(A) + Cardinality(B) <= most BY DEF ChargesBounded
<1>2. IsFiniteSet(A) /\ IsFiniteSet(B) /\ Cardinality(A) \in Nat /\ Cardinality(B) \in Nat
  BY RowsFinite, WorkersFinite DEF Charged, Confirmed, Inserting
<1>3. D \in SUBSET Workers /\ Cardinality(D) \in Nat BY WorkersFinite DEF Inserting
<1>4. C \subseteq DOMAIN reservations' BY DEF Charged, Confirmed
<1>5. DOMAIN reservations' \subseteq ReservationIds BY DEF TypeOK, TablesOK
<1>6. IsFiniteSet(C) /\ Cardinality(C) \in Nat
  BY <1>4, <1>5, LimitAssumption, FS_Subset, FS_CardinalityType
<1>7. most \in Int BY LimitAssumption, WorkersCounted
<1>8. \A v \in Workers \ {w} : v \in D <=> v \in B
  BY OthersKept DEF KeepsOthers, Inserting
<1>9. C \intersect DOMAIN reservations \subseteq A BY ChargedShrinks
<1>10. CASE C \subseteq A /\ D \subseteq B
  <2> HIDE DEF A, B, C, D, most
  <2>1. Cardinality(C) + Cardinality(D) <= Cardinality(A) + Cardinality(B)
    BY <1>2, <1>10, FewerCharges
  <2>2. Cardinality(C) + Cardinality(D) <= most
    BY <1>1, <1>2, <1>3, <1>6, <1>7, <2>1
  <2> QED BY <2>2 DEF C, D, most
<1>11. CASE InsertReservation(w)
  <2>1. pc[w] = "insert" /\ pc'[w] # "insert"
    BY <1>11, InsertComesFrom DEF InsertReservation
  <2>2. D \subseteq B \ {w} BY <1>8, <2>1 DEF Inserting
  <2>3. CASE DOMAIN reservations' = DOMAIN reservations
    BY <1>4, <1>9, <1>10, <2>2, <2>3
  <2>4. ASSUME NEW id, id \notin DOMAIN reservations,
               DOMAIN reservations' = DOMAIN reservations \union {id}
        PROVE  Cardinality(C) + Cardinality(D) <= most
    <3>1. reservations'[id].user = req[w].user BY <1>11, <2>4, InsertedOwner
    <3>2. C \subseteq A \union {id} BY <1>4, <1>9, <2>4
    <3>3. CASE req[w].user # u
      <4>1. id \notin C BY <3>1, <3>3 DEF Charged
      <4> QED BY <1>10, <2>2, <3>2, <4>1
    <3>4. CASE req[w].user = u
      <4>1. w \in B BY <2>1, <3>4 DEF Inserting
      <4> HIDE DEF A, B, C, D, most
      <4>2. Cardinality(C) + Cardinality(D) <= Cardinality(A) + Cardinality(B)
        BY <1>2, <2>2, <3>2, <4>1, ChargeMoves
      <4> QED BY <1>1, <1>2, <1>3, <1>6, <1>7, <4>2
    <3> QED BY <3>3, <3>4
  <2>5. \/ DOMAIN reservations' = DOMAIN reservations
        \/ \E id : /\ id \notin DOMAIN reservations
                   /\ DOMAIN reservations' = DOMAIN reservations \union {id}
    BY <1>11, InsertCase
  <2> QED BY <2>3, <2>4, <2>5
<1>12. CASE ~InsertReservation(w)
  <2>1. C \subseteq A BY <1>4, <1>9, <1>12, OwnersKept
  <2>2. CASE w \notin D BY <1>3, <1>8, <1>10, <2>1, <2>2
  <2>3. CASE w \in D
    <3>1. pc'[w] = "insert" /\ req'[w].user = u BY <2>3 DEF Inserting
    <3>2. req'[w] = req[w] /\ (req[w].op = "recurring" \/ WithinLimit(req[w].user))
      BY <3>1, InsertComesFrom
    <3>3. WithinLimit(u) BY <3>1, <3>2 DEF SeriesByStaff
    <3>4. Cardinality(ActiveOf(u)) < Limit["student"]
      BY <3>3, LimitAssumption DEF WithinLimit
    <3> DEFINE E == {v \in Workers : Editing(v)}
               T == {req[v].target : v \in E}
               f == [v \in Workers |-> req[v].target]
    <3>5. A \subseteq ActiveOf(u) \union T BY DEF Charged, ActiveOf
    <3>6. IsFiniteSet(ActiveOf(u)) /\ Cardinality(ActiveOf(u)) \in Nat
      BY RowsFinite DEF ActiveOf, Confirmed
    <3>7. E \in SUBSET Workers /\ IsFiniteSet(E) /\ Cardinality(E) \in Nat
      BY WorkersFinite
    <3>8. IsFiniteSet(T) /\ Cardinality(T) <= Cardinality(E) /\ Cardinality(T) \in Nat
      <4>1. T = {f[v] : v \in E} OBVIOUS
      <4> HIDE DEF E, T, f
      <4>2. IsFiniteSet(T) /\ Cardinality(T) <= Cardinality(E)
        BY <3>7, <4>1, ImageCounted
      <4> QED BY <4>2, FS_CardinalityType
    <3>9. E \intersect D = {}
      <4> SUFFICES ASSUME NEW v \in E, v \in D PROVE FALSE OBVIOUS
      <4>1. req'[v] = req[v] BY <3>2, OthersKept DEF KeepsOthers
      <4>2. pc'[v] = "insert" BY DEF Inserting
      <4>3. req'[v] \in CreateRequest BY <4>2 DEF TypeOK, ControlOK, Fits
      <4> QED BY <4>1, <4>3 DEF Editing, CreateRequest
    <3>10. Cardinality(E) + Cardinality(D) <= Cardinality(Workers)
      BY <1>3, <3>7, <3>9, DisjointWorkers
    <3>11. Cardinality(C) <= Cardinality(ActiveOf(u)) + Cardinality(T)
      <4> DEFINE S == ActiveOf(u)
      <4>1. C \subseteq S \union T BY <2>1, <3>5
      <4> HIDE DEF S, T, C
      <4>2. /\ IsFiniteSet(S \union T) /\ IsFiniteSet(S \intersect T)
            /\ Cardinality(S \union T)
                 = Cardinality(S) + Cardinality(T) - Cardinality(S \intersect T)
        BY <3>6, <3>8, FS_Union, FS_Subset DEF S
      <4>3. Cardinality(C) <= Cardinality(S \union T) BY <4>1, <4>2, FS_Subset
      <4>4. Cardinality(S \intersect T) \in Nat BY <4>2, FS_CardinalityType
      <4> QED BY <1>6, <3>6, <3>8, <4>2, <4>3, <4>4 DEF S
    <3> HIDE DEF C, D, E, T
    <3>12. Limit["student"] \in Nat /\ Cardinality(Workers) \in Nat
      BY LimitAssumption, WorkersCounted
    <3>13. Cardinality(C) + Cardinality(D) <= Limit["student"] + Cardinality(Workers) - 1
      BY <1>3, <1>6, <3>4, <3>6, <3>7, <3>8, <3>10, <3>11, <3>12
    <3> QED BY <3>13 DEF C, D
  <2> QED BY <2>2, <2>3
<1> QED BY <1>11, <1>12

LEMMA TickKeepsCharges ==
  ASSUME TypeOK, TypeOK', ChargesBounded, Tick \/ UNCHANGED vars
  PROVE  ChargesBounded'
<1>1. /\ UNCHANGED <<reservations, pc, req>>
      /\ today' \in Nat /\ today \in Nat /\ today' >= today
  BY DaysAreNat DEF Tick, tables, control, vars, clock, TypeOK, ClockOK
<1> SUFFICES ASSUME NEW u \in Users, RoleOf[u] = "student"
             PROVE  Cardinality(Charged(u)') + Cardinality(Inserting(u)')
                      <= Limit["student"] + Cardinality(Workers) - 1
  BY DEF ChargesBounded
<1>2. Charged(u)' \subseteq Charged(u)
  <2> SUFFICES ASSUME NEW r \in Charged(u)' PROVE r \in Charged(u) OBVIOUS
  <2>1. r \in Confirmed BY <1>1 DEF Charged, Confirmed
  <2>2. reservations[r].slot.date \in Nat
    BY <2>1, RowsWellTyped, DaysAreNat DEF Confirmed, Slot
  <2> QED BY <1>1, <2>1, <2>2 DEF Charged, Editing, Confirmed
<1>3. Inserting(u)' = Inserting(u) BY <1>1 DEF Inserting
<1>4. Charged(u) \subseteq DOMAIN reservations /\ Inserting(u) \in SUBSET Workers
  BY DEF Charged, Confirmed, Inserting
<1> DEFINE A == Charged(u)
           C == Charged(u)'
<1>5. IsFiniteSet(A) /\ Cardinality(A) \in Nat /\ Cardinality(Inserting(u)) \in Nat
  BY <1>4, RowsFinite, WorkersFinite
<1>6. Cardinality(A) + Cardinality(Inserting(u)) <= Limit["student"] + Cardinality(Workers) - 1
  BY DEF ChargesBounded
<1>7. C \subseteq A BY <1>2
<1>8. Limit["student"] \in Nat /\ Cardinality(Workers) \in Nat
  BY LimitAssumption, WorkersCounted
<1> HIDE DEF A, C
<1>9. Cardinality(C) <= Cardinality(A) /\ Cardinality(C) \in Nat
  BY <1>5, <1>7, FS_Subset, FS_CardinalityType
<1>10. Cardinality(C) + Cardinality(Inserting(u)) <= Limit["student"] + Cardinality(Workers) - 1
  BY <1>5, <1>6, <1>8, <1>9
<1> QED BY <1>3, <1>10 DEF C

LEMMA LimitInit == Init => LimitInvariant
<1> SUFFICES ASSUME Init PROVE LimitInvariant OBVIOUS
<1>1. \A w \in Workers : req[w].op = "none" /\ pc[w] = "idle" BY DEF Init, NoRequest
<1>2. \A u : Charged(u) = {} /\ Inserting(u) = {}
  BY <1>1 DEF Init, Charged, Confirmed, Inserting
<1>3. Cardinality({}) = 0 BY FS_EmptySet
<1>4. ChargesBounded BY <1>2, <1>3, LimitAssumption, WorkersCounted DEF ChargesBounded
<1> QED BY <1>1, <1>4, ReservationInit DEF LimitInvariant, SeriesByStaff

LEMMA LimitStep == LimitInvariant /\ [Next]_vars => LimitInvariant'
<1> SUFFICES ASSUME LimitInvariant, [Next]_vars PROVE LimitInvariant' OBVIOUS
<1> USE DEF LimitInvariant
<1>1. ReservationInvariant' BY ReservationStep
<1>2. TypeOK /\ TypeOK' /\ TargetsExist BY <1>1 DEF ReservationInvariant
<1>3. CASE UNCHANGED vars \/ Tick
  <2>1. SeriesByStaff' BY <1>3 DEF SeriesByStaff, Tick, vars, control
  <2> QED BY <1>1, <1>2, <1>3, <2>1, TickKeepsCharges
<1>4. ASSUME NEW w \in Workers, Submit(w) \/ Proceed(w) \/ Die(w)
      PROVE  LimitInvariant'
  BY <1>1, <1>2, <1>4, SeriesByStaffStep, ChargesBoundedStep
<1> QED BY <1>3, <1>4 DEF Next, RefuseRequest

(* enforceActiveLimit counts and the INSERT comes later, and an edit in     *)
(* progress when the date changes brings a past reservation back: with n    *)
(* requests served at once a student still passes the limit by at most      *)
(* n - 1 reservations, and with one at a time not at all.                   *)
THEOREM LimitOvershootIsBounded == Spec => []LimitOvershootBounded
<1>1. LimitInvariant => LimitOvershootBounded
  <2> SUFFICES ASSUME LimitInvariant, NEW u \in Users, RoleOf[u] = "student"
               PROVE  Cardinality(ActiveOf(u)) <= Limit["student"] + Cardinality(Workers) - 1
    BY DEF LimitOvershootBounded
  <2> DEFINE A == Charged(u)
             B == Inserting(u)
             C == ActiveOf(u)
  <2>1. Cardinality(A) + Cardinality(B) <= Limit["student"] + Cardinality(Workers) - 1
    BY DEF LimitInvariant, ChargesBounded
  <2>2. IsFiniteSet(A) /\ Cardinality(A) \in Nat /\ Cardinality(B) \in Nat
    BY RowsFinite, WorkersFinite
       DEF LimitInvariant, ReservationInvariant, Charged, Confirmed, Inserting
  <2>3. C \subseteq A BY DEF ActiveOf, Charged
  <2>4. Limit["student"] \in Nat /\ Cardinality(Workers) \in Nat
    BY LimitAssumption, WorkersCounted
  <2> HIDE DEF A, B, C
  <2>5. Cardinality(C) <= Cardinality(A) /\ Cardinality(C) \in Nat
    BY <2>2, <2>3, FS_Subset, FS_CardinalityType
  <2>6. Cardinality(C) <= Limit["student"] + Cardinality(Workers) - 1
    BY <2>1, <2>2, <2>4, <2>5
  <2> QED BY <2>6 DEF C
<1> QED BY <1>1, LimitInit, LimitStep, PTL DEF Spec

-------------------------------------------------------------------------------
(* How many statements a request may still run.  A handler has at most two *)
(* notices to send in the end, or one for each occurrence of a series that *)
(* is canceled and one more; a series has three statements and a blocking  *)
(* one for each date that its loop has left, and a blocking has two for    *)
(* each reservation that it overrides.                                     *)

NoticesLeft(t) == Cardinality(t.owners) + Cardinality(t.requester)
TailLeft(r) ==
  CASE r.op = "recurring" -> 1 + 3 * Cardinality(Rest(r))
    [] r.op = "cancelSeries" -> 1 + Cardinality(r.upcoming)
    [] OTHER -> 2
SlotStatements(label, r) ==
  CASE label = "checkReservations" -> IF r.op = "create" THEN 4 ELSE 3
    [] label = "checkBlockings" -> IF r.op = "create" THEN 3 ELSE 2
    [] label = "countActive" -> 2
    [] OTHER -> 1
Left(label, r, t) ==
  CASE label = "idle" -> 0
    [] label = "notify" -> NoticesLeft(t)
    [] label = "snapshot" -> 2 + Cardinality(Rest(r)) + 2 * Cardinality(ReservationIds)
    [] label = "overrideRow" -> Cardinality(Rest(r)) + 2 * Cardinality(r.snapshot)
    [] label \in {"insertBlocking", "notifyOverride"} ->
         1 + Cardinality(Rest(r)) + 2 * Cardinality(r.snapshot)
    [] OTHER -> SlotStatements(label, r) + TailLeft(r)
StatementsLeft(w) == Left(pc[w], req[w], todo[w])

(* What a handler remembers is finite; its tail is not reached for         *)
(* nothing, and neither is the UPDATE that overrides a reservation.        *)
Counts(label, r, t) ==
  /\ IsFiniteSet(t.owners) /\ IsFiniteSet(t.requester)
  /\ label = "notify" => t # NoNotices
  /\ label \in BlockLoop => IsFiniteSet(r.snapshot)
  /\ label = "overrideRow" => r.snapshot # {}
HandlersCount == \A w \in Workers : Counts(pc[w], req[w], todo[w])

(* Worker w goes on with at most n statements. *)
GoesOn(w, n) ==
  \E to, request, tail :
    /\ pc' = [pc EXCEPT ![w] = to] /\ req' = [req EXCEPT ![w] = request]
    /\ todo' = [todo EXCEPT ![w] = tail]
    /\ Counts(to, request, tail) /\ Left(to, request, tail) <= n

LEMMA DatesCounted == \A S \in SUBSET Days : IsFiniteSet(S) /\ Cardinality(S) \in Nat
<1>1. MaxDay \in Nat /\ Days = 1 .. MaxDay BY DaysAreNat DEF Days
<1>2. IsFiniteSet(Days) BY <1>1, FS_Interval
<1> QED BY <1>2, FS_Subset, FS_CardinalityType

LEMMA RestCounted ==
  ASSUME NEW r, r.dates \in SUBSET Days
  PROVE  Rest(r) \in SUBSET Days /\ Cardinality(Rest(r)) \in Nat
<1>1. Rest(r) \in SUBSET Days BY DEF Rest
<1> QED BY <1>1, DatesCounted

LEMMA RestShrinks ==
  ASSUME NEW r, r.dates \in SUBSET Days, NEW s, NEW d \in Rest(r),
         s.dates = Rest(r), s.slot.date = d
  PROVE  /\ Cardinality(Rest(s)) = Cardinality(Rest(r)) - 1
         /\ Cardinality(Rest(s)) \in Nat /\ Cardinality(Rest(r)) \in Nat
<1>1. Rest(r) \in SUBSET Days /\ Cardinality(Rest(r)) \in Nat BY RestCounted
<1>2. IsFiniteSet(Rest(r)) BY <1>1, DatesCounted
<1>3. Rest(s) = Rest(r) \ {d} BY DEF Rest
<1>4. Cardinality(Rest(s)) = Cardinality(Rest(r)) - 1 BY <1>2, <1>3, FS_RemoveElement
<1>5. Rest(s) \in SUBSET Days BY <1>1, <1>3
<1> QED BY <1>1, <1>4, <1>5, DatesCounted

LEMMA OneNotice ==
  ASSUME NEW condition \in BOOLEAN, NEW user, NEW kind, NEW about
  PROVE  LET S == NoticeIf(condition, user, kind, about)
         IN  IsFiniteSet(S) /\ Cardinality(S) \in 0 .. 1
<1> DEFINE n == [user |-> user, kind |-> kind, about |-> about]
<1>1. IsFiniteSet({n}) /\ Cardinality({n}) = 1 BY FS_Singleton
<1>2. IsFiniteSet({}) /\ Cardinality({}) = 0 BY FS_EmptySet
<1>3. NoticeIf(condition, user, kind, about) \in {{n}, {}} BY DEF NoticeIf
<1> HIDE DEF n
<1> QED BY <1>1, <1>2, <1>3

LEMMA TailCounted ==
  ASSUME NEW t \in Notices, IsFiniteSet(t.owners), IsFiniteSet(t.requester)
  PROVE  /\ Cardinality(t.owners) \in Nat /\ Cardinality(t.requester) \in Nat
         /\ NoticesLeft(t) \in Nat
         /\ NoticesLeft(t) = 0 <=> t = NoNotices
<1>1. Cardinality(t.owners) \in Nat /\ Cardinality(t.requester) \in Nat BY FS_CardinalityType
<1>2. /\ Cardinality(t.owners) = 0 <=> t.owners = {}
      /\ Cardinality(t.requester) = 0 <=> t.requester = {}
  BY FS_EmptySet
<1>3. t = [owners |-> t.owners, requester |-> t.requester] BY DEF Notices
<1>4. (t.owners = {} /\ t.requester = {}) <=> t = NoNotices BY <1>3 DEF NoNotices
<1> QED BY <1>1, <1>2, <1>4 DEF NoticesLeft

LEMMA GoesOnWith ==
  ASSUME ControlOK, NEW w \in Workers, NEW to, NEW request, Goto(w, to, request), UNCHANGED todo,
         Counts(to, request, todo[w]), NEW n, Left(to, request, todo[w]) <= n
  PROVE  GoesOn(w, n)
<1>1. todo' = [todo EXCEPT ![w] = todo[w]] BY DEF ControlOK
<1> QED BY <1>1 DEF Goto, GoesOn

LEMMA EndsWith ==
  ASSUME NEW w \in Workers, NEW tail \in Notices, Finish(w, tail),
         IsFiniteSet(tail.owners), IsFiniteSet(tail.requester), NEW n, NoticesLeft(tail) <= n
  PROVE  GoesOn(w, n)
<1> DEFINE to == IF tail = NoNotices THEN "idle" ELSE "notify"
<1>1. Left(to, NoRequest, tail) = NoticesLeft(tail)
  BY TailCounted DEF Left
<1>2. Counts(to, NoRequest, tail) BY DEF Counts, BlockLoop
<1> QED BY <1>1, <1>2 DEF Finish, GoesOn

LEMMA EndsAtOnce ==
  ASSUME NEW w \in Workers, Refuse(w), NEW n \in Nat
  PROVE  GoesOn(w, n)
<1>1. NoNotices \in Notices /\ IsFiniteSet(NoNotices.owners) /\ IsFiniteSet(NoNotices.requester)
  BY FS_EmptySet DEF NoNotices, Notices
<1>2. NoticesLeft(NoNotices) = 0 BY <1>1, TailCounted
<1> QED BY <1>1, <1>2, EndsWith DEF Refuse

LEMMA NextDateGoesOn ==
  ASSUME ControlOK, NEW w \in Workers, req[w] \in CreateRequest, NEW created \in BOOLEAN,
         req[w].op = "recurring",
         Counts(pc[w], req[w], todo[w]), NextDate(w, created)
  PROVE  /\ GoesOn(w, 1 + 3 * Cardinality(Rest(req[w])))
         /\ Cardinality(Rest(req[w])) \in Nat
<1> DEFINE r == req[w]
           condition == created /\ r.requester # NoUser
           tail == [owners |-> {}, requester |->
                      NoticeIf(condition, r.requester, "seriesConfirmed", r.series)]
<1>1. r.dates \in SUBSET Days BY DEF CreateRequest
<1>2. Cardinality(Rest(r)) \in Nat BY <1>1, RestCounted
<1>3. CASE Rest(r) = {} /\ Finish(w, tail)
  <2>1. IsFiniteSet(tail.owners) /\ Cardinality(tail.owners) = 0 BY FS_EmptySet
  <2>2. IsFiniteSet(tail.requester) /\ Cardinality(tail.requester) \in 0 .. 1
    <3>1. condition \in BOOLEAN OBVIOUS
    <3> QED BY <3>1, OneNotice
  <2>3. NoticesLeft(tail) <= 1 + 3 * Cardinality(Rest(r)) BY <1>2, <2>1, <2>2 DEF NoticesLeft
  <2>4. tail \in Notices
    <3>1. r.series \in SeriesIds \union {NoSeries} /\ r.requester \in Users \union {NoUser}
      BY DEF CreateRequest
    <3>2. r.series \in Nat /\ (condition => r.requester \in Users) BY <3>1, IdsAreNat
    <3>3. "seriesConfirmed" \in NoticeKinds BY DEF NoticeKinds
    <3>4. tail.requester \subseteq Notice BY <3>2, <3>3, NoticeIfType
    <3> QED BY <3>4 DEF Notices
  <2> HIDE DEF tail
  <2> QED BY <1>2, <1>3, <2>1, <2>2, <2>3, <2>4, EndsWith
<1>4. ASSUME NEW d \in Rest(r),
             Goto(w, "checkReservations",
                  [r EXCEPT !.dates = Rest(r), !.slot = OnDate(@, d), !.created = created]),
             UNCHANGED todo
      PROVE  GoesOn(w, 1 + 3 * Cardinality(Rest(r)))
  <2> DEFINE next == [r EXCEPT !.dates = Rest(r), !.slot = OnDate(@, d), !.created = created]
  <2>1. next.dates = Rest(r) /\ next.slot.date = d /\ next.op = r.op
    BY DEF CreateRequest, Slot, OnDate
  <2>2. /\ Cardinality(Rest(next)) = Cardinality(Rest(r)) - 1
        /\ Cardinality(Rest(next)) \in Nat
    BY <1>1, <2>1, RestShrinks
  <2>3. Counts("checkReservations", next, todo[w]) BY DEF Counts, BlockLoop
  <2>4. Left("checkReservations", next, todo[w]) <= 1 + 3 * Cardinality(Rest(r))
    BY <1>2, <2>1, <2>2 DEF Left, SlotStatements, TailLeft
  <2>5. Goto(w, "checkReservations", next) /\ UNCHANGED todo BY <1>4
  <2> HIDE DEF next
  <2> QED BY <2>3, <2>4, <2>5, GoesOnWith
<1> QED BY <1>2, <1>3, <1>4 DEF NextDate

(* Going on with the next statement for the same slot. *)
LEMMA SlotGoesOn ==
  ASSUME ControlOK, NEW w \in Workers, NEW to \in {"checkBlockings", "countActive", "insert",
                                                   "updateRow"},
         Goto(w, to, req[w]), UNCHANGED todo, Counts(pc[w], req[w], todo[w]),
         NEW n, SlotStatements(to, req[w]) + TailLeft(req[w]) <= n
  PROVE  GoesOn(w, n)
<1>1. Counts(to, req[w], todo[w]) BY DEF Counts, BlockLoop
<1>2. Left(to, req[w], todo[w]) = SlotStatements(to, req[w]) + TailLeft(req[w]) BY DEF Left
<1> QED BY <1>1, <1>2, GoesOnWith

LEMMA SlotTail ==
  ASSUME ControlOK, NEW w \in Workers, req[w] \in CreateRequest \union UpdateRequest
  PROVE  /\ TailLeft(req[w]) \in Nat \ {0}
         /\ req[w].op = "recurring" =>
              /\ req[w] \in CreateRequest /\ req[w].created \in BOOLEAN
              /\ Cardinality(Rest(req[w])) \in Nat
              /\ TailLeft(req[w]) = 1 + 3 * Cardinality(Rest(req[w]))
         /\ req[w].op # "recurring" => TailLeft(req[w]) = 2
<1>1. req[w].op \in {"create", "recurring", "update"} BY DEF CreateRequest, UpdateRequest
<1>2. req[w].op = "recurring" => req[w] \in CreateRequest BY DEF UpdateRequest
<1>3. req[w].op = "recurring" => req[w].dates \in SUBSET Days /\ req[w].created \in BOOLEAN
  BY <1>2 DEF CreateRequest
<1>4. req[w].op = "recurring" => Cardinality(Rest(req[w])) \in Nat BY <1>3, RestCounted
<1> QED BY <1>1, <1>2, <1>3, <1>4 DEF TailLeft

LEMMA UnavailableGoesOn ==
  ASSUME ControlOK, NEW w \in Workers, req[w] \in CreateRequest \union UpdateRequest,
         Counts(pc[w], req[w], todo[w]), Unavailable(w)
  PROVE  GoesOn(w, TailLeft(req[w]))
<1>1. CASE req[w].op = "recurring"
  BY <1>1, SlotTail, NextDateGoesOn DEF Unavailable
<1>2. CASE req[w].op # "recurring"
  BY <1>2, SlotTail, EndsAtOnce DEF Unavailable
<1> QED BY <1>1, <1>2

GoesDown(w) == \E n \in Nat : n < StatementsLeft(w) /\ GoesOn(w, n)

LEMMA SlotLeft ==
  ASSUME NEW w \in Workers,
         pc[w] \in {"checkReservations", "checkBlockings", "countActive", "insert", "updateRow"}
  PROVE  StatementsLeft(w) = SlotStatements(pc[w], req[w]) + TailLeft(req[w])
BY DEF StatementsLeft, Left

LEMMA CheckGoesDown ==
  ASSUME ControlOK, NEW w \in Workers, Counts(pc[w], req[w], todo[w]),
         CheckReservations(w) \/ CheckBlockings(w) \/ CountActive(w)
  PROVE  GoesDown(w)
<1>1. pc[w] \in {"checkReservations", "checkBlockings", "countActive"}
  BY DEF CheckReservations, CheckBlockings, CountActive
<1>2. /\ req[w] \in CreateRequest \union UpdateRequest
      /\ pc[w] = "countActive" => req[w] \in CreateRequest
  BY <1>1, RequestKind
<1>3. StatementsLeft(w) = SlotStatements(pc[w], req[w]) + TailLeft(req[w]) BY <1>1, SlotLeft
<1>4. TailLeft(req[w]) \in Nat BY <1>2, SlotTail
<1>5. SlotStatements(pc[w], req[w]) \in Nat \ {0} BY DEF SlotStatements
<1>6. CASE Unavailable(w)
  <2>1. GoesOn(w, TailLeft(req[w])) BY <1>2, <1>6, UnavailableGoesOn
  <2> QED BY <1>3, <1>4, <1>5, <2>1 DEF GoesDown
<1>7. CASE Refuse(w)
  <2>1. GoesOn(w, TailLeft(req[w])) BY <1>4, <1>7, EndsAtOnce
  <2> QED BY <1>3, <1>4, <1>5, <2>1 DEF GoesDown
<1>8. ASSUME NEW to \in {"checkBlockings", "countActive", "insert", "updateRow"},
             Goto(w, to, req[w]), UNCHANGED todo,
             SlotStatements(to, req[w]) < SlotStatements(pc[w], req[w])
      PROVE  GoesDown(w)
  <2> DEFINE n == SlotStatements(to, req[w]) + TailLeft(req[w])
  <2>1. SlotStatements(to, req[w]) \in Nat BY DEF SlotStatements
  <2>2. n \in Nat /\ n < StatementsLeft(w) BY <1>3, <1>4, <1>5, <1>8, <2>1
  <2>3. GoesOn(w, n) BY <1>8, <2>2, SlotGoesOn
  <2> QED BY <2>2, <2>3 DEF GoesDown
<1>9. CASE CheckReservations(w)
  <2>1. pc[w] = "checkReservations"
        /\ (Unavailable(w) \/ (Goto(w, "checkBlockings", req[w]) /\ UNCHANGED todo))
    BY <1>9 DEF CheckReservations
  <2>2. SlotStatements("checkBlockings", req[w]) < SlotStatements("checkReservations", req[w])
    BY DEF SlotStatements
  <2> QED BY <1>6, <1>8, <2>1, <2>2
<1>10. CASE CheckBlockings(w)
  <2> DEFINE to == IF req[w].op = "create" THEN "countActive"
                   ELSE IF req[w].op = "recurring" THEN "insert" ELSE "updateRow"
  <2>1. pc[w] = "checkBlockings" /\ (Unavailable(w) \/ (Goto(w, to, req[w]) /\ UNCHANGED todo))
    BY <1>10 DEF CheckBlockings
  <2>2. SlotStatements(to, req[w]) < SlotStatements("checkBlockings", req[w])
    BY DEF SlotStatements
  <2>3. to \in {"checkBlockings", "countActive", "insert", "updateRow"} OBVIOUS
  <2> HIDE DEF to
  <2> QED BY <1>6, <1>8, <2>1, <2>2, <2>3
<1>11. CASE CountActive(w)
  <2>1. pc[w] = "countActive" /\ (Refuse(w) \/ (Goto(w, "insert", req[w]) /\ UNCHANGED todo))
    BY <1>11 DEF CountActive
  <2>2. SlotStatements("insert", req[w]) < SlotStatements("countActive", req[w])
    BY DEF SlotStatements
  <2> QED BY <1>7, <1>8, <2>1, <2>2
<1> QED BY <1>9, <1>10, <1>11

LEMMA InsertGoesDown ==
  ASSUME ControlOK, NEW w \in Workers, Counts(pc[w], req[w], todo[w]), InsertReservation(w)
  PROVE  GoesDown(w)
<1> DEFINE r == req[w]
           tail(id) == [owners |-> NoticeIf(TRUE, r.user, "confirmed", id),
                        requester |-> NoticeIf(r.requester # NoUser, r.requester, "confirmed", id)]
<1>1. pc[w] = "insert" BY DEF InsertReservation
<1>2. r \in CreateRequest BY <1>1, RequestKind
<1>3. StatementsLeft(w) = 1 + TailLeft(r) BY <1>1, SlotLeft DEF SlotStatements
<1>4. TailLeft(r) \in Nat BY <1>2, SlotTail
<1>5. SUFFICES GoesOn(w, TailLeft(r)) BY <1>3, <1>4 DEF GoesDown
<1>6. \/ Unavailable(w)
      \/ r.op = "recurring" /\ NextDate(w, TRUE)
      \/ r.op # "recurring" /\ \E id \in ReservationIds : Finish(w, tail(id))
  BY DEF InsertReservation
<1>7. CASE Unavailable(w) BY <1>2, <1>7, UnavailableGoesOn
<1>8. CASE r.op = "recurring" /\ NextDate(w, TRUE) BY <1>2, <1>8, SlotTail, NextDateGoesOn
<1>9. ASSUME r.op # "recurring", NEW id \in ReservationIds, Finish(w, tail(id))
      PROVE  GoesOn(w, TailLeft(r))
  <2>1. r.user \in Users /\ r.requester \in Users \union {NoUser} /\ id \in Nat
    BY <1>2, IdsAreNat DEF CreateRequest
  <2>2. "confirmed" \in NoticeKinds BY DEF NoticeKinds
  <2>3. tail(id).owners \subseteq Notice /\ tail(id).requester \subseteq Notice
    BY <2>1, <2>2, NoticeIfType
  <2>4. tail(id) \in Notices BY <2>3 DEF Notices
  <2>5. IsFiniteSet(tail(id).owners) /\ Cardinality(tail(id).owners) \in 0 .. 1 BY OneNotice
  <2>6. IsFiniteSet(tail(id).requester) /\ Cardinality(tail(id).requester) \in 0 .. 1
    BY OneNotice
  <2>7. TailLeft(r) = 2 BY <1>2, <1>9, SlotTail
  <2> HIDE DEF tail
  <2>8. NoticesLeft(tail(id)) <= TailLeft(r) BY <2>5, <2>6, <2>7 DEF NoticesLeft
  <2> QED BY <1>9, <2>4, <2>5, <2>6, <2>8, EndsWith
<1> QED BY <1>6, <1>7, <1>8, <1>9

(* The notices of a changed row. *)
LEMMA PartiesCounted ==
  ASSUME NEW row \in ReservationRow, NEW user, NEW kind \in NoticeKinds, NEW id \in ReservationIds
  PROVE  LET t == Parties(row, user, kind, id)
         IN  /\ t \in Notices /\ IsFiniteSet(t.owners) /\ IsFiniteSet(t.requester)
             /\ NoticesLeft(t) <= 2
<1> DEFINE t == Parties(row, user, kind, id)
<1>1. t \in Notices BY IdsAreNat, PartiesType
<1>2. IsFiniteSet(t.owners) /\ Cardinality(t.owners) \in 0 .. 1 BY OneNotice DEF Parties
<1>3. IsFiniteSet(t.requester) /\ Cardinality(t.requester) \in 0 .. 1 BY OneNotice DEF Parties
<1> HIDE DEF t
<1>4. NoticesLeft(t) <= 2 BY <1>2, <1>3 DEF NoticesLeft
<1> QED BY <1>1, <1>2, <1>3, <1>4 DEF t

LEMMA RowGoesDown ==
  ASSUME TypeOK, TargetsExist, NEW w \in Workers, Counts(pc[w], req[w], todo[w]),
         UpdateReservation(w) \/ CancelReservation(w)
  PROVE  GoesDown(w)
<1> DEFINE id == req[w].target
<1>1. ControlOK /\ TablesOK BY DEF TypeOK
<1>2. pc[w] \in {"updateRow", "cancelRow"} BY DEF UpdateReservation, CancelReservation
<1>3. req[w] \in UpdateRequest \union CancelRequest BY <1>1, <1>2, RequestKind
<1>4. req[w].op \in {"update", "cancel"} BY <1>3 DEF UpdateRequest, CancelRequest
<1>5. StatementsLeft(w) = 3
  BY <1>2, <1>4 DEF StatementsLeft, Left, SlotStatements, TailLeft
<1>6. id \in DOMAIN reservations BY <1>4 DEF TargetsExist, Refers
<1>7. reservations[id] \in ReservationRow /\ id \in ReservationIds BY <1>1, <1>6 DEF TablesOK
<1>8. \/ Refuse(w)
      \/ Finish(w, Parties(reservations[id], req[w].user, "modified", id))
      \/ Finish(w, Parties(reservations[id], req[w].user, "canceled", id))
  BY DEF UpdateReservation, CancelReservation
<1>9. {"modified", "canceled"} \subseteq NoticeKinds BY DEF NoticeKinds
<1>10. GoesOn(w, 2)
  <2>1. ASSUME NEW kind \in NoticeKinds,
               Finish(w, Parties(reservations[id], req[w].user, kind, id))
        PROVE  GoesOn(w, 2)
    <3> DEFINE t == Parties(reservations[id], req[w].user, kind, id)
    <3>1. /\ t \in Notices /\ IsFiniteSet(t.owners) /\ IsFiniteSet(t.requester)
          /\ NoticesLeft(t) <= 2
      BY <1>7, PartiesCounted
    <3>2. Finish(w, t) BY <2>1
    <3> HIDE DEF t
    <3> QED BY <3>1, <3>2, EndsWith
  <2>2. CASE Refuse(w) BY <2>2, EndsAtOnce
  <2> QED BY <1>8, <1>9, <2>1, <2>2
<1> QED BY <1>5, <1>10 DEF GoesDown

LEMMA SeriesGoesDown ==
  ASSUME TypeOK, TargetsExist, NEW w \in Workers, CancelSeriesRows(w)
  PROVE  GoesDown(w)
<1> DEFINE r == req[w]
           head == recurrences[r.series]
           told(k) == [user |-> reservations[k].user, kind |-> "seriesCanceled", about |-> k]
           f == [k \in r.upcoming |-> told(k)]
           all == {f[k] : k \in r.upcoming}
           owners == UNION {NoticeIf(reservations[k].user # r.user,
                                     reservations[k].user, "seriesCanceled", k) : k \in r.upcoming}
           summary == NoticeIf(head.requester \notin {NoUser, r.user},
                               head.requester, "seriesCanceled", r.series)
           tail == [owners |-> owners, requester |-> summary]
<1>1. ControlOK /\ TablesOK BY DEF TypeOK
<1>2. pc[w] = "cancelSeriesRows" BY DEF CancelSeriesRows
<1>3. r \in CancelSeriesRequest BY <1>1, <1>2, RequestKind
<1>4. /\ r.op = "cancelSeries" /\ r.upcoming \subseteq ReservationIds /\ r.series \in SeriesIds
  BY <1>3 DEF CancelSeriesRequest
<1>5. r.upcoming \subseteq DOMAIN reservations /\ r.series \in DOMAIN recurrences
  BY <1>4 DEF TargetsExist, Refers
<1>6. IsFiniteSet(r.upcoming) /\ Cardinality(r.upcoming) \in Nat BY <1>5, RowsFinite
<1>7. owners \subseteq all BY DEF NoticeIf
<1>8. IsFiniteSet(all) /\ Cardinality(all) <= Cardinality(r.upcoming) BY <1>6, ImageCounted
<1>9. /\ IsFiniteSet(owners) /\ Cardinality(owners) \in Nat
      /\ Cardinality(owners) <= Cardinality(r.upcoming)
  <2> HIDE DEF owners, all
  <2>1. IsFiniteSet(owners) /\ Cardinality(owners) <= Cardinality(all)
    BY <1>7, <1>8, FS_Subset
  <2>2. Cardinality(owners) \in Nat /\ Cardinality(all) \in Nat
    BY <1>8, <2>1, FS_CardinalityType
  <2> QED BY <1>6, <1>8, <2>1, <2>2
<1>10. IsFiniteSet(summary) /\ Cardinality(summary) \in 0 .. 1 BY OneNotice
<1>11. tail \in Notices
  <2>1. "seriesCanceled" \in NoticeKinds BY DEF NoticeKinds
  <2>2. \A k \in r.upcoming : told(k) \in Notice
    <3>1. \A k \in r.upcoming : reservations[k].user \in Users /\ k \in Nat
      BY <1>1, <1>4, <1>5, IdsAreNat DEF TablesOK, ReservationRow
    <3> QED BY <2>1, <3>1 DEF Notice
  <2>3. owners \subseteq Notice BY <1>7, <2>2
  <2>4. head.requester \in Users \union {NoUser} /\ r.series \in Nat
    BY <1>1, <1>4, <1>5, IdsAreNat DEF TablesOK, RecurrenceRow
  <2>5. summary \subseteq Notice BY <2>1, <2>4, NoticeIfType
  <2> QED BY <2>3, <2>5 DEF Notices
<1>12. Finish(w, tail) BY DEF CancelSeriesRows
<1>13. StatementsLeft(w) = 2 + Cardinality(r.upcoming)
  BY <1>2, <1>4, <1>6 DEF StatementsLeft, Left, SlotStatements, TailLeft
<1>14. tail.owners = owners /\ tail.requester = summary OBVIOUS
<1> HIDE DEF tail, owners, summary, r
<1>15. NoticesLeft(tail) <= 1 + Cardinality(r.upcoming)
  BY <1>6, <1>9, <1>10, <1>14 DEF NoticesLeft
<1>16. GoesOn(w, 1 + Cardinality(r.upcoming))
  BY <1>9, <1>10, <1>11, <1>12, <1>14, <1>15, EndsWith
<1> QED BY <1>6, <1>13, <1>16 DEF GoesDown

LEMMA SnapshotGoesDown ==
  ASSUME TypeOK, NEW w \in Workers, Counts(pc[w], req[w], todo[w]), TakeSnapshot(w)
  PROVE  GoesDown(w)
<1> DEFINE r == req[w]
           f == [k \in Collisions(r) |-> [id |-> k, slot |-> reservations[k].slot]]
           found == {f[k] : k \in Collisions(r)}
           next == [r EXCEPT !.snapshot = found]
           n == 1 + Cardinality(Rest(r)) + 2 * Cardinality(ReservationIds)
<1>1. ControlOK /\ TablesOK BY DEF TypeOK
<1>2. pc[w] = "snapshot" BY DEF TakeSnapshot
<1>3. r \in BlockRequest BY <1>1, <1>2, RequestKind
<1>4. Cardinality(Rest(r)) \in Nat
  <2>1. r.dates \in SUBSET Days BY <1>3 DEF BlockRequest
  <2> QED BY <2>1, RestCounted
<1>5. Collisions(r) \in SUBSET ReservationIds BY <1>1 DEF Collisions, Confirmed, TablesOK
<1>6. /\ IsFiniteSet(Collisions(r))
      /\ Cardinality(Collisions(r)) <= Cardinality(ReservationIds)
      /\ Cardinality(Collisions(r)) \in Nat /\ Cardinality(ReservationIds) \in Nat
  BY <1>5, LimitAssumption, FS_Subset, FS_CardinalityType
<1>7. IsFiniteSet(found) /\ Cardinality(found) <= Cardinality(Collisions(r))
  BY <1>6, ImageCounted
<1>8. Cardinality(found) \in Nat BY <1>7, FS_CardinalityType
<1>9. Goto(w, "insertBlocking", next) /\ UNCHANGED todo
  <2>1. found = {[id |-> k, slot |-> reservations[k].slot] : k \in Collisions(r)} OBVIOUS
  <2> HIDE DEF found
  <2> QED BY <2>1 DEF TakeSnapshot
<1>10. next.snapshot = found /\ Rest(next) = Rest(r) BY <1>3 DEF BlockRequest, Rest
<1> HIDE DEF next, found, r
<1>11. Counts("insertBlocking", next, todo[w]) BY <1>7, <1>10 DEF Counts
<1>12. Left("insertBlocking", next, todo[w]) = 1 + Cardinality(Rest(r)) + 2 * Cardinality(found)
  BY <1>10 DEF Left
<1>13. n \in Nat /\ 1 + Cardinality(Rest(r)) + 2 * Cardinality(found) <= n
  BY <1>4, <1>6, <1>7, <1>8
<1>14. GoesOn(w, n) BY <1>1, <1>9, <1>11, <1>12, <1>13, GoesOnWith
<1>15. StatementsLeft(w) = n + 1 BY <1>2, <1>4, <1>6 DEF StatementsLeft, Left, r
<1> QED BY <1>13, <1>14, <1>15 DEF GoesDown

LEMMA NextInLoopGoesOn ==
  ASSUME ControlOK, NEW w \in Workers, NEW r \in BlockRequest, IsFiniteSet(r.snapshot),
         Counts(pc[w], req[w], todo[w]), NextInLoop(w, r)
  PROVE  /\ GoesOn(w, Cardinality(Rest(r)) + 2 * Cardinality(r.snapshot))
         /\ Cardinality(Rest(r)) \in Nat /\ Cardinality(r.snapshot) \in Nat
<1> DEFINE n == Cardinality(Rest(r)) + 2 * Cardinality(r.snapshot)
<1>1. r.dates \in SUBSET Days BY DEF BlockRequest
<1>2. Cardinality(Rest(r)) \in Nat /\ Cardinality(r.snapshot) \in Nat
  BY <1>1, RestCounted, FS_CardinalityType
<1>3. n \in Nat BY <1>2
<1>4. ASSUME r.snapshot # {}, Goto(w, "overrideRow", r), UNCHANGED todo
      PROVE  GoesOn(w, n)
  <2>1. Counts("overrideRow", r, todo[w]) BY <1>4 DEF Counts
  <2>2. Left("overrideRow", r, todo[w]) <= n BY <1>3 DEF Left
  <2> QED BY <1>4, <2>1, <2>2, GoesOnWith
<1>5. ASSUME Refuse(w) PROVE GoesOn(w, n) BY <1>3, <1>5, EndsAtOnce
<1>6. ASSUME NEW d \in Rest(r),
             Goto(w, "insertBlocking", [r EXCEPT !.dates = Rest(r), !.slot = OnDate(@, d)]),
             UNCHANGED todo
      PROVE  GoesOn(w, n)
  <2> DEFINE next == [r EXCEPT !.dates = Rest(r), !.slot = OnDate(@, d)]
  <2>1. next.dates = Rest(r) /\ next.slot.date = d /\ next.snapshot = r.snapshot
    BY DEF BlockRequest, Slot, OnDate
  <2>2. /\ Cardinality(Rest(next)) = Cardinality(Rest(r)) - 1
        /\ Cardinality(Rest(next)) \in Nat
    BY <1>1, <2>1, RestShrinks
  <2>3. Goto(w, "insertBlocking", next) /\ UNCHANGED todo BY <1>6
  <2> HIDE DEF next
  <2>4. Counts("insertBlocking", next, todo[w]) BY <2>1 DEF Counts
  <2>5. Left("insertBlocking", next, todo[w]) <= n BY <1>2, <2>1, <2>2 DEF Left
  <2> QED BY <2>3, <2>4, <2>5, GoesOnWith
<1> QED BY <1>2, <1>4, <1>5, <1>6 DEF NextInLoop

LEMMA LoopGoesDown ==
  ASSUME ControlOK, NEW w \in Workers, Counts(pc[w], req[w], todo[w]),
         InsertBlocking(w) \/ OverrideReservation(w) \/ NotifyOverride(w)
  PROVE  GoesDown(w)
<1> DEFINE r == req[w]
<1>1. pc[w] \in BlockLoop BY DEF InsertBlocking, OverrideReservation, NotifyOverride, BlockLoop
<1>2. r \in BlockRequest BY <1>1, RequestKind
<1>3. IsFiniteSet(r.snapshot) BY <1>1 DEF Counts
<1>4. Cardinality(Rest(r)) \in Nat /\ Cardinality(r.snapshot) \in Nat
  <2>1. r.dates \in SUBSET Days BY <1>2 DEF BlockRequest
  <2> QED BY <1>3, <2>1, RestCounted, FS_CardinalityType
<1>5. CASE InsertBlocking(w)
  <2>1. pc[w] = "insertBlocking" /\ NextInLoop(w, r) BY <1>5 DEF InsertBlocking
  <2>2. GoesOn(w, Cardinality(Rest(r)) + 2 * Cardinality(r.snapshot))
    BY <1>2, <1>3, <2>1, NextInLoopGoesOn
  <2>3. StatementsLeft(w) = 1 + Cardinality(Rest(r)) + 2 * Cardinality(r.snapshot)
    BY <2>1 DEF StatementsLeft, Left
  <2> QED BY <1>4, <2>2, <2>3 DEF GoesDown
<1>6. CASE OverrideReservation(w)
  <2>1. PICK x \in r.snapshot :
          Goto(w, "notifyOverride", [r EXCEPT !.snapshot = @ \ {x}, !.told = x.id])
    BY <1>6 DEF OverrideReservation
  <2> DEFINE next == [r EXCEPT !.snapshot = @ \ {x}, !.told = x.id]
             n == 1 + Cardinality(Rest(r)) + 2 * (Cardinality(r.snapshot) - 1)
  <2>2. next.snapshot = r.snapshot \ {x} /\ Rest(next) = Rest(r) BY <1>2 DEF BlockRequest, Rest
  <2>3. Goto(w, "notifyOverride", next) /\ UNCHANGED todo BY <1>6, <2>1 DEF OverrideReservation
  <2> HIDE DEF next
  <2>4. IsFiniteSet(next.snapshot) /\ Cardinality(next.snapshot) = Cardinality(r.snapshot) - 1
    BY <1>3, <2>2, FS_RemoveElement
  <2>5. Cardinality(next.snapshot) \in Nat BY <2>4, FS_CardinalityType
  <2>6. Counts("notifyOverride", next, todo[w]) BY <2>4 DEF Counts
  <2>7. Left("notifyOverride", next, todo[w]) = n BY <2>2, <2>4 DEF Left
  <2>8. n \in Nat BY <1>4, <2>4, <2>5
  <2>9. GoesOn(w, n) BY <2>3, <2>6, <2>7, <2>8, GoesOnWith
  <2>10. pc[w] = "overrideRow" BY <1>6 DEF OverrideReservation
  <2>11. StatementsLeft(w) = Cardinality(Rest(r)) + 2 * Cardinality(r.snapshot)
    BY <2>10 DEF StatementsLeft, Left
  <2> QED BY <1>4, <2>8, <2>9, <2>11 DEF GoesDown
<1>7. CASE NotifyOverride(w)
  <2> DEFINE next == [r EXCEPT !.told = NoRow]
  <2>1. pc[w] = "notifyOverride" /\ NextInLoop(w, next) BY <1>7 DEF NotifyOverride
  <2>2. next \in BlockRequest /\ next.snapshot = r.snapshot /\ Rest(next) = Rest(r)
    BY <1>2 DEF BlockRequest, Rest
  <2> HIDE DEF next
  <2>3. GoesOn(w, Cardinality(Rest(r)) + 2 * Cardinality(r.snapshot))
    BY <1>3, <2>1, <2>2, NextInLoopGoesOn
  <2>4. StatementsLeft(w) = 1 + Cardinality(Rest(r)) + 2 * Cardinality(r.snapshot)
    BY <2>1 DEF StatementsLeft, Left
  <2> QED BY <1>4, <2>3, <2>4 DEF GoesDown
<1> QED BY <1>5, <1>6, <1>7

LEMMA UnblockGoesDown ==
  ASSUME ControlOK, NEW w \in Workers, RemoveBlocking(w)
  PROVE  GoesDown(w)
<1>1. pc[w] = "removeBlocking" /\ Refuse(w) BY DEF RemoveBlocking
<1>2. req[w].op = "unblock" BY <1>1, RequestKind DEF UnblockRequest
<1>3. StatementsLeft(w) = 3 BY <1>1, <1>2 DEF StatementsLeft, Left, SlotStatements, TailLeft
<1>4. GoesOn(w, 0) BY <1>1, EndsAtOnce
<1> QED BY <1>3, <1>4 DEF GoesDown

LEMMA TailGoesDown ==
  ASSUME ControlOK, NEW w \in Workers, Counts(pc[w], req[w], todo[w]), NotifyParty(w)
  PROVE  GoesDown(w)
<1> DEFINE t == todo[w]
<1>1. t \in Notices BY DEF ControlOK
<1>2. IsFiniteSet(t.owners) /\ IsFiniteSet(t.requester) BY DEF Counts
<1>3. Cardinality(t.owners) \in Nat /\ Cardinality(t.requester) \in Nat BY <1>2, FS_CardinalityType
<1>4. StatementsLeft(w) = NoticesLeft(t) BY DEF NotifyParty, StatementsLeft, Left
<1>5. ASSUME NEW tail \in Notices, Finish(w, tail),
             IsFiniteSet(tail.owners), IsFiniteSet(tail.requester),
             NoticesLeft(tail) \in Nat, NoticesLeft(tail) < NoticesLeft(t)
      PROVE  GoesDown(w)
  <2>1. GoesOn(w, NoticesLeft(tail)) BY <1>5, EndsWith
  <2> QED BY <1>4, <1>5, <2>1 DEF GoesDown
<1>6. CASE \E n \in t.owners : Finish(w, [t EXCEPT !.owners = @ \ {n}])
  <2>1. PICK n \in t.owners : Finish(w, [t EXCEPT !.owners = @ \ {n}]) BY <1>6
  <2> DEFINE tail == [t EXCEPT !.owners = @ \ {n}]
  <2>2. tail \in Notices /\ tail.owners = t.owners \ {n} /\ tail.requester = t.requester
    BY <1>1 DEF Notices
  <2>3. IsFiniteSet(tail.owners) /\ Cardinality(tail.owners) = Cardinality(t.owners) - 1
    BY <1>2, <2>2, FS_RemoveElement
  <2>4. Finish(w, tail) BY <2>1
  <2> HIDE DEF tail
  <2>5. Cardinality(tail.owners) \in Nat BY <2>3, FS_CardinalityType
  <2>6. NoticesLeft(tail) \in Nat /\ NoticesLeft(tail) < NoticesLeft(t)
    BY <1>3, <2>2, <2>3, <2>5 DEF NoticesLeft
  <2>7. IsFiniteSet(tail.requester) BY <1>2, <2>2
  <2> QED BY <1>5, <2>2, <2>3, <2>4, <2>6, <2>7
<1>7. CASE \E n \in t.requester : Finish(w, [t EXCEPT !.requester = @ \ {n}])
  <2>1. PICK n \in t.requester : Finish(w, [t EXCEPT !.requester = @ \ {n}]) BY <1>7
  <2> DEFINE tail == [t EXCEPT !.requester = @ \ {n}]
  <2>2. tail \in Notices /\ tail.requester = t.requester \ {n} /\ tail.owners = t.owners
    BY <1>1 DEF Notices
  <2>3. IsFiniteSet(tail.requester) /\ Cardinality(tail.requester) = Cardinality(t.requester) - 1
    BY <1>2, <2>2, FS_RemoveElement
  <2>4. Finish(w, tail) BY <2>1
  <2> HIDE DEF tail
  <2>5. Cardinality(tail.requester) \in Nat BY <2>3, FS_CardinalityType
  <2>6. NoticesLeft(tail) \in Nat /\ NoticesLeft(tail) < NoticesLeft(t)
    BY <1>3, <2>2, <2>3, <2>5 DEF NoticesLeft
  <2>7. IsFiniteSet(tail.owners) BY <1>2, <2>2
  <2> QED BY <1>5, <2>2, <2>3, <2>4, <2>6, <2>7
<1> QED BY <1>6, <1>7 DEF NotifyParty

LEMMA ProceedGoesDown ==
  ASSUME TypeOK, TargetsExist, NEW w \in Workers, Counts(pc[w], req[w], todo[w]), Proceed(w)
  PROVE  GoesDown(w)
<1>1. ControlOK BY DEF TypeOK
<1> QED BY <1>1, CheckGoesDown, InsertGoesDown, RowGoesDown, SeriesGoesDown, SnapshotGoesDown,
           LoopGoesDown, UnblockGoesDown, TailGoesDown DEF Proceed

(* There is something left for whoever is under way. *)
LEMMA LeftIsNat ==
  ASSUME TypeOK, NEW w \in Workers, Counts(pc[w], req[w], todo[w])
  PROVE  StatementsLeft(w) \in Nat /\ (pc[w] # "idle" => StatementsLeft(w) > 0)
<1>1. ControlOK BY DEF TypeOK
<1>2. pc[w] \in Labels /\ todo[w] \in Notices BY <1>1 DEF ControlOK
<1>3. CASE pc[w] = "idle" BY <1>3 DEF StatementsLeft, Left
<1>4. CASE pc[w] = "notify"
  <2>1. StatementsLeft(w) = NoticesLeft(todo[w]) BY <1>4 DEF StatementsLeft, Left
  <2>2. IsFiniteSet(todo[w].owners) /\ IsFiniteSet(todo[w].requester) /\ todo[w] # NoNotices
    BY <1>4 DEF Counts
  <2>3. NoticesLeft(todo[w]) \in Nat /\ NoticesLeft(todo[w]) # 0 BY <1>2, <2>2, TailCounted
  <2> QED BY <2>1, <2>3
<1>5. CASE pc[w] \in BlockLoop \union {"snapshot"}
  <2>1. req[w] \in BlockRequest BY <1>1, <1>5, RequestKind
  <2>2. Cardinality(Rest(req[w])) \in Nat
    <3>1. req[w].dates \in SUBSET Days BY <2>1 DEF BlockRequest
    <3> QED BY <3>1, RestCounted
  <2>3. CASE pc[w] = "snapshot"
    <3>1. Cardinality(ReservationIds) \in Nat BY LimitAssumption, FS_CardinalityType
    <3> QED BY <2>2, <2>3, <3>1 DEF StatementsLeft, Left
  <2>4. CASE pc[w] \in BlockLoop
    <3>1. IsFiniteSet(req[w].snapshot) BY <2>4 DEF Counts
    <3>2. Cardinality(req[w].snapshot) \in Nat BY <3>1, FS_CardinalityType
    <3>3. CASE pc[w] # "overrideRow" BY <2>2, <2>4, <3>2, <3>3 DEF StatementsLeft, Left, BlockLoop
    <3>4. CASE pc[w] = "overrideRow"
      <4>1. req[w].snapshot # {} BY <3>4 DEF Counts
      <4>2. Cardinality(req[w].snapshot) # 0 BY <3>1, <4>1, FS_EmptySet
      <4> QED BY <2>2, <3>2, <3>4, <4>2 DEF StatementsLeft, Left
    <3> QED BY <3>3, <3>4
  <2> QED BY <1>5, <2>3, <2>4
<1>6. CASE pc[w] \in {"checkReservations", "checkBlockings", "countActive", "insert", "updateRow",
                       "cancelRow", "cancelSeriesRows", "removeBlocking"}
  <2>1. StatementsLeft(w) = SlotStatements(pc[w], req[w]) + TailLeft(req[w])
    BY <1>6 DEF StatementsLeft, Left
  <2>2. SlotStatements(pc[w], req[w]) \in Nat \ {0} BY DEF SlotStatements
  <2>3. TailLeft(req[w]) \in Nat
    <3>1. CASE pc[w] \in {"checkReservations", "checkBlockings", "countActive", "insert",
                           "updateRow"}
      <4>1. req[w] \in CreateRequest \union UpdateRequest BY <1>1, <3>1, RequestKind
      <4> QED BY <1>1, <4>1, SlotTail
    <3>2. CASE pc[w] = "cancelRow"
      <4>1. req[w].op = "cancel" BY <1>1, <3>2, RequestKind DEF CancelRequest
      <4> QED BY <4>1 DEF TailLeft
    <3>3. CASE pc[w] = "removeBlocking"
      <4>1. req[w].op = "unblock" BY <1>1, <3>3, RequestKind DEF UnblockRequest
      <4> QED BY <4>1 DEF TailLeft
    <3>4. CASE pc[w] = "cancelSeriesRows"
      <4>1. req[w].op = "cancelSeries" /\ req[w].upcoming \subseteq ReservationIds
        BY <1>1, <3>4, RequestKind DEF CancelSeriesRequest
      <4>2. Cardinality(req[w].upcoming) \in Nat
        BY <4>1, LimitAssumption, FS_Subset, FS_CardinalityType
      <4> QED BY <4>1, <4>2 DEF TailLeft
    <3> QED BY <1>6, <3>1, <3>2, <3>3, <3>4
  <2> QED BY <2>1, <2>2, <2>3
<1> QED BY <1>2, <1>3, <1>4, <1>5, <1>6 DEF Labels, BlockLoop

(* A request that dies is over, or is a series that goes on with its next  *)
(* date: there is less left all the same.                                  *)
LEMMA DieGoesDown ==
  ASSUME TypeOK, NEW w \in Workers, Counts(pc[w], req[w], todo[w]), Die(w)
  PROVE  GoesDown(w)
<1>1. ControlOK BY DEF TypeOK
<1>2. StatementsLeft(w) \in Nat /\ StatementsLeft(w) > 0 BY LeftIsNat DEF Die
<1>3. CASE Refuse(w)
  <2>1. GoesOn(w, 0) BY <1>3, EndsAtOnce
  <2> QED BY <1>2, <2>1 DEF GoesDown
<1>4. CASE pc[w] # "notify" /\ req[w].op = "recurring" /\ NextDate(w, req[w].created)
  <2>1. pc[w] \in Labels \ {"idle", "notify"} BY <1>1, <1>4 DEF Die, ControlOK
  <2>2. /\ pc[w] \in {"checkReservations", "checkBlockings", "countActive", "insert"}
        /\ req[w] \in CreateRequest \union UpdateRequest
    BY <1>1, <1>4, <2>1, RequestKind
    DEF Labels, BlockLoop, UpdateRequest, CancelRequest, CancelSeriesRequest, BlockRequest,
        UnblockRequest
  <2>3. /\ req[w] \in CreateRequest /\ req[w].created \in BOOLEAN
        /\ Cardinality(Rest(req[w])) \in Nat
        /\ TailLeft(req[w]) = 1 + 3 * Cardinality(Rest(req[w]))
    BY <1>1, <1>4, <2>2, SlotTail
  <2>4. GoesOn(w, TailLeft(req[w])) BY <1>1, <1>4, <2>3, NextDateGoesOn
  <2>5. StatementsLeft(w) = SlotStatements(pc[w], req[w]) + TailLeft(req[w])
    BY <2>2, SlotLeft
  <2>6. SlotStatements(pc[w], req[w]) \in Nat \ {0} BY DEF SlotStatements
  <2>7. TailLeft(req[w]) \in Nat /\ TailLeft(req[w]) < StatementsLeft(w)
    BY <2>3, <2>5, <2>6
  <2> QED BY <2>4, <2>7 DEF GoesDown
<1> QED BY <1>3, <1>4 DEF Die

LEMMA CountsNext ==
  ASSUME NEW w \in Workers
  PROVE  /\ StatementsLeft(w)' = Left(pc'[w], req'[w], todo'[w])
         /\ Counts(pc[w], req[w], todo[w])' <=> Counts(pc'[w], req'[w], todo'[w])
BY DEF StatementsLeft, Left, NoticesLeft, SlotStatements, TailLeft, Rest, Counts

(* The other requests are left alone. *)
LEMMA OthersWait ==
  ASSUME ControlOK, HandlersCount, NEW w \in Workers, NEW to, NEW request, NEW tail,
         pc' = [pc EXCEPT ![w] = to], req' = [req EXCEPT ![w] = request],
         todo' = [todo EXCEPT ![w] = tail], Counts(to, request, tail)
  PROVE  /\ HandlersCount'
         /\ StatementsLeft(w)' = Left(to, request, tail)
         /\ \A v \in Workers : v # w => StatementsLeft(v)' = StatementsLeft(v)
<1>1. pc'[w] = to /\ req'[w] = request /\ todo'[w] = tail BY DEF ControlOK
<1>2. \A v \in Workers : v # w => pc'[v] = pc[v] /\ req'[v] = req[v] /\ todo'[v] = todo[v]
  BY DEF ControlOK
<1>3. StatementsLeft(w)' = Left(to, request, tail) BY <1>1, CountsNext
<1>4. ASSUME NEW v \in Workers, v # w
      PROVE  StatementsLeft(v)' = StatementsLeft(v)
  BY <1>2, <1>4, CountsNext DEF StatementsLeft
<1>5. ASSUME NEW v \in Workers
      PROVE  Counts(pc'[v], req'[v], todo'[v])
  BY <1>1, <1>2 DEF HandlersCount
<1>6. HandlersCount' BY <1>5, CountsNext DEF HandlersCount
<1> QED BY <1>3, <1>4, <1>6

LEMMA GoingDown ==
  ASSUME ControlOK, HandlersCount, NEW w \in Workers, GoesDown(w)
  PROVE  /\ HandlersCount'
         /\ \E n \in Nat : n < StatementsLeft(w) /\ StatementsLeft(w)' <= n
         /\ \A v \in Workers : v # w => StatementsLeft(v)' = StatementsLeft(v)
<1>1. PICK n \in Nat : n < StatementsLeft(w) /\ GoesOn(w, n) BY DEF GoesDown
<1>2. PICK to, request, tail :
        /\ pc' = [pc EXCEPT ![w] = to] /\ req' = [req EXCEPT ![w] = request]
        /\ todo' = [todo EXCEPT ![w] = tail]
        /\ Counts(to, request, tail) /\ Left(to, request, tail) <= n
  BY <1>1 DEF GoesOn
<1>3. /\ HandlersCount' /\ StatementsLeft(w)' = Left(to, request, tail)
      /\ \A v \in Workers : v # w => StatementsLeft(v)' = StatementsLeft(v)
  BY <1>2, OthersWait
<1> QED BY <1>1, <1>2, <1>3

LEMMA SubmitCounts ==
  ASSUME TypeOK, HandlersCount, NEW w \in Workers, Submit(w)
  PROVE  /\ HandlersCount' /\ pc[w] = "idle"
         /\ \A v \in Workers : v # w => StatementsLeft(v)' = StatementsLeft(v)
<1>1. ControlOK BY DEF TypeOK
<1>2. pc[w] = "idle" /\ UNCHANGED todo /\ \E to, request : Goto(w, to, request)
  <2>1. CASE SubmitCreate(w) BY <2>1 DEF SubmitCreate
  <2>2. CASE SubmitRecurring(w) BY <2>2 DEF SubmitRecurring
  <2>3. CASE SubmitUpdate(w) BY <2>3 DEF SubmitUpdate
  <2>4. CASE SubmitCancel(w) BY <2>4 DEF SubmitCancel
  <2>5. CASE SubmitCancelSeries(w) BY <2>5 DEF SubmitCancelSeries
  <2>6. CASE SubmitBlock(w) BY <2>6 DEF SubmitBlock
  <2>7. CASE SubmitUnblock(w) BY <2>7 DEF SubmitUnblock
  <2> QED BY <2>1, <2>2, <2>3, <2>4, <2>5, <2>6, <2>7 DEF Submit
<1>3. PICK to, request : Goto(w, to, request) BY <1>2
<1>4. pc'[w] = to BY <1>1, <1>3 DEF Goto, ControlOK
<1>5. to \notin BlockLoop \union {"notify"} BY <1>4, SubmitLands DEF BlockLoop
<1>6. Counts(to, request, todo[w]) BY <1>5 DEF HandlersCount, Counts, BlockLoop
<1>7. todo' = [todo EXCEPT ![w] = todo[w]] BY <1>1, <1>2 DEF ControlOK
<1> QED BY <1>1, <1>2, <1>3, <1>6, <1>7, OthersWait DEF Goto

LEMMA CountsInit == Init => HandlersCount
<1> SUFFICES ASSUME Init PROVE HandlersCount OBVIOUS
<1>1. IsFiniteSet(NoNotices.owners) /\ IsFiniteSet(NoNotices.requester)
  BY FS_EmptySet DEF NoNotices
<1> QED BY <1>1 DEF Init, HandlersCount, Counts, BlockLoop

LEMMA CountsStay ==
  ASSUME HandlersCount, UNCHANGED control
  PROVE  /\ HandlersCount'
         /\ \A v \in Workers : StatementsLeft(v)' = StatementsLeft(v)
<1>1. pc' = pc /\ req' = req /\ todo' = todo BY DEF control
<1>2. HandlersCount' BY <1>1, CountsNext DEF HandlersCount
<1>3. \A v \in Workers : StatementsLeft(v)' = StatementsLeft(v)
  BY <1>1, CountsNext DEF StatementsLeft
<1> QED BY <1>2, <1>3

LEMMA CountsStep ==
  TypeOK /\ TargetsExist /\ HandlersCount /\ [Next]_vars =>
    /\ HandlersCount'
    /\ \A w \in Workers :
         /\ Proceed(w) \/ Die(w) => GoesDown(w)
         /\ pc[w] # "idle" => StatementsLeft(w)' = StatementsLeft(w) \/ GoesDown(w)
<1> DEFINE Kept(v) == pc[v] # "idle" => StatementsLeft(v)' = StatementsLeft(v) \/ GoesDown(v)
<1> SUFFICES ASSUME TypeOK, TargetsExist, HandlersCount, [Next]_vars
             PROVE  /\ HandlersCount'
                    /\ \A w \in Workers : Proceed(w) \/ Die(w) => GoesDown(w)
                    /\ \A w \in Workers : Kept(w)
  OBVIOUS
<1>1. ControlOK BY DEF TypeOK
<1>2. \A w \in Workers : Counts(pc[w], req[w], todo[w]) BY DEF HandlersCount
<1>3. ASSUME NEW w \in Workers, Proceed(w) \/ Die(w)
      PROVE  GoesDown(w)
  BY <1>2, <1>3, ProceedGoesDown, DieGoesDown
<1>4. ASSUME UNCHANGED vars \/ Tick
      PROVE  HandlersCount' /\ \A v \in Workers : Kept(v)
  <2>1. UNCHANGED control BY <1>4 DEF vars, control, Tick
  <2> QED BY <2>1, CountsStay
<1>5. ASSUME NEW w \in Workers, Submit(w)
      PROVE  HandlersCount' /\ \A v \in Workers : Kept(v)
  <2>1. /\ HandlersCount' /\ pc[w] = "idle"
        /\ \A v \in Workers : v # w => StatementsLeft(v)' = StatementsLeft(v)
    BY <1>5, SubmitCounts
  <2> QED BY <2>1
<1>6. ASSUME NEW w \in Workers, Proceed(w) \/ Die(w)
      PROVE  HandlersCount' /\ \A v \in Workers : Kept(v)
  <2>1. GoesDown(w) BY <1>3, <1>6
  <2>2. /\ HandlersCount'
        /\ \A v \in Workers : v # w => StatementsLeft(v)' = StatementsLeft(v)
    BY <1>1, <2>1, GoingDown
  <2> QED BY <2>1, <2>2
<1>7. ASSUME NEW w \in Workers, RefuseRequest(w) PROVE UNCHANGED vars
  BY <1>7 DEF RefuseRequest
<1> QED BY <1>3, <1>4, <1>5, <1>6, <1>7 DEF Next

(* No handler of the two services can go round for ever: at any moment the *)
(* statements that an accepted request may still run are a number, each    *)
(* one it runs lowers it, one that throws lowers it too, and nothing other *)
(* requests or the clock do raises it.  The loops of createRecurring and   *)
(* of BlockingService.create are bounded by the dates of the body and by   *)
(* the snapshot read once, whatever is written to the tables meanwhile.    *)
StatementsAreCounted ==
  \A w \in Workers :
    /\ StatementsLeft(w) \in Nat
    /\ pc[w] # "idle" => StatementsLeft(w) > 0
RequestsRunOut ==
  [][\A w \in Workers :
       /\ Proceed(w) \/ Die(w) => StatementsLeft(w)' < StatementsLeft(w)
       /\ pc[w] # "idle" => StatementsLeft(w)' <= StatementsLeft(w)]_vars

LEMMA StatementsCounted ==
  TypeOK /\ TargetsExist /\ HandlersCount => StatementsAreCounted
BY LeftIsNat DEF HandlersCount, StatementsAreCounted

LEMMA RunOutStep ==
  ASSUME TypeOK, TargetsExist, HandlersCount, StatementsAreCounted, StatementsAreCounted',
         [Next]_vars, NEW w \in Workers
  PROVE  /\ Proceed(w) \/ Die(w) => StatementsLeft(w)' < StatementsLeft(w)
         /\ pc[w] # "idle" => StatementsLeft(w)' <= StatementsLeft(w)
<1>1. StatementsLeft(w) \in Nat /\ StatementsLeft(w)' \in Nat BY DEF StatementsAreCounted
<1>2. ASSUME GoesDown(w) PROVE StatementsLeft(w)' < StatementsLeft(w)
  <2>1. PICK n \in Nat : n < StatementsLeft(w) /\ StatementsLeft(w)' <= n
    BY <1>2, GoingDown DEF TypeOK
  <2> QED BY <1>1, <2>1
<1> QED BY <1>1, <1>2, CountsStep

(* The above, for every value of the constants. *)
THEOREM EveryRequestRunsOut == Spec => []StatementsAreCounted /\ RequestsRunOut
<1> DEFINE I == TypeOK /\ TargetsExist /\ HandlersCount
           A == \A w \in Workers :
                  /\ Proceed(w) \/ Die(w) => StatementsLeft(w)' < StatementsLeft(w)
                  /\ pc[w] # "idle" => StatementsLeft(w)' <= StatementsLeft(w)
<1>1. Init => I BY TypeInit, CountsInit
<1>2. I /\ [Next]_vars => I' BY TypeStep, CountsStep
<1>3. I => StatementsAreCounted BY StatementsCounted
<1>4. I /\ StatementsAreCounted /\ StatementsAreCounted' /\ [Next]_vars => A BY RunOutStep
<1>5. I /\ StatementsAreCounted /\ StatementsAreCounted' /\ [Next]_vars => [A]_vars BY <1>4
<1>6. RequestsRunOut <=> [][A]_vars BY DEF RequestsRunOut
<1> HIDE DEF I, A
<1> QED BY <1>1, <1>2, <1>3, <1>5, <1>6, PTL DEF Spec
================================================================================
