-------------------------------- MODULE Booking --------------------------------
(***************************************************************************)
(* Reservations and blockings of the spaces: services/reservation.service  *)
(* and services/blocking.service over the D1 tables `reservations`,        *)
(* `recurrences`, `blockings` and `notifications`.                         *)
(*                                                                         *)
(* A request is handled by one of the Workers.  The handlers use no        *)
(* transaction: between two awaits the handler holds rows it read earlier, *)
(* and other requests run.  One action here is one awaited SQL statement   *)
(* together with the checks made on its result; pc[w] says which statement *)
(* comes next and req[w] holds what the handler remembers.  Reads of rows  *)
(* this module keeps constant (users, spaces) are merged with the step     *)
(* that follows them, and audit rows are left out.                         *)
(***************************************************************************)
EXTENDS Schedule, FiniteSetsExt

CONSTANTS
  Users, NoUser,       \* the accounts, and the absent requester
  RoleOf, DeptOf,      \* role and department of each user
  Requesters,          \* users staff may name as requester
  Spaces,
  Reservable,          \* the spaces whose `reservable` flag is set
  SpaceDept, ClosedFrom, ClosedTo,
  Limit, Unlimited,    \* ACTIVE_RESERVATION_LIMITS, and its null
  Workers,             \* requests served at the same time
  Operations,          \* bound: the operations clients use
  Intervals,           \* bound: the intervals clients ask for
  MaxDay, ClockRuns,   \* bound: the last date, and whether time passes at all
  ReservationIds, SeriesIds, BlockingIds,  \* bound: rows of each table
  Recorded,            \* bound: the kinds of notice the model keeps
  MaxFailures          \* bound: requests that die half way

NoSeries == 0
NoRow == 0
Days == 1 .. MaxDay
DateSets == SUBSET Days
Roles == {"student", "professor", "staff", "maintenance"}
Slot == [space : Spaces, date : Days, start : Time, end : Time]

ASSUME BookingAssumption ==
  /\ NoUser \notin Users
  /\ RoleOf \in [Users -> Roles]
  /\ Requesters \subseteq Users
  /\ Reservable \subseteq Spaces
  /\ Intervals \subseteq Interval
  /\ Limit \in [Roles -> Nat \union {Unlimited}] /\ Limit["student"] \in Nat \ {Unlimited}
  /\ IsFiniteSet(Workers) /\ Workers # {} /\ IsFiniteSet(ReservationIds)
  /\ MaxDay \in Nat \ {0} /\ ClockRuns \in BOOLEAN /\ MaxFailures \in Nat
  /\ ReservationIds \subseteq Nat \ {NoRow}
  /\ BlockingIds \subseteq Nat \ {NoRow}
  /\ SeriesIds \subseteq Nat \ {NoSeries}

VARIABLES
  reservations,  \* table: id -> row
  recurrences,   \* table: id -> header of a series
  blockings,     \* table: id -> row
  notices,       \* notifications sent
  today, now,    \* the campus clock: date, and half hours since midnight
  pc, req,       \* per worker: next statement, and what the handler remembers
  todo,          \* per worker: the notices its tail still sends
  failures,      \* requests that died so far
  newRes, newBlk,         \* history: rows written since the worker's check
  doubleGap, blockGap     \* history: collisions let in by a race

tables == <<reservations, recurrences, blockings, notices>>
clock == <<today, now>>
control == <<pc, req, todo>>
gaps == <<newRes, newBlk, doubleGap, blockGap>>
vars == <<tables, clock, control, failures, gaps>>

-------------------------------------------------------------------------------
(* The rows. *)

ReservationRow ==
  [status : {"confirmed", "canceled", "overridden"}, slot : Slot,
   user : Users, requester : Users \union {NoUser}, series : SeriesIds \union {NoSeries}]
RecurrenceRow == [user : Users, requester : Users \union {NoUser}]
BlockingRow == [status : {"active", "removed"}, slot : Slot, user : Users]
NoticeKinds ==
  {"confirmed", "modified", "canceled", "overridden", "seriesConfirmed", "seriesCanceled"}
Notice == [user : Users, kind : NoticeKinds, about : Nat]

Insert(table, id, row) == [k \in DOMAIN table \union {id} |-> IF k = id THEN row ELSE table[k]]

Confirmed == {r \in DOMAIN reservations : reservations[r].status = "confirmed"}
Active == {b \in DOMAIN blockings : blockings[b].status = "active"}

Conflict(left, right) ==
  /\ left.space = right.space
  /\ left.date = right.date
  /\ Overlaps(left.start, left.end, right.start, right.end)

OnDate(slot, d) == [slot EXCEPT !.date = d]

(* Variant: compares starts instead of intervals. *)
ReservedOver_SameStart(slot) ==
  {r \in Confirmed : LET other == reservations[r].slot
                     IN  slot.space = other.space /\ slot.date = other.date /\ slot.start = other.start}
ReservedOver(slot) == {r \in Confirmed : Conflict(slot, reservations[r].slot)}
BlockedOver(slot) == {b \in Active : Conflict(slot, blockings[b].slot)}

(* The partial unique index reservations_confirmed_slot_unq. *)
(* Variant: no index. *)
UniqueSlot_NoIndex(slot, except) == TRUE
UniqueSlot(slot, except) == \A r \in Confirmed \ {except} : reservations[r].slot # slot

(* enforceActiveLimit: the confirmed reservations of a user from today on. *)
ActiveOf(u) == {r \in Confirmed : reservations[r].user = u /\ reservations[r].slot.date >= today}
(* Variant: off by one. *)
WithinLimit_OneMore(u) ==
  LET limit == Limit[RoleOf[u]]
  IN  limit = Unlimited \/ Cardinality(ActiveOf(u)) <= limit
WithinLimit(u) ==
  LET limit == Limit[RoleOf[u]]
  IN  limit = Unlimited \/ Cardinality(ActiveOf(u)) < limit

(* checkSlotAvailability, its clock and closed-hours tests: a start whose  *)
(* half hour is over today is refused; only today is looked at.            *)
SlotOver(slot) == slot.date = today /\ slot.start + 1 <= now
SlotClosed(slot) ==
  OverlapsClosedHours(slot.start, slot.end, ClosedFrom[slot.space], ClosedTo[slot.space])

(* hasStarted *)
HasStarted(slot) == slot.date < today \/ (slot.date = today /\ slot.start <= now)

(* assertDepartmentAccess *)
MayUseSpace(u, s) == RoleOf[u] \in {"student", "professor"} => SpaceDept[s] = DeptOf[u]

(* resolveRequester and the requester rules of the validators. *)
ValidRequester(u, requester) ==
  requester # NoUser =>
    /\ RoleOf[u] = "staff"
    /\ requester # u
    /\ RoleOf[requester] # "maintenance"

(* The interval rules shared by the validators and re-checked by update. *)
ValidInterval(start, end) == start < end /\ MeetsMinimumDuration(start, end)

-------------------------------------------------------------------------------
(* What a handler remembers, by the statement it runs next. *)

NoRequest == [op |-> "none"]
CreateRequest == [op : {"create", "recurring"}, user : Users, slot : Slot,
                  requester : Users \union {NoUser}, series : SeriesIds \union {NoSeries},
                  dates : SUBSET Days, created : BOOLEAN, target : {NoRow}]
UpdateRequest == [op : {"update"}, user : Users, slot : Slot, target : ReservationIds,
                  moved : BOOLEAN]
CancelRequest == [op : {"cancel"}, user : Users, target : ReservationIds]
CancelSeriesRequest == [op : {"cancelSeries"}, user : Users, series : SeriesIds,
                        from : Days, upcoming : SUBSET ReservationIds]
Reading == [id : ReservationIds, slot : Slot]   \* a row as a snapshot shows it
BlockRequest == [op : {"block"}, user : Users, slot : Slot, dates : SUBSET Days,
                 snapshot : SUBSET Reading, told : ReservationIds \union {NoRow}]
UnblockRequest == [op : {"unblock"}, user : Users, target : BlockingIds]

(* The notices a handler ends with: to owners, then to a requester.        *)
Notices == [owners : SUBSET Notice, requester : SUBSET Notice]
NoNotices == [owners |-> {}, requester |-> {}]

NoticeIf(condition, user, kind, about) ==
  IF condition THEN {[user |-> user, kind |-> kind, about |-> about]} ELSE {}

(* After a change of row r by `user`: its owner, unless it is the actor,   *)
(* and its requester, likewise (shouldNotifyRequester).                    *)
Parties(row, user, kind, r) ==
  [owners |-> NoticeIf(row.user # user, row.user, kind, r),
   requester |-> NoticeIf(row.requester \notin {NoUser, user}, row.requester, kind, r)]

(* Control moves: worker w goes on with statement `to`, or with its tail.  *)
Goto(w, to, request) ==
  /\ pc' = [pc EXCEPT ![w] = to]
  /\ req' = [req EXCEPT ![w] = request]
Finish(w, tail) ==
  /\ pc' = [pc EXCEPT ![w] = IF tail = NoNotices THEN "idle" ELSE "notify"]
  /\ req' = [req EXCEPT ![w] = NoRequest]
  /\ todo' = [todo EXCEPT ![w] = tail]
Refuse(w) == Finish(w, NoNotices)

(* The dates of a loop are taken in order; these come after the current.   *)
(* Variant: the current date is not taken off.                             *)
Rest_KeepsDate(r) == r.dates
Rest(r) == r.dates \ {r.slot.date}
Earliest(d, dates) == d \in dates /\ \A e \in dates : d <= e

-------------------------------------------------------------------------------
(* History.  newRes[w] and newBlk[w] collect the rows that other requests  *)
(* inserted or moved after w last checked them; doubleGap and blockGap     *)
(* record the collisions a write lets in because of such rows.  No action  *)
(* reads them.                                                             *)

BlockLoop == {"insertBlocking", "overrideRow", "notifyOverride"}
Watching(w) ==
  pc[w] \in {"checkBlockings", "countActive", "insert", "updateRow"} \union BlockLoop

Forget(w) == newRes' = [newRes EXCEPT ![w] = {}] /\ newBlk' = [newBlk EXCEPT ![w] = {}]

WroteReservation(w, id) ==
  /\ newRes' = [v \in Workers |-> IF v = w THEN {}
                                  ELSE IF Watching(v) THEN newRes[v] \union {id} ELSE newRes[v]]
  /\ newBlk' = [newBlk EXCEPT ![w] = {}]

WroteBlocking(w, id) ==
  /\ newBlk' = [v \in Workers |-> IF v # w /\ Watching(v) THEN newBlk[v] \union {id} ELSE newBlk[v]]
  /\ UNCHANGED newRes

-------------------------------------------------------------------------------
Init ==
  /\ reservations = <<>> /\ recurrences = <<>> /\ blockings = <<>> /\ notices = {}
  /\ today = 1 /\ now = 0
  /\ pc = [w \in Workers |-> "idle"]
  /\ req = [w \in Workers |-> NoRequest]
  /\ todo = [w \in Workers |-> NoNotices]
  /\ failures = 0
  /\ newRes = [w \in Workers |-> {}] /\ newBlk = [w \in Workers |-> {}]
  /\ doubleGap = {} /\ blockGap = {}

(* Bound: the rows that requests in progress may still insert.             *)
RowsOf(w) == CASE pc[w] \in {"idle", "notify"} -> 0
               [] req[w].op = "create" -> 1
               [] req[w].op = "recurring" -> Cardinality(req[w].dates)
               [] OTHER -> 0
BlockingsOf(w) == IF pc[w] \in BlockLoop \union {"snapshot"} THEN Cardinality(req[w].dates) ELSE 0
RoomForRows(n) ==
  n + MapThenSumSet(RowsOf, Workers) <= Cardinality(ReservationIds \ DOMAIN reservations)
RoomForBlockings(n) ==
  n + MapThenSumSet(BlockingsOf, Workers) <= Cardinality(BlockingIds \ DOMAIN blockings)

(* crypto.randomUUID(): a key no row has; the least free one.              *)
IsFresh(id, ids, table) ==
  /\ id \in ids \ DOMAIN table
  /\ \A k \in ids \ DOMAIN table : id <= k

(* POST /reservations: the role and body checks, resolveRequester, and the *)
(* tests on the space row.                                                 *)
SubmitCreate(w) ==
  /\ pc[w] = "idle" /\ "create" \in Operations
  /\ RoomForRows(1)
  /\ \E u \in Users, s \in Spaces, d \in Days, i \in Intervals,
        requester \in Requesters \union {NoUser} :
       /\ RoleOf[u] # "maintenance"
       /\ d >= today
       /\ ValidInterval(i.start, i.end)
       /\ ValidRequester(u, requester)
       /\ s \in Reservable
       /\ MayUseSpace(u, s)
       /\ Goto(w, "checkReservations",
               [op |-> "create", user |-> u, requester |-> requester, series |-> NoSeries,
                slot |-> [space |-> s, date |-> d, start |-> i.start, end |-> i.end],
                dates |-> {d}, created |-> FALSE, target |-> NoRow])
  /\ UNCHANGED <<tables, clock, todo, failures, gaps>>

(* POST /reservations/recurring: as above for professor and staff, without *)
(* the `reservable` test; the header of the series is inserted at once.    *)
SubmitRecurring(w) ==
  /\ pc[w] = "idle" /\ "recurring" \in Operations
  /\ \E u \in Users, s \in Spaces, dates \in DateSets, i \in Intervals,
        requester \in Requesters \union {NoUser}, id \in SeriesIds, first \in Days :
       /\ RoleOf[u] \in {"professor", "staff"}
       /\ Earliest(first, dates) /\ first >= today
       /\ RoomForRows(Cardinality(dates))
       /\ ValidInterval(i.start, i.end)
       /\ ValidRequester(u, requester)
       /\ MayUseSpace(u, s)
       /\ IsFresh(id, SeriesIds, recurrences)
       /\ recurrences' = Insert(recurrences, id, [user |-> u, requester |-> requester])
       /\ Goto(w, "checkReservations",
               [op |-> "recurring", user |-> u, requester |-> requester, series |-> id,
                slot |-> [space |-> s, date |-> first, start |-> i.start, end |-> i.end],
                dates |-> dates, created |-> FALSE, target |-> NoRow])
  /\ UNCHANGED <<reservations, blockings, notices, clock, todo, failures, gaps>>

(* The times of every row come from Intervals. *)
Starts == {i.start : i \in Intervals}
Ends == {i.end : i \in Intervals}

(* PATCH /reservations/:id: the row is read and judged; a field the body   *)
(* leaves out keeps the value read here.                                   *)
SubmitUpdate(w) ==
  /\ pc[w] = "idle" /\ "update" \in Operations
  /\ \E u \in Users, id \in Confirmed, d \in Days, start \in Starts, end \in Ends :
       LET row == reservations[id]
           next == [space |-> row.slot.space, date |-> d, start |-> start, end |-> end]
           moved == next # row.slot
       IN  /\ ValidInterval(start, end)
           /\ CanManage(u, RoleOf[u], row.user, row.requester, "edit")
           /\ ~HasStarted(row.slot)
           /\ MayUseSpace(u, row.slot.space)
           /\ d >= today
           /\ Goto(w, IF moved THEN "checkReservations" ELSE "updateRow",
                   [op |-> "update", user |-> u, target |-> id, slot |-> next,
                    moved |-> moved])
  /\ Forget(w)
  /\ UNCHANGED <<tables, clock, todo, failures, doubleGap, blockGap>>

(* The next occurrence of a series, or its summary for the requester.      *)
NextDate(w, created) ==
  LET r == req[w]
      rest == Rest(r)
  IN  \/ /\ rest = {}
         /\ Finish(w, [owners |-> {}, requester |->
                         NoticeIf(created /\ r.requester # NoUser,
                                  r.requester, "seriesConfirmed", r.series)])
      \/ \E d \in rest :
           /\ Earliest(d, rest)
           /\ Goto(w, "checkReservations",
                   [r EXCEPT !.dates = rest, !.slot = OnDate(@, d), !.created = created])
           /\ UNCHANGED todo

(* The slot is not free: a series skips the date (its loop catches every   *)
(* error), the other requests answer 409.                                  *)
Unavailable(w) ==
  IF req[w].op = "recurring" THEN NextDate(w, req[w].created) ELSE Refuse(w)

(* checkSlotAvailability: the clock, the closed hours, and the confirmed   *)
(* reservations of the day; an edited reservation does not count itself.   *)
CheckReservations(w) ==
  /\ pc[w] = "checkReservations"
  /\ LET slot == req[w].slot
     IN  IF \/ SlotOver(slot)
            \/ SlotClosed(slot)
            \/ ReservedOver(slot) \ {req[w].target} # {}
         THEN Unavailable(w)
         ELSE Goto(w, "checkBlockings", req[w]) /\ UNCHANGED todo
  /\ Forget(w)
  /\ UNCHANGED <<tables, clock, failures, doubleGap, blockGap>>

(* checkSlotAvailability: the active blockings of the day.                 *)
CheckBlockings(w) ==
  /\ pc[w] = "checkBlockings"
  /\ IF BlockedOver(req[w].slot) # {}
     THEN Unavailable(w) /\ Forget(w)
     ELSE /\ Goto(w, IF req[w].op = "create" THEN "countActive"
                     ELSE IF req[w].op = "recurring" THEN "insert"
                     ELSE "updateRow", req[w])
          /\ newBlk' = [newBlk EXCEPT ![w] = {}]
          /\ UNCHANGED <<todo, newRes>>
  /\ UNCHANGED <<tables, clock, failures, doubleGap, blockGap>>

(* enforceActiveLimit; a series is exempt and never comes here.            *)
CountActive(w) ==
  /\ pc[w] = "countActive"
  /\ IF WithinLimit(req[w].user)
     THEN Goto(w, "insert", req[w]) /\ UNCHANGED <<todo, newRes, newBlk>>
     ELSE Refuse(w) /\ Forget(w)
  /\ UNCHANGED <<tables, clock, failures, doubleGap, blockGap>>

(* The collisions that row `id`, written into `slot` by w, runs into.      *)
RacedReservations(w, id, slot) ==
  {<<id, r>> : r \in (ReservedOver(slot) \ {id}) \intersect newRes[w]}
RacedBlockings(w, id, slot) == {<<id, b>> : b \in BlockedOver(slot) \intersect newBlk[w]}

(* The INSERT of a reservation, whose only guard left is the unique index. *)
InsertReservation(w) ==
  /\ pc[w] = "insert"
  /\ LET r == req[w]
     IN  IF ~UniqueSlot(r.slot, NoRow)
         THEN /\ Unavailable(w) /\ Forget(w)
              /\ UNCHANGED <<reservations, doubleGap, blockGap>>
         ELSE \E id \in ReservationIds :
              /\ IsFresh(id, ReservationIds, reservations)
              /\ reservations' = Insert(reservations, id,
                   [status |-> "confirmed", slot |-> r.slot, user |-> r.user,
                    requester |-> r.requester, series |-> r.series])
              /\ IF r.op = "recurring" THEN NextDate(w, TRUE)
                 ELSE Finish(w, [owners |-> NoticeIf(TRUE, r.user, "confirmed", id),
                                 requester |-> NoticeIf(r.requester # NoUser,
                                                        r.requester, "confirmed", id)])
              /\ WroteReservation(w, id)
              /\ doubleGap' = doubleGap \union RacedReservations(w, id, r.slot)
              /\ blockGap' = blockGap \union RacedBlockings(w, id, r.slot)
  /\ UNCHANGED <<recurrences, blockings, notices, clock, failures>>

(* What the UPDATE writes; the status is not among its columns.            *)
(* Variant: sets the status too, as the row was confirmed when read.       *)
EditedRow_StaysConfirmed(row, slot) == [row EXCEPT !.slot = slot, !.status = "confirmed"]
EditedRow(row, slot) == [row EXCEPT !.slot = slot]

(* The UPDATE of an edited reservation: it names the row by id only, so it *)
(* lands whatever the row has become, and writes the whole slot even when  *)
(* only the description was edited.                                        *)
UpdateReservation(w) ==
  /\ pc[w] = "updateRow"
  /\ LET r == req[w]
         id == r.target
         row == reservations[id]
         others == {p \in doubleGap : id \notin {p[1], p[2]}}
     IN  IF row.status = "confirmed" /\ ~UniqueSlot(r.slot, id)
         THEN /\ Refuse(w) /\ Forget(w)
              /\ UNCHANGED <<reservations, doubleGap, blockGap>>
         ELSE /\ reservations' = [reservations EXCEPT ![id] = EditedRow(row, r.slot)]
              /\ Finish(w, Parties(row, r.user, "modified", id))
              /\ WroteReservation(w, id)
              /\ IF r.moved
                 THEN /\ doubleGap' = others \union RacedReservations(w, id, r.slot)
                      /\ blockGap' = {p \in blockGap : p[1] # id}
                                       \union RacedBlockings(w, id, r.slot)
                 ELSE IF id \in newRes[w]
                 THEN /\ doubleGap' = doubleGap \union {<<id, x>> : x \in ReservedOver(r.slot)}
                      /\ blockGap' = blockGap \union {<<id, b>> : b \in BlockedOver(r.slot)}
                 ELSE UNCHANGED <<doubleGap, blockGap>>
  /\ UNCHANGED <<recurrences, blockings, notices, clock, failures>>

-------------------------------------------------------------------------------
(* PATCH /reservations/:id/cancel: refused only for a row already canceled. *)
SubmitCancel(w) ==
  /\ pc[w] = "idle" /\ "cancel" \in Operations
  /\ \E u \in Users, id \in DOMAIN reservations :
       LET row == reservations[id]
       IN  /\ CanManage(u, RoleOf[u], row.user, row.requester, "cancel")
           /\ row.status # "canceled"
           /\ Goto(w, "cancelRow", [op |-> "cancel", user |-> u, target |-> id])
  /\ UNCHANGED <<tables, clock, todo, failures, gaps>>

CancelReservation(w) ==
  /\ pc[w] = "cancelRow"
  /\ LET id == req[w].target
     IN  /\ reservations' = [reservations EXCEPT ![id].status = "canceled"]
         /\ Finish(w, Parties(reservations[id], req[w].user, "canceled", id))
  /\ UNCHANGED <<recurrences, blockings, notices, clock, failures, gaps>>

SeriesRows(s) == {r \in DOMAIN reservations : reservations[r].series = s}

(* getSeriesImpact: what the client is told that a cancellation affects.   *)
Upcoming(s) ==
  {r \in SeriesRows(s) \intersect Confirmed : reservations[r].slot.date >= today}

(* PATCH /reservations/series/:id/cancel: the rights come from the series' *)
(* header; at least one occurrence must be confirmed and upcoming.         *)
SubmitCancelSeries(w) ==
  /\ pc[w] = "idle" /\ "cancelSeries" \in Operations
  /\ \E u \in Users, s \in DOMAIN recurrences :
       LET upcoming == Upcoming(s)
       IN  /\ CanManage(u, RoleOf[u], recurrences[s].user, recurrences[s].requester, "cancel")
           /\ upcoming # {}
           /\ Goto(w, "cancelSeriesRows", [op |-> "cancelSeries", user |-> u, series |-> s,
                                           from |-> today, upcoming |-> upcoming])
  /\ UNCHANGED <<tables, clock, todo, failures, gaps>>

(* The UPDATE takes every row of the series from that date on, whatever    *)
(* its status; then one notice per occurrence for an owner who is not the  *)
(* actor, and a summary for the requester.                                 *)
CancelSeriesRows(w) ==
  /\ pc[w] = "cancelSeriesRows"
  /\ LET r == req[w]
         head == recurrences[r.series]
         hit == {k \in SeriesRows(r.series) : reservations[k].slot.date >= r.from}
     IN  /\ reservations' = [k \in DOMAIN reservations |->
              IF k \in hit THEN [reservations[k] EXCEPT !.status = "canceled"]
              ELSE reservations[k]]
         /\ Finish(w, [owners |-> UNION {NoticeIf(reservations[k].user # r.user,
                                                  reservations[k].user, "seriesCanceled", k) :
                                           k \in r.upcoming},
                       requester |-> NoticeIf(head.requester \notin {NoUser, r.user},
                                              head.requester, "seriesCanceled", r.series)])
  /\ UNCHANGED <<recurrences, blockings, notices, clock, failures, gaps>>

-------------------------------------------------------------------------------
(* POST /blockings: the role and body checks, the space, and the           *)
(* all-or-nothing test that no day has an overlapping active blocking.     *)
SubmitBlock(w) ==
  /\ pc[w] = "idle" /\ "block" \in Operations
  /\ \E u \in Users, s \in Spaces, from \in Days, to \in Days, i \in Intervals :
       LET slot == [space |-> s, date |-> from, start |-> i.start, end |-> i.end]
       IN  /\ RoleOf[u] \in {"professor", "staff", "maintenance"}
           /\ today <= from /\ from <= to
           /\ ValidInterval(i.start, i.end)
           /\ RoomForBlockings(Cardinality(from .. to))
           /\ \A d \in from .. to : BlockedOver(OnDate(slot, d)) = {}
           /\ Goto(w, "snapshot", [op |-> "block", user |-> u, slot |-> slot,
                                   dates |-> from .. to, snapshot |-> {}, told |-> NoRow])
  /\ UNCHANGED <<tables, clock, todo, failures, gaps>>

(* The confirmed reservations the blocking collides with are read once;    *)
(* what the loop overrides is decided by that snapshot.                    *)
(* Variants: compares dates but not times; takes only the reservations     *)
(* that begin when the blocking does.                                      *)
Collisions_WholeDay(r) ==
  {k \in Confirmed : reservations[k].slot.space = r.slot.space
                      /\ reservations[k].slot.date \in r.dates}
Collisions_SameStart(r) ==
  {k \in Confirmed : /\ reservations[k].slot.space = r.slot.space
                     /\ reservations[k].slot.date \in r.dates
                     /\ reservations[k].slot.start = r.slot.start}
Collisions(r) ==
  {k \in Confirmed : \E d \in r.dates :
                       Conflict(OnDate(r.slot, d), reservations[k].slot)}
TakeSnapshot(w) ==
  /\ pc[w] = "snapshot"
  /\ Goto(w, "insertBlocking",
          [req[w] EXCEPT !.snapshot = {[id |-> k, slot |-> reservations[k].slot] :
                                         k \in Collisions(req[w])}])
  /\ Forget(w)
  /\ UNCHANGED <<tables, clock, todo, failures, doubleGap, blockGap>>

(* The loop goes on: the reservations of this date, then the next date.    *)
NextInLoop(w, r) ==
  LET rest == Rest(r)
  IN  \/ /\ \E x \in r.snapshot : x.slot.date = r.slot.date
         /\ Goto(w, "overrideRow", r) /\ UNCHANGED todo
      \/ /\ \A x \in r.snapshot : x.slot.date # r.slot.date
         /\ \/ rest = {} /\ Refuse(w)
            \/ \E d \in rest :
                 /\ Earliest(d, rest)
                 /\ Goto(w, "insertBlocking", [r EXCEPT !.dates = rest, !.slot = OnDate(@, d)])
                 /\ UNCHANGED todo

InsertBlocking(w) ==
  /\ pc[w] = "insertBlocking"
  /\ LET r == req[w]
     IN  \E id \in BlockingIds :
         /\ IsFresh(id, BlockingIds, blockings)
         /\ blockings' = Insert(blockings, id,
              [status |-> "active", slot |-> r.slot, user |-> r.user])
         /\ WroteBlocking(w, id)
         /\ blockGap' = blockGap \union
              {<<k, id>> : k \in ReservedOver(r.slot) \intersect newRes[w]}
         /\ NextInLoop(w, r)
  /\ UNCHANGED <<reservations, recurrences, notices, clock, failures, doubleGap>>

(* The UPDATE that overrides a reservation names it by id only.            *)
OverrideReservation(w) ==
  /\ pc[w] = "overrideRow"
  /\ LET r == req[w]
     IN  \E x \in r.snapshot :
         /\ x.slot.date = r.slot.date
         /\ reservations' = [reservations EXCEPT ![x.id].status = "overridden"]
         /\ Goto(w, "notifyOverride", [r EXCEPT !.snapshot = @ \ {x}, !.told = x.id])
  /\ UNCHANGED <<recurrences, blockings, notices, clock, todo, failures, gaps>>

Send(notice) == notices' = notices \union {n \in {notice} : n.kind \in Recorded}

(* Variant: tells the requester instead of the owner. *)
OverrideNotice_ToRequester(r) ==
  [user |-> reservations[r.told].requester, kind |-> "overridden", about |-> r.told]
OverrideNotice(r) ==
  [user |-> reservations[r.told].user, kind |-> "overridden", about |-> r.told]

NotifyOverride(w) ==
  /\ pc[w] = "notifyOverride"
  /\ LET r == req[w]
     IN  /\ Send(OverrideNotice(r))
         /\ NextInLoop(w, [r EXCEPT !.told = NoRow])
  /\ UNCHANGED <<reservations, recurrences, blockings, clock, failures, gaps>>

(* One notice of the tail of a handler; requesters come after owners.      *)
NotifyParty(w) ==
  /\ pc[w] = "notify"
  /\ LET t == todo[w]
     IN  \/ \E n \in t.owners :
              Send(n) /\ Finish(w, [t EXCEPT !.owners = @ \ {n}])
         \/ /\ t.owners = {}
            /\ \E n \in t.requester :
                 Send(n) /\ Finish(w, [t EXCEPT !.requester = @ \ {n}])
  /\ UNCHANGED <<reservations, recurrences, blockings, clock, failures, gaps>>

(* PATCH /blockings/:id/remove: staff, or whoever created it.              *)
SubmitUnblock(w) ==
  /\ pc[w] = "idle" /\ "unblock" \in Operations
  /\ \E u \in Users, id \in DOMAIN blockings :
       /\ RoleOf[u] \in {"professor", "staff", "maintenance"}
       /\ RoleOf[u] = "staff" \/ blockings[id].user = u
       /\ Goto(w, "removeBlocking", [op |-> "unblock", user |-> u, target |-> id])
  /\ UNCHANGED <<tables, clock, todo, failures, gaps>>

RemoveBlocking(w) ==
  /\ pc[w] = "removeBlocking"
  /\ blockings' = [blockings EXCEPT ![req[w].target].status = "removed"]
  /\ Refuse(w)
  /\ UNCHANGED <<reservations, recurrences, notices, clock, failures, gaps>>

-------------------------------------------------------------------------------
(* A request that a guard of its first read refuses changes nothing.       *)
RefuseRequest(w) == pc[w] = "idle" /\ UNCHANGED vars

(* A statement throws, or the platform evicts the Worker: the statements   *)
(* already run stay, the others are lost.  An error inside the loop of a   *)
(* series only skips the date.                                             *)
PendingOverrides(w) == IF pc[w] \in BlockLoop THEN {x.id : x \in req[w].snapshot} ELSE {}
Die(w) ==
  /\ pc[w] # "idle" /\ failures < MaxFailures
  /\ failures' = failures + 1
  /\ blockGap' = blockGap \union
       {p \in PendingOverrides(w) \X Active :
          p[1] \in Confirmed /\ p[2] \in BlockedOver(reservations[p[1]].slot)}
  /\ \/ Refuse(w)
     \/ pc[w] # "notify" /\ req[w].op = "recurring" /\ NextDate(w, req[w].created)
  /\ Forget(w)
  /\ UNCHANGED <<tables, clock, doubleGap>>

Tick ==
  /\ ClockRuns
  /\ \/ now + 1 < DayEnd /\ now' = now + 1 /\ today' = today
     \/ now + 1 = DayEnd /\ today < MaxDay /\ now' = 0 /\ today' = today + 1
  /\ UNCHANGED <<tables, control, failures, gaps>>

Submit(w) ==
  \/ SubmitCreate(w) \/ SubmitRecurring(w) \/ SubmitUpdate(w) \/ SubmitCancel(w)
  \/ SubmitCancelSeries(w) \/ SubmitBlock(w) \/ SubmitUnblock(w)

Proceed(w) ==
  \/ CheckReservations(w) \/ CheckBlockings(w) \/ CountActive(w)
  \/ InsertReservation(w) \/ UpdateReservation(w)
  \/ CancelReservation(w) \/ CancelSeriesRows(w)
  \/ TakeSnapshot(w) \/ InsertBlocking(w) \/ OverrideReservation(w) \/ NotifyOverride(w)
  \/ RemoveBlocking(w) \/ NotifyParty(w)

Next ==
  \/ Tick
  \/ \E w \in Workers : Submit(w) \/ RefuseRequest(w) \/ Proceed(w) \/ Die(w)

Spec == Init /\ [][Next]_vars

(* The platform runs every request it accepted to its end.                 *)
FairSpec == Spec /\ \A w \in Workers : WF_vars(Proceed(w))

-------------------------------------------------------------------------------
(* Properties. *)

(* The request a handler remembers suits the statement it runs next. *)
Fits(label, request) ==
  /\ label \in {"idle", "notify"} => request = NoRequest
  /\ label \in {"checkReservations", "checkBlockings"} =>
       request \in CreateRequest \union UpdateRequest
  /\ label \in {"countActive", "insert"} => request \in CreateRequest
  /\ label = "updateRow" => request \in UpdateRequest
  /\ label = "cancelRow" => request \in CancelRequest
  /\ label = "cancelSeriesRows" => request \in CancelSeriesRequest
  /\ label \in BlockLoop \union {"snapshot"} => request \in BlockRequest
  /\ label = "notifyOverride" => request.told # NoRow
  /\ label = "removeBlocking" => request \in UnblockRequest
Labels ==
  {"idle", "notify", "checkReservations", "checkBlockings", "countActive", "insert",
   "updateRow", "cancelRow", "cancelSeriesRows", "snapshot", "removeBlocking"} \union BlockLoop

TablesOK ==
  /\ DOMAIN reservations \subseteq ReservationIds
  /\ reservations \in [DOMAIN reservations -> ReservationRow]
  /\ DOMAIN recurrences \subseteq SeriesIds
  /\ recurrences \in [DOMAIN recurrences -> RecurrenceRow]
  /\ DOMAIN blockings \subseteq BlockingIds
  /\ blockings \in [DOMAIN blockings -> BlockingRow]
  /\ notices \subseteq Notice
ClockOK == today \in Days /\ now \in 0 .. DayEnd - 1
ControlOK ==
  /\ pc \in [Workers -> Labels]
  /\ DOMAIN req = Workers /\ \A w \in Workers : Fits(pc[w], req[w])
  /\ todo \in [Workers -> Notices]
HistoryOK ==
  /\ failures \in Nat
  /\ newRes \in [Workers -> SUBSET ReservationIds]
  /\ newBlk \in [Workers -> SUBSET BlockingIds]
  /\ doubleGap \subseteq ReservationIds \X ReservationIds
  /\ blockGap \subseteq ReservationIds \X BlockingIds

(* Every table, handler and history variable has its type: in particular a *)
(* handler at each of its statements remembers a request of the right kind.*)
TypeOK == TablesOK /\ ClockOK /\ ControlOK /\ HistoryOK

(* Rows are never deleted: every row a handler remembers still exists when *)
(* it comes to write it or to look up whom to tell.                        *)
Refers(request, R, S, B) ==
  /\ request.op \in {"update", "cancel"} => request.target \in R
  /\ request.op = "cancelSeries" => request.series \in S /\ request.upcoming \subseteq R
  /\ request.op = "block" => /\ \A x \in request.snapshot : x.id \in R
                            /\ request.told \in R \union {NoRow}
  /\ request.op = "unblock" => request.target \in B
TargetsExist ==
  \A w \in Workers :
    Refers(req[w], DOMAIN reservations, DOMAIN recurrences, DOMAIN blockings)

(* What the checks of a handler are still worth when it writes: whatever   *)
(* collides with the slot it checked was written since; an edit that keeps *)
(* the slot it read either still finds it there, or the row was written    *)
(* since; the row an edit writes exists.                                   *)
CheckedReservations ==
  \A w \in Workers :
    \/ pc[w] \in {"checkBlockings", "countActive", "insert"}
    \/ pc[w] = "updateRow" /\ req[w].moved
    => ReservedOver(req[w].slot) \ {req[w].target} \subseteq newRes[w]

CheckedBlockings ==
  \A w \in Workers :
    \/ pc[w] \in {"countActive", "insert"}
    \/ pc[w] = "updateRow" /\ req[w].moved
    => BlockedOver(req[w].slot) \subseteq newBlk[w]

EditedRows ==
  \A w \in Workers :
    /\ pc[w] \in {"checkReservations", "checkBlockings"} /\ req[w].op = "update"
         => req[w].moved
    /\ pc[w] = "updateRow" /\ ~req[w].moved /\ req[w].target \notin newRes[w]
         => reservations[req[w].target].slot = req[w].slot

(* What a blocking in progress will still cover is in its snapshot, or was *)
(* written since.                                                          *)
DatesToBlock(w) ==
  IF pc[w] = "insertBlocking" THEN req[w].dates
  ELSE IF pc[w] \in {"overrideRow", "notifyOverride"} THEN Rest(req[w]) ELSE {}
SnapshotCovers ==
  \A w \in Workers : \A d \in DatesToBlock(w) :
    ReservedOver(OnDate(req[w].slot, d)) \subseteq newRes[w] \union PendingOverrides(w)

(* The current date of a blocking and the dates of the readings its        *)
(* snapshot still holds are among the dates it has not finished.           *)
LoopDates ==
  \A w \in Workers : pc[w] \in BlockLoop \union {"snapshot"} =>
    /\ req[w].slot.date \in req[w].dates
    /\ \A x \in req[w].snapshot : x.slot.date \in req[w].dates

(* Two confirmed reservations collide only if one of them was written      *)
(* while the other's row had changed after the writer's availability check *)
(* (or after it read the row it edits): checkSlotAvailability lets nothing *)
(* else through, for create, series and edits alike (ADR 0001).            *)
DoubleBookingOnlyByRace ==
  \A r, s \in Confirmed :
    r # s /\ Conflict(reservations[r].slot, reservations[s].slot)
      => <<r, s>> \in doubleGap \/ <<s, r>> \in doubleGap

PendingOverride(r) == \E w \in Workers : r \in PendingOverrides(w)

(* A confirmed reservation lies under an active blocking only while the    *)
(* request that created the blocking is still to override it, or through a *)
(* race between the two, or because that request died (BlockingService).   *)
UnderBlockingOnlyByRace ==
  \A r \in Confirmed :
    \A b \in BlockedOver(reservations[r].slot) : <<r, b>> \in blockGap \/ PendingOverride(r)

(* The index of the table: no two confirmed rows with the very same slot,  *)
(* whatever the interleaving of inserts, edits and cancellations.          *)
NoExactDuplicate ==
  \A r, s \in Confirmed : reservations[r].slot = reservations[s].slot => r = s

(* enforceActiveLimit counts and then inserts: n requests served at once   *)
(* pass the limit of a student by at most n - 1, and requests served one   *)
(* after the other respect it.                                             *)
LimitOvershootBounded ==
  \A u \in Users : RoleOf[u] = "student" =>
    Cardinality(ActiveOf(u)) <= Limit["student"] + Cardinality(Workers) - 1

(* A canceled or overridden reservation is never confirmed again, though   *)
(* edits, cancellations and overrides all write rows by id alone.          *)
NeverConfirmedAgain ==
  [][\A r \in DOMAIN reservations :
       r \in Confirmed' => r \in Confirmed]_vars

(* ARCHITECTURE, "Regra crítica", the other way round: only a confirmed    *)
(* reservation that collides with an active blocking is ever overridden.   *)
OverrideHitsConflicts ==
  [][\A r \in DOMAIN reservations :
       reservations'[r].status = "overridden" /\ reservations[r].status # "overridden" =>
         r \in Confirmed /\ BlockedOver(reservations[r].slot) # {}]_vars

(* "Cancels only upcoming confirmed reservations in a recurring series":   *)
(* the series UPDATE changes no row that getSeriesImpact does not count.   *)
SeriesCancelsOnlyConfirmed ==
  [][\A w \in Workers : CancelSeriesRows(w) =>
       \A r \in DOMAIN reservations :
         r \notin Upcoming(req[w].series) => UNCHANGED reservations[r]]_vars

(* The calendar a client sees: the confirmed reservations that no active   *)
(* blocking covers.                                                        *)
Held == {r \in Confirmed : BlockedOver(reservations[r].slot) = {}}
AskedSlots == {slot \in Slot : slot.start \in Starts /\ slot.end \in Ends}
Calendar == INSTANCE RoomCalendar WITH
  Ids <- ReservationIds, BlockIds <- BlockingIds, Slots <- AskedSlots, Collide <- Conflict,
  held <- [r \in Held |-> reservations[r].slot],
  blocks <- [b \in Active |-> blockings[b].slot]

(* One request at a time, the two services implement the atomic calendar.  *)
ImplementsCalendar == Calendar!CalendarSpec

(* Every accepted request ends.                                            *)
RequestsEnd == \A w \in Workers : pc[w] # "idle" ~> pc[w] = "idle"

(* The owner of every overridden reservation is told so, in spite of races *)
(* with edits and cancellations, as long as no request dies: the notice is *)
(* sent once, and nothing tries again.                                     *)
OverrideIsNotified ==
  \A r \in ReservationIds :
    (r \in DOMAIN reservations /\ reservations[r].status = "overridden" /\ failures = 0)
      ~> (failures > 0 \/ \E n \in notices : n.kind = "overridden" /\ n.about = r
                                             /\ n.user = reservations[r].user)
===============================================================================
