---------------------------- MODULE EquipmentTickets ----------------------------
(***************************************************************************)
(* Maintenance tickets, equipment status and its history:                  *)
(* services/equipment-report.service, services/equipment.service and the   *)
(* downtime that services/maintenance-report.service computes from the     *)
(* history.  As in Booking, a request is handled by a worker and one       *)
(* action is one awaited statement.  A ticket is about an equipment or     *)
(* about a topic: one service category of one room.                        *)
(***************************************************************************)
EXTENDS Integers, Sequences, FiniteSetsExt, Functions

CONSTANTS
  Equipment, Topics,   \* what a ticket may be about
  Users,               \* who reports
  Workers,             \* requests served at the same time
  Operations,          \* bound: the operations clients use
  InitialStatus,       \* the statuses equipment is registered with
  TicketIds,           \* bound: rows of the table of tickets
  Window,              \* RECENT_REPORT_WINDOW_MS, in ticks
  Written,             \* bound: the statuses that PATCH requests carry
  MaxTime,             \* bound: ticks
  MaxChanges           \* bound: rows of the history

Targets == Equipment \union Topics
Statuses == {"working", "broken", "under_repair", "replacement_scheduled"}
OpenStatuses == {"pending", "acknowledged"}
ClosedStatuses == {"resolved", "dismissed"}
Time == 0 .. MaxTime

ASSUME TicketsAssumption ==
  /\ Equipment \intersect Topics = {}
  /\ InitialStatus \subseteq Statuses /\ Written \subseteq Statuses
  /\ IsFiniteSet(Equipment) /\ TicketIds \subseteq Nat \ {0} /\ IsFiniteSet(TicketIds)
  /\ Window \in Nat /\ MaxTime \in Nat /\ MaxChanges \in Nat

VARIABLES
  status,      \* equipment.status
  tickets,     \* table equipment_reports: id -> row
  history,     \* table equipment_status_history, in the order of insertion
  notices,     \* who was told of a ticket: the staff when it opens, its reporter when resolved
  time,
  pc, req,     \* per worker: the next statement, and what the handler remembers
  rivals,      \* history: tickets inserted since the worker's check
  raced, reopened,   \* history: pairs inserted past each other; tickets taken up after closing
  misread, unlogged, \* history: equipment written from a stale reading; and so without a row
  late,        \* history: equipment written later than the stamp of its row says
  broken       \* history: the ticks during which each equipment was broken

tables == <<status, tickets, history, notices>>
ledger == <<misread, unlogged, late>>
ghosts == <<rivals, raced, reopened, ledger, broken>>
vars == <<tables, time, pc, req, ghosts>>

TicketRow == [target : Targets, by : Users,
              status : OpenStatuses \union ClosedStatuses, at : Time]
HistoryRow == [equipment : Equipment, from : Statuses, to : Statuses, at : Time]

NoRequest == [op |-> "none"]
(* `seen` is the equipment's status when the handler read it; `at` is the  *)
(* `now` that it stamps its rows with.                                     *)
ReportRequest == [op : {"report"}, user : Users, target : Targets, serious : BOOLEAN,
                  seen : Statuses, at : Time, id : TicketIds \union {0}]
StatusRequest == [op : {"status"}, target : Equipment, to : Statuses, seen : Statuses, at : Time]
ResolveRequest == [op : {"resolve"}, id : TicketIds]

Insert(table, id, row) == [k \in DOMAIN table \union {id} |-> IF k = id THEN row ELSE table[k]]
Open == {t \in DOMAIN tickets : tickets[t].status \in OpenStatuses}

Goto(w, to, request) ==
  /\ pc' = [pc EXCEPT ![w] = to]
  /\ req' = [req EXCEPT ![w] = request]
Finish(w) == Goto(w, "idle", NoRequest)

(* A ticket was inserted by w: those past their check have not seen it.    *)
Checked == {"checkRecent", "insertTicket"}
InsertedTicket(w, id) ==
  /\ rivals' = [v \in Workers |-> IF v = w THEN {}
                                  ELSE IF pc[v] \in Checked THEN rivals[v] \union {id}
                                  ELSE rivals[v]]
  /\ raced' = raced \union {<<id, t>> : t \in rivals[w]}

Init ==
  /\ status \in [Equipment -> InitialStatus]
  /\ tickets = <<>> /\ history = <<>> /\ notices = {} /\ time = 0
  /\ pc = [w \in Workers |-> "idle"] /\ req = [w \in Workers |-> NoRequest]
  /\ rivals = [w \in Workers |-> {}]
  /\ raced = {} /\ reopened = {} /\ misread = {} /\ unlogged = {} /\ late = {} /\ broken = {}

-------------------------------------------------------------------------------
(* Bound: every request in progress has room for its ticket and its row.   *)
Serving(ops) == {v \in Workers : req[v].op \in ops}
RoomForTicket ==
  Cardinality(Serving({"report"})) + Cardinality(DOMAIN tickets) < Cardinality(TicketIds)
RoomForChange == Cardinality(Serving({"report", "status"})) + Len(history) < MaxChanges

(* POST /equipment/reports.  The equipment is read first; a topic has no   *)
(* status, and nothing later looks at `seen` for it.                       *)
SubmitReport(w) ==
  /\ pc[w] = "idle" /\ "report" \in Operations
  /\ RoomForTicket /\ RoomForChange
  /\ \E u \in Users, target \in Targets, serious \in BOOLEAN :
       Goto(w, "checkOpen",
            [op |-> "report", user |-> u, target |-> target, serious |-> serious,
             seen |-> IF target \in Equipment THEN status[target] ELSE "working",
             at |-> time, id |-> 0])
  /\ UNCHANGED <<tables, time, ghosts>>

(* getOpenStatusByEquipmentIds, getOpenRoomStatusByCategory: any open      *)
(* ticket on the target answers 409.                                       *)
(* Variant: a ticket being handled does not count.                         *)
OpenOn_PendingOnly(target) ==
  {t \in DOMAIN tickets : tickets[t].target = target /\ tickets[t].status = "pending"}
OpenOn(target) == {t \in Open : tickets[t].target = target}

CheckOpen(w) ==
  /\ pc[w] = "checkOpen"
  /\ LET r == req[w]
     IN  IF OpenOn(r.target) # {} THEN Finish(w)
         ELSE Goto(w, IF r.target \in Equipment THEN "checkRecent" ELSE "insertTicket",
                   [r EXCEPT !.at = time])
  /\ rivals' = [rivals EXCEPT ![w] = {}]
  /\ UNCHANGED <<tables, time, raced, reopened, ledger, broken>>

(* The same user may report an equipment once per window, whatever has     *)
(* become of the earlier ticket.                                           *)
(* Variant: only tickets still open count.                                 *)
RecentBy_OpenOnly(u, target) ==
  {t \in Open : tickets[t].target = target /\ tickets[t].by = u
                /\ tickets[t].at + Window >= time}
RecentBy(u, target) ==
  {t \in DOMAIN tickets : tickets[t].target = target /\ tickets[t].by = u
                          /\ tickets[t].at + Window >= time}

CheckRecent(w) ==
  /\ pc[w] = "checkRecent"
  /\ LET r == req[w]
     IN  IF RecentBy(r.user, r.target) # {}
         THEN Finish(w) /\ rivals' = [rivals EXCEPT ![w] = {}]
         ELSE Goto(w, "insertTicket", [r EXCEPT !.at = time]) /\ UNCHANGED rivals
  /\ UNCHANGED <<tables, time, raced, reopened, ledger, broken>>

IsFresh(id) == id \notin DOMAIN tickets /\ \A k \in TicketIds \ DOMAIN tickets : id <= k

(* The INSERT; a serious report on an equipment that was working when it   *)
(* was read goes on to break it.                                           *)
Breaks(r) == r.target \in Equipment /\ r.serious /\ r.seen = "working"

InsertTicket(w) ==
  /\ pc[w] = "insertTicket"
  /\ LET r == req[w]
     IN  \E id \in TicketIds :
           /\ IsFresh(id)
           /\ tickets' = Insert(tickets, id,
                [target |-> r.target, by |-> r.user, status |-> "pending", at |-> r.at])
           /\ InsertedTicket(w, id)
           /\ Goto(w, IF Breaks(r) THEN "breakEquipment" ELSE "notifyStaff",
                   [r EXCEPT !.id = id])
  /\ UNCHANGED <<status, history, notices, time, reopened, ledger, broken>>

(* A batch: the status and its history row land together.  The row says    *)
(* what the handler read, not what the status was when the batch ran.      *)
Misread(e, seen, to, at) ==
  /\ misread' = misread \union {x \in {e} : seen # status[e]}
  /\ unlogged' = unlogged \union {x \in {e} : seen = to /\ to # status[e]}
  /\ late' = late \union {x \in {e} : at # time}

(* Variant: only breakdowns are worth a row. *)
HistoryAfter_OnlyBreakdowns(e, seen, to, at) ==
  IF to # "broken" THEN history
  ELSE Append(history, [equipment |-> e, from |-> seen, to |-> to, at |-> at])
HistoryAfter(e, seen, to, at) ==
  IF seen = to THEN history
  ELSE Append(history, [equipment |-> e, from |-> seen, to |-> to, at |-> at])

WriteStatus(e, seen, to, at) ==
  /\ status' = [status EXCEPT ![e] = to]
  /\ history' = HistoryAfter(e, seen, to, at)
  /\ Misread(e, seen, to, at)

BreakEquipment(w) ==
  /\ pc[w] = "breakEquipment"
  /\ WriteStatus(req[w].target, "working", "broken", req[w].at)
  /\ Goto(w, "notifyStaff", req[w])
  /\ UNCHANGED <<tickets, notices, time, rivals, raced, reopened, broken>>

(* notifyStaff: its loop over the staff is one step, as nothing reads the  *)
(* notices.                                                                *)
NotifyStaff(w) ==
  /\ pc[w] = "notifyStaff"
  /\ notices' = notices \union {<<"opened", req[w].id>>}
  /\ Finish(w)
  /\ UNCHANGED <<status, tickets, history, time, ghosts>>

-------------------------------------------------------------------------------
(* acknowledge, resolve and dismiss look the ticket up and then update it  *)
(* whatever its status; tickets are never deleted, so the look-up is       *)
(* merged with the update.                                                 *)
SetTicket(id, to) == tickets' = [tickets EXCEPT ![id].status = to]

Acknowledge ==
  /\ "acknowledge" \in Operations
  /\ \E id \in DOMAIN tickets :
       /\ SetTicket(id, "acknowledged")
       /\ reopened' = IF id \in Open THEN reopened ELSE reopened \union {id}
  /\ UNCHANGED <<status, history, notices, time, pc, req, rivals, raced, ledger, broken>>

Dismiss ==
  /\ "dismiss" \in Operations
  /\ \E id \in DOMAIN tickets : SetTicket(id, "dismissed")
  /\ UNCHANGED <<status, history, notices, time, pc, req, ghosts>>

SubmitResolve(w) ==
  /\ pc[w] = "idle" /\ "resolve" \in Operations
  /\ \E id \in DOMAIN tickets : Goto(w, "resolveTicket", [op |-> "resolve", id |-> id])
  /\ UNCHANGED <<tables, time, ghosts>>

ResolveTicket(w) ==
  /\ pc[w] = "resolveTicket"
  /\ SetTicket(req[w].id, "resolved")
  /\ Goto(w, "notifyReporter", req[w])
  /\ UNCHANGED <<status, history, notices, time, ghosts>>

NotifyReporter(w) ==
  /\ pc[w] = "notifyReporter"
  /\ notices' = notices \union {<<"resolved", req[w].id>>}
  /\ Finish(w)
  /\ UNCHANGED <<status, tickets, history, time, ghosts>>

(* PATCH /equipment/:id/status, by staff or maintenance.                   *)
SubmitStatus(w) ==
  /\ pc[w] = "idle" /\ "status" \in Operations
  /\ RoomForChange
  /\ \E e \in Equipment, to \in Written :
       Goto(w, "writeStatus",
            [op |-> "status", target |-> e, to |-> to, seen |-> status[e], at |-> time])
  /\ UNCHANGED <<tables, time, ghosts>>

UpdateStatus(w) ==
  /\ pc[w] = "writeStatus"
  /\ LET r == req[w] IN WriteStatus(r.target, r.seen, r.to, r.at)
  /\ Finish(w)
  /\ UNCHANGED <<tickets, notices, time, rivals, raced, reopened, broken>>

Tick ==
  /\ time < MaxTime
  /\ time' = time + 1
  /\ broken' = broken \union {<<e, time>> : e \in {x \in Equipment : status[x] = "broken"}}
  /\ UNCHANGED <<tables, pc, req, rivals, raced, reopened, ledger>>

(* A request that a guard of its first read refuses changes nothing.       *)
RefuseRequest(w) == pc[w] = "idle" /\ UNCHANGED vars

(* A statement throws or the Worker is evicted: what ran, stays.           *)
Die(w) ==
  /\ pc[w] # "idle"
  /\ Finish(w)
  /\ rivals' = [rivals EXCEPT ![w] = {}]
  /\ UNCHANGED <<tables, time, raced, reopened, ledger, broken>>

Submit(w) == SubmitReport(w) \/ SubmitResolve(w) \/ SubmitStatus(w)
Proceed(w) ==
  \/ CheckOpen(w) \/ CheckRecent(w) \/ InsertTicket(w) \/ BreakEquipment(w) \/ NotifyStaff(w)
  \/ ResolveTicket(w) \/ NotifyReporter(w) \/ UpdateStatus(w)

Next ==
  \/ Tick \/ Acknowledge \/ Dismiss
  \/ \E w \in Workers : Submit(w) \/ RefuseRequest(w) \/ Proceed(w) \/ Die(w)

Spec == Init /\ [][Next]_vars

-------------------------------------------------------------------------------
(* The maintenance report: downtime from the history. *)

(* Rows are told by their place in the table.                              *)
RowsOf(e) == {k \in DOMAIN history : history[k].equipment = e}

(* sortHistory: by stamp; rows with the same stamp keep their order.       *)
Before(j, k) ==
  history[j].at < history[k].at \/ (history[j].at = history[k].at /\ j < k)
Latest(rows) == CHOOSE k \in rows : \A j \in rows \ {k} : Before(j, k)

(* brokenIntervals: a row into "broken" opens an interval unless one is    *)
(* open, any other row closes it; the last one ends now.                   *)
NoInterval == MaxTime + 1
(* Variant: a second row into "broken" moves the start.                    *)
OpenedAt_Latest(open, row) == row.at
OpenedAt(open, row) == IF open = NoInterval THEN row.at ELSE open
Digest(row, acc) ==
  IF row.to = "broken"
  THEN [acc EXCEPT !.open = OpenedAt(acc.open, row)]
  ELSE [open |-> NoInterval,
        closed |-> acc.closed \union
                     {i \in {[start |-> acc.open, end |-> row.at]} : acc.open # NoInterval}]
Digested(rows) ==
  MapThenFoldSet(Digest, [open |-> NoInterval, closed |-> {}], LAMBDA k : history[k],
                 Latest, rows)
BrokenIntervals(rows) ==
  LET acc == Digested(rows)
  IN  acc.closed \union {i \in {[start |-> acc.open, end |-> time]} : acc.open < time}

(* overlapMs: the length of the intervals inside [from, to). *)
Inside(i, from, to) == {t \in i.start .. i.end - 1 : from <= t /\ t < to}
Overlap(intervals, from, to) ==
  SumFunction([i \in intervals |-> Cardinality(Inside(i, from, to))])

-------------------------------------------------------------------------------
(* Properties. *)

Labels ==
  {"idle", "checkOpen", "checkRecent", "insertTicket", "breakEquipment", "notifyStaff",
   "resolveTicket", "notifyReporter", "writeStatus"}
Fits(label, request) ==
  /\ label = "idle" => request = NoRequest
  /\ label \in {"checkOpen", "checkRecent", "insertTicket", "breakEquipment", "notifyStaff"} =>
       request \in ReportRequest
  /\ label \in {"checkRecent", "breakEquipment"} => request.target \in Equipment
  /\ label \in {"resolveTicket", "notifyReporter"} => request \in ResolveRequest
  /\ label = "writeStatus" => request \in StatusRequest

(* Every table and handler has its type, and a ticket that a handler       *)
(* remembers exists when it is written or told of.                         *)
TypeOK ==
  /\ status \in [Equipment -> Statuses]
  /\ DOMAIN tickets \subseteq TicketIds /\ tickets \in [DOMAIN tickets -> TicketRow]
  /\ history \in Seq(HistoryRow)
  /\ notices \subseteq {"opened", "resolved"} \X TicketIds
  /\ time \in Time
  /\ pc \in [Workers -> Labels]
  /\ DOMAIN req = Workers /\ \A w \in Workers : Fits(pc[w], req[w])
  /\ \A w \in Workers :
       pc[w] \in {"breakEquipment", "notifyStaff", "resolveTicket", "notifyReporter"} =>
         req[w].id \in DOMAIN tickets
  /\ rivals \in [Workers -> SUBSET TicketIds]
  /\ raced \subseteq TicketIds \X TicketIds /\ reopened \subseteq TicketIds
  /\ misread \subseteq Equipment /\ unlogged \subseteq Equipment /\ late \subseteq Equipment
  /\ broken \subseteq Equipment \X Time

(* What a check is worth when the handler inserts: another ticket open on  *)
(* the target was inserted since, or was taken up again after closing.     *)
CheckedOpen ==
  \A w \in Workers : pc[w] \in Checked =>
    OpenOn(req[w].target) \subseteq rivals[w] \union reopened

(* The same for the check of the user's recent tickets, which has nothing  *)
(* to do with reopening: it looks at closed tickets too.                   *)
CheckedRecent ==
  \A w \in Workers : pc[w] = "insertTicket" /\ req[w].target \in Equipment =>
    \A t \in DOMAIN tickets :
      /\ tickets[t].by = req[w].user /\ tickets[t].target = req[w].target
      /\ tickets[t].at + Window >= req[w].at
      => t \in rivals[w]

(* "Any open report blocks new ones" (createReport): two tickets are open  *)
(* on one target only if they were inserted past each other's check, or    *)
(* one was acknowledged after it had been closed.                          *)
OpenTicketsExplained ==
  \A t, u \in Open :
    t # u /\ tickets[t].target = tickets[u].target =>
      \/ <<t, u>> \in raced \/ <<u, t>> \in raced
      \/ {t, u} \intersect reopened # {}

(* "Anti-spam: same user, same equipment, within 24h": two tickets of one  *)
(* user on one equipment lie within the window only by a race.             *)
RecentTicketsOnlyByRace ==
  \A t, u \in DOMAIN tickets :
    /\ t # u /\ tickets[t].by = tickets[u].by
    /\ tickets[t].target = tickets[u].target /\ tickets[t].target \in Equipment
    /\ tickets[t].at <= tickets[u].at /\ tickets[u].at <= tickets[t].at + Window
    => <<t, u>> \in raced \/ <<u, t>> \in raced

(* "Status change and its history row land atomically" (MEL-013): each row *)
(* of an equipment ends where the next one begins, and the last ends in    *)
(* the status it has, unless a stale reading was written.                  *)
HistoryTellsStatus ==
  \A e \in Equipment \ misread : \A k \in DOMAIN history :
    history[k].equipment = e =>
      LET later == {j \in DOMAIN history : j > k /\ history[j].equipment = e}
      IN  \/ later = {} /\ history[k].to = status[e]
          \/ \E j \in later : (\A i \in later : j <= i) /\ history[j].from = history[k].to

(* Reports on the tables are looked at between requests only: a handler    *)
(* may die at any statement and leave the tables as they are, so nothing   *)
(* is missed.                                                              *)
BetweenRequests == \A w \in Workers : pc[w] = "idle"

(* The downtime of the maintenance report is the time the equipment was    *)
(* broken, over every period, unless a change of its status left no row or *)
(* was stamped earlier than written; of equipment registered as broken,    *)
(* which has no row, the report does not know the first breakdown.         *)
BornBroken(e) ==
  IF RowsOf(e) = {} THEN status[e] = "broken" ELSE history[Min(RowsOf(e))].from = "broken"
DowntimeExact ==
  BetweenRequests => \A e \in Equipment \ (unlogged \union late) : ~BornBroken(e) =>
    \A from, to \in 0 .. time :
      Overlap(BrokenIntervals(RowsOf(e)), from, to)
        = Cardinality({t \in Time : from <= t /\ t < to /\ <<e, t>> \in broken})

(* The same comment, taken at its word. *)
AtMostOneOpen ==
  \A t, u \in Open : tickets[t].target = tickets[u].target => t = u
===============================================================================
