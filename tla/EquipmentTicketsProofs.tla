------------------------- MODULE EquipmentTicketsProofs -------------------------
(***************************************************************************)
(* What EquipmentTickets promises of duplicate tickets, and of the history *)
(* of an equipment; and what MaintenanceReport tells of its downtime, for  *)
(* any number of equipment, rooms, users and simultaneous requests, any    *)
(* window and any period.                                                  *)
(***************************************************************************)
EXTENDS MaintenanceReport, Sums

LEMMA Constants ==
  /\ TicketIds \subseteq Nat \ {0} /\ Window \in Nat /\ MaxTime \in Nat
  /\ InitialStatus \subseteq Statuses /\ Written \subseteq Statuses
BY Zenon, TicketsAssumption

-------------------------------------------------------------------------------
(* Types.  TypeOK in the parts that the steps preserve one by one: the     *)
(* tables, the handlers, and the tickets that handlers name.               *)

TablesOK ==
  /\ status \in [Equipment -> Statuses]
  /\ DOMAIN tickets \subseteq TicketIds /\ tickets \in [DOMAIN tickets -> TicketRow]
  /\ history \in Seq(HistoryRow)
  /\ notices \subseteq {"opened", "resolved"} \X TicketIds
  /\ time \in Time
HandlersOK ==
  /\ pc \in [Workers -> Labels]
  /\ DOMAIN req = Workers /\ \A w \in Workers : Fits(pc[w], req[w])
Naming == {"breakEquipment", "notifyStaff", "resolveTicket", "notifyReporter"}
NamedTicketsExist == \A w \in Workers : pc[w] \in Naming => req[w].id \in DOMAIN tickets
RaceGhostsOK ==
  /\ rivals \in [Workers -> SUBSET TicketIds]
  /\ raced \subseteq TicketIds \X TicketIds /\ reopened \subseteq TicketIds
StatusGhostsOK ==
  /\ misread \subseteq Equipment /\ unlogged \subseteq Equipment /\ late \subseteq Equipment
  /\ broken \subseteq Equipment \X Time

LEMMA TypeParts ==
  TypeOK <=> TablesOK /\ HandlersOK /\ NamedTicketsExist /\ RaceGhostsOK /\ StatusGhostsOK
BY DEF TypeOK, TablesOK, HandlersOK, NamedTicketsExist, Naming, RaceGhostsOK, StatusGhostsOK

LEMMA TypeInit == Init => TypeOK
<1> SUFFICES ASSUME Init PROVE TypeOK OBVIOUS
<1>1. TablesOK
  <2>1. status \in [Equipment -> Statuses] BY Constants DEF Init
  <2>2. DOMAIN tickets = {} /\ tickets \in [DOMAIN tickets -> TicketRow] BY DEF Init
  <2>3. time \in Time BY Constants DEF Init, Time
  <2> QED BY <2>1, <2>2, <2>3 DEF Init, TablesOK
<1>2. HandlersOK /\ NamedTicketsExist
  BY DEF Init, HandlersOK, NamedTicketsExist, Naming, Labels, Fits
<1>3. RaceGhostsOK /\ StatusGhostsOK
  BY DEF Init, RaceGhostsOK, StatusGhostsOK
<1> QED BY <1>1, <1>2, <1>3, TypeParts

(* The handler of w goes on with a request of the right kind; tickets are  *)
(* only ever added.                                                        *)
LEMMA GotoType ==
  ASSUME HandlersOK, NamedTicketsExist, NEW w \in Workers, NEW to \in Labels, NEW request,
         Fits(to, request), to \in Naming => request.id \in DOMAIN tickets',
         Goto(w, to, request), DOMAIN tickets \subseteq DOMAIN tickets'
  PROVE  HandlersOK' /\ NamedTicketsExist'
<1>1. HandlersOK'
  BY DEF HandlersOK, Goto
<1>2. NamedTicketsExist'
  BY DEF HandlersOK, NamedTicketsExist, Goto
<1> QED BY <1>1, <1>2

LEMMA FinishType ==
  ASSUME HandlersOK, NamedTicketsExist, NEW w \in Workers, Finish(w),
         DOMAIN tickets \subseteq DOMAIN tickets'
  PROVE  HandlersOK' /\ NamedTicketsExist'
<1>1. "idle" \in Labels /\ "idle" \notin Naming /\ Fits("idle", NoRequest)
  BY DEF Labels, Naming, Fits
<1> QED BY <1>1, GotoType DEF Finish

(* Setting the status of a ticket moves nothing else.                      *)
LEMMA SetTicketType ==
  ASSUME TablesOK, NEW id \in DOMAIN tickets, NEW to \in OpenStatuses \union ClosedStatuses,
         SetTicket(id, to)
  PROVE  /\ DOMAIN tickets' = DOMAIN tickets /\ tickets' \in [DOMAIN tickets' -> TicketRow]
         /\ \A t \in DOMAIN tickets :
              /\ tickets'[t].target = tickets[t].target /\ tickets'[t].by = tickets[t].by
              /\ tickets'[t].at = tickets[t].at
              /\ tickets'[t].status = IF t = id THEN to ELSE tickets[t].status
BY DEF TablesOK, SetTicket, TicketRow

LEMMA WriteStatusType ==
  ASSUME TablesOK, StatusGhostsOK, NEW e \in Equipment, NEW seen \in Statuses,
         NEW to \in Statuses, NEW at \in Time, WriteStatus(e, seen, to, at),
         UNCHANGED <<tickets, notices, time, broken>>
  PROVE  TablesOK' /\ StatusGhostsOK'
<1>1. status' \in [Equipment -> Statuses] BY DEF WriteStatus, TablesOK
<1>2. [equipment |-> e, from |-> seen, to |-> to, at |-> at] \in HistoryRow
  BY DEF HistoryRow
<1>3. history' \in Seq(HistoryRow)
  BY <1>2 DEF WriteStatus, HistoryAfter, TablesOK
<1>4. StatusGhostsOK' BY DEF WriteStatus, Misread, StatusGhostsOK
<1> QED BY <1>1, <1>3, <1>4 DEF TablesOK

LEMMA SubmitType ==
  ASSUME TypeOK, NEW w \in Workers, Submit(w)
  PROVE  TypeOK'
<1>1. HandlersOK /\ NamedTicketsExist /\ TablesOK BY TypeParts
<1>2. UNCHANGED <<tables, time, ghosts>>
  BY DEF Submit, SubmitReport, SubmitResolve, SubmitStatus
<1>3. HandlersOK' /\ NamedTicketsExist'
  <2>0. DOMAIN tickets \subseteq DOMAIN tickets' BY <1>2 DEF tables
  <2>1. CASE SubmitReport(w)
    <3> DEFINE request(u, target, serious) ==
          [op |-> "report", user |-> u, target |-> target, serious |-> serious,
           seen |-> IF target \in Equipment THEN status[target] ELSE "working",
           at |-> time, id |-> 0]
    <3>1. PICK u \in Users, target \in Targets, serious \in BOOLEAN :
            Goto(w, "checkOpen", request(u, target, serious))
      BY <2>1 DEF SubmitReport
    <3>2. (IF target \in Equipment THEN status[target] ELSE "working") \in Statuses
      BY <1>1 DEF TablesOK, Statuses
    <3>3. time \in Time BY <1>1 DEF TablesOK
    <3>4. request(u, target, serious) \in ReportRequest
      BY <3>2, <3>3 DEF ReportRequest
    <3> HIDE DEF request
    <3>5. Fits("checkOpen", request(u, target, serious)) /\ "checkOpen" \in Labels \ Naming
      BY <3>4 DEF Fits, Labels, Naming
    <3> QED BY <1>1, <2>0, <3>1, <3>5, GotoType
  <2>2. CASE SubmitResolve(w)
    <3>1. PICK id \in DOMAIN tickets : Goto(w, "resolveTicket", [op |-> "resolve", id |-> id])
      BY <2>2 DEF SubmitResolve
    <3>2. id \in TicketIds BY <1>1 DEF TablesOK
    <3>3. /\ Fits("resolveTicket", [op |-> "resolve", id |-> id])
          /\ "resolveTicket" \in Labels /\ [op |-> "resolve", id |-> id].id \in DOMAIN tickets'
      BY <2>0, <3>2 DEF Fits, Labels, ResolveRequest
    <3> QED BY <1>1, <2>0, <3>1, <3>3, GotoType
  <2>3. CASE SubmitStatus(w)
    <3> DEFINE request(e, to) ==
          [op |-> "status", target |-> e, to |-> to, seen |-> status[e], at |-> time]
    <3>1. PICK e \in Equipment, to \in Written : Goto(w, "writeStatus", request(e, to))
      BY <2>3 DEF SubmitStatus
    <3>2. request(e, to) \in StatusRequest
      BY <1>1, Constants DEF TablesOK, StatusRequest
    <3> HIDE DEF request
    <3>3. Fits("writeStatus", request(e, to)) /\ "writeStatus" \in Labels \ Naming
      BY <3>2 DEF Fits, Labels, Naming
    <3> QED BY <1>1, <2>0, <3>1, <3>3, GotoType
  <2> QED BY <2>1, <2>2, <2>3 DEF Submit
<1>4. TablesOK' /\ RaceGhostsOK' /\ StatusGhostsOK'
  BY <1>2, TypeParts DEF tables, ghosts, ledger, TablesOK, RaceGhostsOK, StatusGhostsOK
<1> QED
  <2>1. TablesOK' /\ HandlersOK' /\ NamedTicketsExist' /\ RaceGhostsOK' /\ StatusGhostsOK'
    BY <1>3, <1>4
  <2> QED BY <2>1 DEF TypeOK, TablesOK, HandlersOK, NamedTicketsExist, Naming, RaceGhostsOK,
                      StatusGhostsOK

LEMMA InsertTicketType ==
  ASSUME TypeOK, NEW w \in Workers, InsertTicket(w)
  PROVE  TypeOK'
<1> DEFINE r == req[w]
           row == [target |-> r.target, by |-> r.user, status |-> "pending", at |-> r.at]
           to == IF Breaks(r) THEN "breakEquipment" ELSE "notifyStaff"
           next(id) == [r EXCEPT !.id = id]
<1>1. HandlersOK /\ NamedTicketsExist /\ TablesOK /\ RaceGhostsOK BY TypeParts
<1>2. r \in ReportRequest BY <1>1 DEF HandlersOK, Fits, InsertTicket
<1>3. PICK id \in TicketIds :
        /\ IsFresh(id) /\ tickets' = Insert(tickets, id, row) /\ InsertedTicket(w, id)
        /\ Goto(w, to, next(id))
  BY Zenon DEF InsertTicket
<1>4. row \in TicketRow BY <1>2 DEF ReportRequest, TicketRow, OpenStatuses
<1>5. DOMAIN tickets' = DOMAIN tickets \union {id}
      /\ tickets' \in [DOMAIN tickets' -> TicketRow]
  <2> HIDE DEF row, to, next
  <2>1. tickets' = Insert(tickets, id, row) /\ tickets \in [DOMAIN tickets -> TicketRow]
    BY <1>1, <1>3 DEF TablesOK
  <2> QED BY <1>4, <2>1 DEF Insert
<1>6. HandlersOK' /\ NamedTicketsExist'
  <2>1. next(id) \in ReportRequest /\ next(id).id = id BY <1>2 DEF ReportRequest
  <2>2. to = "breakEquipment" => next(id).target \in Equipment
    BY <1>2 DEF Breaks, ReportRequest
  <2>3. to \in {"breakEquipment", "notifyStaff"} OBVIOUS
  <2> HIDE DEF next, to
  <2>4. Fits(to, next(id)) /\ to \in Labels BY <2>1, <2>2, <2>3 DEF Fits, Labels
  <2> QED BY <1>1, <1>3, <1>5, <2>1, <2>4, GotoType
<1>7. RaceGhostsOK'
  BY <1>1, <1>3 DEF InsertTicket, RaceGhostsOK, InsertedTicket
<1>8. TablesOK' /\ StatusGhostsOK'
  BY <1>1, <1>5, TypeParts DEF InsertTicket, TablesOK, StatusGhostsOK, ledger
<1> QED
  <2>1. TablesOK' /\ HandlersOK' /\ NamedTicketsExist' /\ RaceGhostsOK' /\ StatusGhostsOK'
    BY <1>6, <1>7, <1>8
  <2> QED BY <2>1 DEF TypeOK, TablesOK, HandlersOK, NamedTicketsExist, Naming, RaceGhostsOK,
                      StatusGhostsOK

(* The other steps of a handler.                                           *)
LEMMA ProceedType ==
  ASSUME TypeOK, NEW w \in Workers, Proceed(w)
  PROVE  TypeOK'
<1>1. HandlersOK /\ NamedTicketsExist /\ TablesOK /\ RaceGhostsOK /\ StatusGhostsOK
  BY TypeParts
<1> DEFINE AllOK == /\ TablesOK /\ HandlersOK /\ NamedTicketsExist
                    /\ RaceGhostsOK /\ StatusGhostsOK
<1>2. SUFFICES ASSUME ~InsertTicket(w) PROVE AllOK'
  <2>1. AllOK' => TypeOK'
    BY DEF TypeOK, TablesOK, HandlersOK, NamedTicketsExist, Naming, RaceGhostsOK, StatusGhostsOK
  <2> QED BY <2>1, InsertTicketType
<1>3. CASE CheckOpen(w)
  <2> DEFINE next == [req[w] EXCEPT !.at = time]
  <2>1. req[w] \in ReportRequest BY <1>1, <1>3 DEF HandlersOK, Fits, CheckOpen
  <2>2. next \in ReportRequest /\ next.target = req[w].target
    BY <1>1, <2>1 DEF TablesOK, ReportRequest
  <2>3. HandlersOK' /\ NamedTicketsExist'
    <3>0. DOMAIN tickets \subseteq DOMAIN tickets' BY <1>3 DEF CheckOpen, tables
    <3>1. CASE Finish(w) BY <1>1, <3>0, <3>1, FinishType
    <3>2. CASE req[w].target \in Equipment /\ Goto(w, "checkRecent", next)
      <4>1. Fits("checkRecent", next) /\ "checkRecent" \in Labels \ Naming
        BY <2>2, <3>2 DEF Fits, Labels, Naming
      <4> HIDE DEF next
      <4> QED BY <1>1, <3>0, <3>2, <4>1, GotoType
    <3>3. CASE Goto(w, "insertTicket", next)
      <4>1. Fits("insertTicket", next) /\ "insertTicket" \in Labels \ Naming
        BY <2>2 DEF Fits, Labels, Naming
      <4> HIDE DEF next
      <4> QED BY <1>1, <3>0, <3>3, <4>1, GotoType
    <3> QED BY Zenon, <1>3, <3>1, <3>2, <3>3 DEF CheckOpen
  <2> QED BY <1>1, <1>3, <2>3 DEF CheckOpen, TablesOK, RaceGhostsOK, StatusGhostsOK, tables, ledger
<1>4. CASE CheckRecent(w)
  <2> DEFINE next == [req[w] EXCEPT !.at = time]
  <2>1. req[w] \in ReportRequest BY <1>1, <1>4 DEF HandlersOK, Fits, CheckRecent
  <2>2. next \in ReportRequest BY <1>1, <2>1 DEF TablesOK, ReportRequest
  <2>3. HandlersOK' /\ NamedTicketsExist'
    <3>0. DOMAIN tickets \subseteq DOMAIN tickets' BY <1>4 DEF CheckRecent, tables
    <3>1. CASE Finish(w) BY <1>1, <3>0, <3>1, FinishType
    <3>2. CASE Goto(w, "insertTicket", next)
      <4>1. Fits("insertTicket", next) /\ "insertTicket" \in Labels \ Naming
        BY <2>2 DEF Fits, Labels, Naming
      <4> HIDE DEF next
      <4> QED BY <1>1, <3>0, <3>2, <4>1, GotoType
    <3> QED BY Zenon, <1>4, <3>1, <3>2 DEF CheckRecent
  <2> QED BY <1>1, <1>4, <2>3 DEF CheckRecent, TablesOK, RaceGhostsOK, StatusGhostsOK, tables, ledger
<1>5. CASE BreakEquipment(w)
  <2>1. req[w] \in ReportRequest /\ req[w].target \in Equipment /\ req[w].id \in DOMAIN tickets
    BY <1>1, <1>5 DEF HandlersOK, Fits, BreakEquipment, NamedTicketsExist, Naming
  <2>2. TablesOK' /\ StatusGhostsOK'
    <3>1. req[w].at \in Time /\ {"working", "broken"} \subseteq Statuses
      BY <2>1 DEF ReportRequest, Statuses
    <3> QED BY <1>1, <1>5, <2>1, <3>1, WriteStatusType DEF BreakEquipment
  <2>3. HandlersOK' /\ NamedTicketsExist'
    <3>1. DOMAIN tickets' = DOMAIN tickets BY <1>5 DEF BreakEquipment
    <3>2. Fits("notifyStaff", req[w]) /\ "notifyStaff" \in Labels BY <2>1 DEF Fits, Labels
    <3> QED BY <1>1, <1>5, <2>1, <3>1, <3>2, GotoType DEF BreakEquipment
  <2> QED BY <1>1, <1>5, <2>2, <2>3 DEF BreakEquipment, RaceGhostsOK
<1>6. CASE NotifyStaff(w)
  <2>1. req[w].id \in TicketIds
    BY <1>1, <1>6 DEF NotifyStaff, NamedTicketsExist, Naming, TablesOK
  <2>2. HandlersOK' /\ NamedTicketsExist' BY <1>1, <1>6, FinishType DEF NotifyStaff
  <2> QED BY <1>1, <1>6, <2>1, <2>2
          DEF NotifyStaff, TablesOK, RaceGhostsOK, StatusGhostsOK, ghosts, ledger
<1>7. CASE ResolveTicket(w)
  <2>1. req[w] \in ResolveRequest /\ req[w].id \in DOMAIN tickets
    BY <1>1, <1>7 DEF HandlersOK, Fits, ResolveTicket, NamedTicketsExist, Naming
  <2>2. DOMAIN tickets' = DOMAIN tickets /\ tickets' \in [DOMAIN tickets' -> TicketRow]
    BY <1>1, <1>7, <2>1, SetTicketType DEF ResolveTicket, ClosedStatuses
  <2>3. HandlersOK' /\ NamedTicketsExist'
    <3>1. Fits("notifyReporter", req[w]) /\ "notifyReporter" \in Labels
      BY <2>1 DEF Fits, Labels
    <3> QED BY <1>1, <1>7, <2>1, <2>2, <3>1, GotoType DEF ResolveTicket
  <2> QED BY <1>1, <1>7, <2>2, <2>3
          DEF ResolveTicket, TablesOK, RaceGhostsOK, StatusGhostsOK, ghosts, ledger
<1>8. CASE NotifyReporter(w)
  <2>1. req[w].id \in TicketIds
    BY <1>1, <1>8 DEF NotifyReporter, NamedTicketsExist, Naming, TablesOK
  <2>2. HandlersOK' /\ NamedTicketsExist' BY <1>1, <1>8, FinishType DEF NotifyReporter
  <2> QED BY <1>1, <1>8, <2>1, <2>2
          DEF NotifyReporter, TablesOK, RaceGhostsOK, StatusGhostsOK, ghosts, ledger
<1>9. CASE UpdateStatus(w)
  <2>1. req[w] \in StatusRequest BY <1>1, <1>9 DEF HandlersOK, Fits, UpdateStatus
  <2>2. TablesOK' /\ StatusGhostsOK'
    BY <1>1, <1>9, <2>1, WriteStatusType DEF UpdateStatus, StatusRequest
  <2>3. HandlersOK' /\ NamedTicketsExist' BY <1>1, <1>9, FinishType DEF UpdateStatus
  <2> QED BY <1>1, <1>9, <2>2, <2>3 DEF UpdateStatus, RaceGhostsOK
<1> QED BY Zenon, <1>2, <1>3, <1>4, <1>5, <1>6, <1>7, <1>8, <1>9 DEF Proceed

(* The steps that answer in one statement, the clock and deaths.           *)
LEMMA OtherType ==
  ASSUME TypeOK, Acknowledge \/ Dismiss \/ Tick
  PROVE  TypeOK'
<1>1. HandlersOK /\ NamedTicketsExist /\ TablesOK /\ RaceGhostsOK /\ StatusGhostsOK
  BY TypeParts
<1> DEFINE AllOK == /\ TablesOK /\ HandlersOK /\ NamedTicketsExist
                    /\ RaceGhostsOK /\ StatusGhostsOK
<1>2. SUFFICES AllOK'
  BY DEF TypeOK, TablesOK, HandlersOK, NamedTicketsExist, Naming, RaceGhostsOK, StatusGhostsOK
<1>3. CASE Acknowledge
  <2>1. PICK id \in DOMAIN tickets :
          /\ SetTicket(id, "acknowledged")
          /\ reopened' = IF id \in Open THEN reopened ELSE reopened \union {id}
    BY <1>3 DEF Acknowledge
  <2>2. DOMAIN tickets' = DOMAIN tickets /\ tickets' \in [DOMAIN tickets' -> TicketRow]
    BY <1>1, <2>1, SetTicketType DEF OpenStatuses
  <2>3. RaceGhostsOK' BY <1>1, <1>3, <2>1 DEF Acknowledge, RaceGhostsOK, TablesOK
  <2> QED BY <1>1, <1>3, <2>2, <2>3
          DEF Acknowledge, TablesOK, HandlersOK, NamedTicketsExist, StatusGhostsOK, ledger
<1>4. CASE Dismiss
  <2>1. PICK id \in DOMAIN tickets : SetTicket(id, "dismissed") BY <1>4 DEF Dismiss
  <2>2. DOMAIN tickets' = DOMAIN tickets /\ tickets' \in [DOMAIN tickets' -> TicketRow]
    BY <1>1, <2>1, SetTicketType DEF ClosedStatuses
  <2> QED BY <1>1, <1>4, <2>2
          DEF Dismiss, TablesOK, HandlersOK, NamedTicketsExist, RaceGhostsOK, StatusGhostsOK,
              ghosts, ledger
<1>5. CASE Tick
  <2>1. time \in Time /\ time' \in Time BY <1>1, <1>5, Constants DEF Tick, TablesOK, Time
  <2>2. broken' \subseteq Equipment \X Time BY <1>1, <1>5, <2>1 DEF Tick, StatusGhostsOK
  <2> QED BY <1>1, <1>5, <2>1, <2>2
          DEF Tick, tables, ledger, TablesOK, HandlersOK, NamedTicketsExist, RaceGhostsOK,
              StatusGhostsOK
<1> QED BY <1>3, <1>4, <1>5

LEMMA TypeStep ==
  ASSUME TypeOK, [Next]_vars
  PROVE  TypeOK'
<1>1. ASSUME UNCHANGED vars PROVE TypeOK'
  BY <1>1 DEF vars, tables, ghosts, ledger, TypeOK, Fits
<1>2. ASSUME NEW w \in Workers, Die(w) PROVE TypeOK'
  <2>1. HandlersOK /\ NamedTicketsExist /\ TablesOK /\ RaceGhostsOK /\ StatusGhostsOK
    BY TypeParts
  <2>2. HandlersOK' /\ NamedTicketsExist'
    BY <1>2, <2>1, FinishType DEF Die, tables
  <2>3. TablesOK' /\ RaceGhostsOK' /\ StatusGhostsOK'
    BY <1>2, <2>1 DEF Die, TablesOK, RaceGhostsOK, StatusGhostsOK, tables, ledger
  <2> QED BY <2>2, <2>3 DEF TypeOK, TablesOK, HandlersOK, NamedTicketsExist, Naming,
                            RaceGhostsOK, StatusGhostsOK
<1> QED BY Zenon, <1>1, <1>2, SubmitType, ProceedType, OtherType DEF Next, RefuseRequest

(* Every reachable state is well typed, and a handler that writes or tells *)
(* of a ticket names one that exists.                                      *)
THEOREM TicketsTypeCorrect == Spec => []TypeOK
<1>1. TypeOK /\ [Next]_vars => TypeOK' BY TypeStep
<1> QED BY TypeInit, <1>1, PTL DEF Spec

-------------------------------------------------------------------------------
(* Duplicates.  What a check found out holds until the insert, up to the   *)
(* tickets inserted since and those taken up again.                        *)

TicketInvariant ==
  CheckedOpen /\ CheckedRecent /\ OpenTicketsExplained /\ RecentTicketsOnlyByRace

LEMMA TicketInvariantInit == Init => TicketInvariant
BY DEF Init, TicketInvariant, CheckedOpen, CheckedRecent, OpenTicketsExplained,
       RecentTicketsOnlyByRace, Checked, Open

(* A step that leaves the tickets and the races alone, and lets no handler *)
(* past a check, except w past one whose result it has just read.          *)
LEMMA HandlerStep ==
  ASSUME TypeOK, TicketInvariant, NEW w \in Workers, NEW to \in Labels, NEW request,
         Goto(w, to, request), UNCHANGED <<tickets, raced, reopened>>,
         \A v \in Workers \ {w} : rivals'[v] = rivals[v],
         to \in Checked => OpenOn(request.target) \subseteq rivals'[w] \union reopened,
         to = "insertTicket" /\ request.target \in Equipment =>
           \A t \in DOMAIN tickets :
             /\ tickets[t].by = request.user /\ tickets[t].target = request.target
             /\ tickets[t].at + Window >= request.at
             => t \in rivals'[w]
  PROVE  TicketInvariant'
<1>0. /\ pc \in [Workers -> Labels] /\ DOMAIN req = Workers
      /\ pc' = [pc EXCEPT ![w] = to] /\ req' = [req EXCEPT ![w] = request]
  BY DEF TypeOK, Goto
<1>1. pc'[w] = to /\ req'[w] = request
      /\ \A v \in Workers \ {w} : pc'[v] = pc[v] /\ req'[v] = req[v]
  BY <1>0
<1>2. CheckedOpen'
  <2> SUFFICES ASSUME NEW v \in Workers, pc'[v] \in Checked
               PROVE  \A t \in Open' : tickets'[t].target = req'[v].target =>
                                      t \in rivals'[v] \union reopened'
    BY DEF CheckedOpen, OpenOn
  <2>1. CASE v = w BY <1>1, <2>1 DEF OpenOn, Open
  <2>2. CASE v # w BY <1>1, <2>2 DEF TicketInvariant, CheckedOpen, OpenOn, Open
  <2> QED BY <2>1, <2>2
<1>3. CheckedRecent'
  BY <1>1 DEF TicketInvariant, CheckedRecent
<1>4. OpenTicketsExplained' /\ RecentTicketsOnlyByRace'
  BY DEF TicketInvariant, OpenTicketsExplained, RecentTicketsOnlyByRace, Open
<1> QED BY <1>2, <1>3, <1>4 DEF TicketInvariant

(* A step that only sets the status of a ticket, and records it when that  *)
(* takes the ticket up again.                                              *)
LEMMA SettingStep ==
  ASSUME TypeOK, TicketInvariant, NEW id \in DOMAIN tickets,
         NEW to \in OpenStatuses \union ClosedStatuses, SetTicket(id, to),
         reopened \subseteq reopened',
         to \in OpenStatuses => id \in Open \/ id \in reopened',
         UNCHANGED <<rivals, raced>>,
         \A v \in Workers : pc'[v] \in Checked => pc'[v] = pc[v] /\ req'[v] = req[v]
  PROVE  TicketInvariant'
<1>1. /\ DOMAIN tickets' = DOMAIN tickets
      /\ \A t \in DOMAIN tickets :
           /\ tickets'[t].target = tickets[t].target /\ tickets'[t].by = tickets[t].by
           /\ tickets'[t].at = tickets[t].at
           /\ tickets'[t].status = IF t = id THEN to ELSE tickets[t].status
  BY SetTicketType, TypeParts
<1>2. Open' \subseteq Open \union reopened'
  BY <1>1 DEF Open
<1>3. CheckedOpen'
  BY <1>1, <1>2 DEF TicketInvariant, CheckedOpen, OpenOn, Open
<1>4. CheckedRecent'
  <2>1. "insertTicket" \in Checked BY DEF Checked
  <2> QED BY <1>1, <2>1 DEF TicketInvariant, CheckedRecent
<1>5. OpenTicketsExplained'
  BY <1>1, <1>2 DEF TicketInvariant, OpenTicketsExplained, Open
<1>6. RecentTicketsOnlyByRace'
  BY <1>1 DEF TicketInvariant, RecentTicketsOnlyByRace
<1> QED BY <1>3, <1>4, <1>5, <1>6 DEF TicketInvariant

(* The insert: what the handler did not see is in its rivals, or was taken *)
(* up again; and the new ticket becomes a rival of everybody else.         *)
LEMMA InsertStep ==
  ASSUME TypeOK, TicketInvariant, NEW w \in Workers, InsertTicket(w)
  PROVE  TicketInvariant'
<1> DEFINE r == req[w]
           row == [target |-> r.target, by |-> r.user, status |-> "pending", at |-> r.at]
           to == IF Breaks(r) THEN "breakEquipment" ELSE "notifyStaff"
           next(id) == [r EXCEPT !.id = id]
<1>1. PICK id \in TicketIds :
        /\ IsFresh(id) /\ tickets' = Insert(tickets, id, row) /\ InsertedTicket(w, id)
        /\ Goto(w, to, next(id))
  BY Zenon DEF InsertTicket
<1>2. pc[w] = "insertTicket" /\ reopened' = reopened /\ r \in ReportRequest
  BY DEF InsertTicket, TypeOK, Fits
<1>3. id \notin DOMAIN tickets BY <1>1 DEF IsFresh
<1>4. /\ DOMAIN tickets' = DOMAIN tickets \union {id} /\ tickets'[id] = row
      /\ \A t \in DOMAIN tickets : tickets'[t] = tickets[t]
  <2> HIDE DEF row
  <2> QED BY <1>1, <1>3 DEF Insert
<1>5. /\ row.target = r.target /\ row.by = r.user /\ row.at = r.at
      /\ row.status \in OpenStatuses
  BY DEF OpenStatuses
<1>6. /\ pc'[w] \notin Checked
      /\ \A v \in Workers \ {w} : pc'[v] = pc[v] /\ req'[v] = req[v]
  <2>1. to \notin Checked BY DEF Checked
  <2> HIDE DEF to, next
  <2> QED BY <1>1, <2>1 DEF TypeOK, Goto
<1>7. \A v \in Workers \ {w} : pc[v] \in Checked => rivals'[v] = rivals[v] \union {id}
  BY <1>1 DEF InsertedTicket
<1>8. raced' = raced \union {<<id, t>> : t \in rivals[w]}
  BY <1>1 DEF InsertedTicket
<1>9. Open' = Open \union {id}
  BY <1>4, <1>5 DEF Open
<1>10. \A t \in Open : tickets[t].target = r.target => t \in rivals[w] \union reopened
  BY <1>2 DEF TicketInvariant, CheckedOpen, Checked, OpenOn
<1>11. r.target \in Equipment =>
         \A t \in DOMAIN tickets :
           /\ tickets[t].by = r.user /\ tickets[t].target = r.target
           /\ tickets[t].at + Window >= r.at
           => t \in rivals[w]
  BY <1>2 DEF TicketInvariant, CheckedRecent
<1> HIDE DEF row, to, next, r
<1>12. CheckedOpen'
  <2> SUFFICES ASSUME NEW v \in Workers, pc'[v] \in Checked
               PROVE  \A t \in Open' : tickets'[t].target = req'[v].target =>
                                      t \in rivals'[v] \union reopened'
    BY DEF CheckedOpen, OpenOn
  <2>1. v # w /\ pc[v] \in Checked /\ req'[v] = req[v] BY <1>6
  <2>2. \A t \in Open' : tickets'[t].target = req'[v].target /\ t # id =>
                           t \in Open /\ tickets[t].target = req[v].target
    BY <1>4, <1>9, <2>1 DEF Open
  <2>3. \A t \in Open : tickets[t].target = req[v].target => t \in rivals[v] \union reopened
    BY <2>1 DEF TicketInvariant, CheckedOpen, OpenOn
  <2> QED BY <1>2, <1>7, <2>1, <2>2, <2>3
<1>13. CheckedRecent'
  <2>1. "insertTicket" \in Checked BY DEF Checked
  <2> QED BY <1>4, <1>6, <1>7, <2>1 DEF TicketInvariant, CheckedRecent
<1>14. OpenTicketsExplained'
  <2> SUFFICES ASSUME NEW t \in Open', NEW u \in Open', t # u,
                      tickets'[t].target = tickets'[u].target
               PROVE  \/ <<t, u>> \in raced' \/ <<u, t>> \in raced'
                      \/ {t, u} \intersect reopened' # {}
    BY DEF OpenTicketsExplained
  <2>1. CASE t = id
    <3>1. u \in Open /\ tickets[u].target = r.target
      BY <1>4, <1>5, <1>9, <2>1 DEF Open
    <3> QED BY <1>2, <1>8, <1>10, <2>1, <3>1
  <2>2. CASE u = id
    <3>1. t \in Open /\ tickets[t].target = r.target
      BY <1>4, <1>5, <1>9, <2>2 DEF Open
    <3> QED BY <1>2, <1>8, <1>10, <2>2, <3>1
  <2>3. CASE t # id /\ u # id
    <3>1. t \in Open /\ u \in Open /\ tickets[t].target = tickets[u].target
      BY <1>4, <1>9, <2>3 DEF Open
    <3> QED BY <1>2, <1>8, <3>1 DEF TicketInvariant, OpenTicketsExplained
  <2> QED BY <2>1, <2>2, <2>3
<1>15. RecentTicketsOnlyByRace'
  <2> SUFFICES ASSUME NEW t \in DOMAIN tickets', NEW u \in DOMAIN tickets', t # u,
                      tickets'[t].by = tickets'[u].by,
                      tickets'[t].target = tickets'[u].target,
                      tickets'[t].target \in Equipment,
                      tickets'[t].at <= tickets'[u].at,
                      tickets'[u].at <= tickets'[t].at + Window
               PROVE  <<t, u>> \in raced' \/ <<u, t>> \in raced'
    BY DEF RecentTicketsOnlyByRace
  <2>1. CASE u = id
    <3>1. /\ t \in DOMAIN tickets /\ tickets[t].by = r.user /\ tickets[t].target = r.target
          /\ tickets[t].at + Window >= r.at /\ r.target \in Equipment
      BY <1>4, <1>5, <2>1
    <3> QED BY <1>8, <1>11, <2>1, <3>1
  <2>2. CASE t = id
    <3>1. /\ u \in DOMAIN tickets /\ tickets[u].by = r.user /\ tickets[u].target = r.target
          /\ tickets[u].at >= r.at /\ r.target \in Equipment
      BY <1>4, <1>5, <2>2
    <3>2. tickets[u].at \in Nat /\ r.at \in Nat /\ Window \in Nat
      <4>1. Time \subseteq Nat BY Constants DEF Time
      <4>2. tickets[u] \in TicketRow BY <3>1 DEF TypeOK
      <4> QED BY <1>2, <4>1, <4>2, Constants DEF TicketRow, ReportRequest
    <3>3. tickets[u].at + Window >= r.at BY <3>1, <3>2
    <3> QED BY <1>8, <1>11, <2>2, <3>1, <3>3
  <2>3. CASE t # id /\ u # id
    BY <1>4, <1>8, <2>3 DEF TicketInvariant, RecentTicketsOnlyByRace
  <2> QED BY <2>1, <2>2, <2>3
<1> QED BY <1>12, <1>13, <1>14, <1>15 DEF TicketInvariant

LEMMA CheckStep ==
  ASSUME TypeOK, TicketInvariant, NEW w \in Workers, CheckOpen(w) \/ CheckRecent(w)
  PROVE  TicketInvariant'
<1> DEFINE next == [req[w] EXCEPT !.at = time]
<1>1. req[w] \in ReportRequest /\ rivals \in [Workers -> SUBSET TicketIds]
  BY DEF CheckOpen, CheckRecent, TypeOK, Fits
<1>2. /\ next.target = req[w].target /\ next.user = req[w].user /\ next.at = time
  BY <1>1 DEF ReportRequest
<1>3. UNCHANGED <<tickets, raced, reopened>>
      /\ \A v \in Workers \ {w} : rivals'[v] = rivals[v]
  BY <1>1 DEF CheckOpen, CheckRecent, tables
<1> HIDE DEF next
<1>4. CASE Finish(w)
  <2>1. "idle" \in Labels \ Checked BY DEF Labels, Checked
  <2> QED BY <1>3, <1>4, <2>1, HandlerStep DEF Finish
<1>5. CASE CheckOpen(w) /\ ~Finish(w)
  <2>1. /\ OpenOn(req[w].target) = {}
        /\ Goto(w, IF req[w].target \in Equipment THEN "checkRecent" ELSE "insertTicket", next)
    BY Zenon, <1>5 DEF CheckOpen, next
  <2>2. CASE req[w].target \in Equipment
    <3>1. "checkRecent" \in Labels BY DEF Labels
    <3>2. Goto(w, "checkRecent", next) BY Zenon, <2>1, <2>2
    <3> QED BY <1>2, <1>3, <2>1, <3>1, <3>2, HandlerStep
  <2>3. CASE req[w].target \notin Equipment
    <3>1. "insertTicket" \in Labels BY DEF Labels
    <3>2. Goto(w, "insertTicket", next) BY Zenon, <2>1, <2>3
    <3> QED BY <1>2, <1>3, <2>1, <2>3, <3>1, <3>2, HandlerStep
  <2> QED BY <2>2, <2>3
<1>6. CASE CheckRecent(w) /\ ~Finish(w)
  <2>1. /\ RecentBy(req[w].user, req[w].target) = {} /\ UNCHANGED rivals
        /\ Goto(w, "insertTicket", next)
    BY Zenon, <1>6 DEF CheckRecent, next
  <2>2. OpenOn(next.target) \subseteq rivals'[w] \union reopened
    BY <1>2, <1>6, <2>1 DEF CheckRecent, TicketInvariant, CheckedOpen, Checked
  <2>3. \A t \in DOMAIN tickets :
          /\ tickets[t].by = next.user /\ tickets[t].target = next.target
          /\ tickets[t].at + Window >= next.at
          => t \in rivals'[w]
    BY <1>2, <2>1 DEF RecentBy
  <2>4. "insertTicket" \in Labels BY DEF Labels
  <2> QED BY <1>3, <2>1, <2>2, <2>3, <2>4, HandlerStep
<1> QED BY <1>4, <1>5, <1>6

LEMMA TicketInvariantStep ==
  ASSUME TypeOK, TicketInvariant, [Next]_vars
  PROVE  TicketInvariant'
<1>1. ASSUME UNCHANGED vars PROVE TicketInvariant'
  BY <1>1 DEF vars, tables, ghosts, TicketInvariant, CheckedOpen, CheckedRecent, OpenOn, Open,
              OpenTicketsExplained, RecentTicketsOnlyByRace
<1>2. CASE Tick
  BY <1>2 DEF Tick, tables, TicketInvariant, CheckedOpen, CheckedRecent, OpenOn, Open,
              OpenTicketsExplained, RecentTicketsOnlyByRace
<1>3. CASE Acknowledge
  <2>1. PICK id \in DOMAIN tickets :
          /\ SetTicket(id, "acknowledged")
          /\ reopened' = IF id \in Open THEN reopened ELSE reopened \union {id}
    BY <1>3 DEF Acknowledge
  <2>2. id \in Open \/ id \in reopened' BY <2>1
  <2>3. reopened \subseteq reopened' BY <2>1
  <2>4. "acknowledged" \in OpenStatuses BY DEF OpenStatuses
  <2>5. UNCHANGED <<rivals, raced, pc, req>> BY <1>3 DEF Acknowledge
  <2> QED BY <2>1, <2>2, <2>3, <2>4, <2>5, SettingStep
<1>4. CASE Dismiss
  <2>1. PICK id \in DOMAIN tickets : SetTicket(id, "dismissed") BY <1>4 DEF Dismiss
  <2>2. "dismissed" \in ClosedStatuses \ OpenStatuses BY DEF ClosedStatuses, OpenStatuses
  <2>3. UNCHANGED <<rivals, raced, reopened, pc, req>> BY <1>4 DEF Dismiss, ghosts
  <2> QED BY <2>1, <2>2, <2>3, SettingStep
<1>5. ASSUME NEW w \in Workers, Submit(w) PROVE TicketInvariant'
  <2>1. UNCHANGED <<tickets, raced, reopened, rivals>>
    BY <1>5 DEF Submit, SubmitReport, SubmitResolve, SubmitStatus, tables, ghosts
  <2>2. PICK to, request : to \in Labels \ Checked /\ Goto(w, to, request)
    <3>1. {"checkOpen", "resolveTicket", "writeStatus"} \subseteq Labels \ Checked
      BY DEF Labels, Checked
    <3> QED BY <1>5, <3>1 DEF Submit, SubmitReport, SubmitResolve, SubmitStatus
  <2>3. to # "insertTicket" BY <2>2 DEF Checked
  <2> QED BY <2>1, <2>2, <2>3, HandlerStep
<1>6. ASSUME NEW w \in Workers,
             BreakEquipment(w) \/ NotifyStaff(w) \/ NotifyReporter(w) \/ UpdateStatus(w)
      PROVE  TicketInvariant'
  <2>1. UNCHANGED <<tickets, raced, reopened, rivals>>
    BY <1>6 DEF BreakEquipment, NotifyStaff, NotifyReporter, UpdateStatus, WriteStatus,
                Misread, ghosts
  <2>2. {"idle", "notifyStaff"} \subseteq Labels \ Checked BY DEF Labels, Checked
  <2>3. Goto(w, "notifyStaff", req[w]) \/ Goto(w, "idle", NoRequest)
    BY <1>6 DEF BreakEquipment, NotifyStaff, NotifyReporter, UpdateStatus, Finish
  <2>4. "insertTicket" \in Checked BY DEF Checked
  <2> QED BY <2>1, <2>2, <2>3, <2>4, HandlerStep
<1>7. ASSUME NEW w \in Workers, ResolveTicket(w) PROVE TicketInvariant'
  <2>1. req[w].id \in DOMAIN tickets BY <1>7 DEF ResolveTicket, TypeOK
  <2>2. UNCHANGED <<rivals, raced, reopened>> /\ SetTicket(req[w].id, "resolved")
    BY <1>7 DEF ResolveTicket, ghosts
  <2>3. "resolved" \in ClosedStatuses \ OpenStatuses BY DEF ClosedStatuses, OpenStatuses
  <2>4. \A v \in Workers : pc'[v] \in Checked => pc'[v] = pc[v] /\ req'[v] = req[v]
    <3>1. "notifyReporter" \notin Checked BY DEF Checked
    <3> QED BY <1>7, <3>1 DEF ResolveTicket, Goto, TypeOK
  <2> QED BY <2>1, <2>2, <2>3, <2>4, SettingStep
<1>8. ASSUME NEW w \in Workers, Die(w) PROVE TicketInvariant'
  <2>1. /\ UNCHANGED <<tickets, raced, reopened>>
        /\ \A v \in Workers \ {w} : rivals'[v] = rivals[v]
    BY <1>8 DEF Die, tables, TypeOK
  <2>2. "idle" \in Labels \ Checked /\ "insertTicket" \in Checked BY DEF Labels, Checked
  <2> QED BY <1>8, <2>1, <2>2, HandlerStep DEF Die, Finish
<1> QED BY Zenon, <1>1, <1>2, <1>3, <1>4, <1>5, <1>6, <1>7, <1>8, InsertStep, CheckStep
        DEF Next, Proceed, RefuseRequest

LEMMA TicketInvariantHolds == Spec => []TicketInvariant
<1>1. TypeOK /\ TicketInvariant /\ [Next]_vars => TicketInvariant' BY TicketInvariantStep
<1> QED BY TicketInvariantInit, TicketsTypeCorrect, <1>1, PTL DEF Spec

(* createReport's guard against duplicates, taken as far as it goes: two   *)
(* tickets are open on one target only if their inserts raced past each    *)
(* other's check, or acknowledge took up a closed one.                     *)
THEOREM DuplicateTicketsExplained == Spec => []OpenTicketsExplained
<1>1. TicketInvariant => OpenTicketsExplained BY DEF TicketInvariant
<1> QED BY <1>1, TicketInvariantHolds, PTL

(* createReport's guard against spam: two tickets of one user on one       *)
(* equipment lie within the window only if their inserts raced.            *)
THEOREM SpamIsARace == Spec => []RecentTicketsOnlyByRace
<1>1. TicketInvariant => RecentTicketsOnlyByRace BY DEF TicketInvariant
<1> QED BY <1>1, TicketInvariantHolds, PTL

-------------------------------------------------------------------------------
(* The history.  It changes only in WriteStatus, which appends at most one *)
(* row; HistoryTellsStatus is inductive, as a reading that is not stale    *)
(* starts the new row where the last one ended.                            *)

LaterRows(k, e) == {j \in DOMAIN history : j > k /\ history[j].equipment = e}
ToldAt(k, e) ==
  \/ LaterRows(k, e) = {} /\ history[k].to = status[e]
  \/ \E j \in LaterRows(k, e) :
       (\A i \in LaterRows(k, e) : j <= i) /\ history[j].from = history[k].to

LEMMA ToldEverywhere ==
  HistoryTellsStatus <=>
    \A e \in Equipment \ misread : \A k \in DOMAIN history :
      history[k].equipment = e => ToldAt(k, e)
BY DEF HistoryTellsStatus, ToldAt, LaterRows

(* A row appended for e0 is the next of the one that was its last.         *)
LEMMA AppendedRow ==
  ASSUME TablesOK, HistoryTellsStatus, NEW e0 \in Equipment, NEW to \in Statuses,
         NEW row \in HistoryRow, row.equipment = e0, row.to = to,
         e0 \notin misread' => row.from = status[e0],
         misread \subseteq misread',
         status' = [status EXCEPT ![e0] = to], history' = Append(history, row)
  PROVE  HistoryTellsStatus'
<1> DEFINE n == Len(history)
<1>1. n \in Nat /\ DOMAIN history = 1 .. n BY DEF TablesOK
<1>2. /\ DOMAIN history' = 1 .. n + 1 /\ history'[n + 1] = row
      /\ \A k \in 1 .. n : history'[k] = history[k]
  BY <1>1 DEF TablesOK
<1>3. status'[e0] = to /\ \A e \in Equipment \ {e0} : status'[e] = status[e]
  BY DEF TablesOK
<1> SUFFICES ASSUME NEW e \in Equipment \ misread', NEW k \in DOMAIN history',
                    history'[k].equipment = e
             PROVE  ToldAt(k, e)'
  BY DEF HistoryTellsStatus, ToldAt, LaterRows
<1> HIDE DEF n
<1>4. \A j : j \in LaterRows(k, e)' <=>
               \/ j \in LaterRows(k, e)
               \/ j = n + 1 /\ n + 1 > k /\ e = e0
  <2>1. \A j : j \in LaterRows(k, e)' <=>
                j \in 1 .. n + 1 /\ j > k /\ history'[j].equipment = e
    BY <1>2 DEF LaterRows
  <2>2. \A j : j \in LaterRows(k, e) <=> j \in 1 .. n /\ j > k /\ history[j].equipment = e
    BY <1>1 DEF LaterRows
  <2>3. \A j : j \in 1 .. n + 1 <=> j \in 1 .. n \/ j = n + 1
    BY <1>1
  <2> QED BY <1>2, <2>1, <2>2, <2>3
<1>5. CASE k = n + 1
  <2>1. e = e0 /\ history'[k].to = status'[e] BY <1>2, <1>3, <1>5
  <2>2. LaterRows(k, e)' = {} BY <1>1, <1>2, <1>5 DEF LaterRows
  <2> QED BY <2>1, <2>2 DEF ToldAt
<1>6. CASE k \in 1 .. n
  <2>1. history'[k] = history[k] /\ ToldAt(k, e) BY <1>1, <1>2, <1>6, ToldEverywhere
  <2>2. CASE e # e0
    <3>1. LaterRows(k, e)' = LaterRows(k, e) BY <1>4, <2>2
    <3>2. \A j \in LaterRows(k, e) : history'[j] = history[j] BY <1>1, <1>2 DEF LaterRows
    <3>3. status'[e] = status[e] BY <1>3, <2>2
    <3>4. CASE LaterRows(k, e) = {} /\ history[k].to = status[e]
      <4>1. LaterRows(k, e)' = {} BY <3>1, <3>4
      <4> QED BY <2>1, <3>3, <3>4, <4>1 DEF ToldAt
    <3>5. CASE \E j \in LaterRows(k, e) :
                 (\A i \in LaterRows(k, e) : j <= i) /\ history[j].from = history[k].to
      BY <2>1, <3>1, <3>2, <3>5 DEF ToldAt
    <3> QED BY <2>1, <3>4, <3>5 DEF ToldAt
  <2>3. CASE e = e0
    <3>1. LaterRows(k, e)' = LaterRows(k, e) \union {n + 1}
      <4>1. n + 1 > k /\ n + 1 \in 1 .. n + 1 BY <1>1, <1>6
      <4> QED BY <1>4, <2>3, <4>1
    <3>2. \A j \in LaterRows(k, e) : history'[j] = history[j] /\ j <= n + 1 /\ j \in Nat
      BY <1>1, <1>2 DEF LaterRows
    <3>3. CASE LaterRows(k, e) = {} /\ history[k].to = status[e]
      BY <1>1, <1>2, <2>1, <2>3, <3>1, <3>3 DEF ToldAt
    <3>4. CASE \E j \in LaterRows(k, e) :
                 (\A i \in LaterRows(k, e) : j <= i) /\ history[j].from = history[k].to
      BY <1>1, <2>1, <3>1, <3>2, <3>4 DEF ToldAt
    <3> QED BY <2>1, <3>3, <3>4 DEF ToldAt
  <2> QED BY <2>2, <2>3
<1> QED BY <1>1, <1>2, <1>5, <1>6

LEMMA WrittenStatus ==
  ASSUME TablesOK, HistoryTellsStatus, NEW e \in Equipment, NEW seen \in Statuses,
         NEW to \in Statuses, NEW at \in Time, WriteStatus(e, seen, to, at)
  PROVE  HistoryTellsStatus'
<1>1. misread \subseteq misread' /\ (e \notin misread' => seen = status[e])
  BY DEF WriteStatus, Misread
<1>2. status' = [status EXCEPT ![e] = to] BY DEF WriteStatus
<1>3. CASE seen = to
  <2>1. history' = history BY <1>3 DEF WriteStatus, HistoryAfter
  <2>2. \A x \in Equipment \ misread' : status'[x] = status[x]
    BY <1>1, <1>2, <1>3 DEF TablesOK
  <2> QED BY <1>1, <2>1, <2>2 DEF HistoryTellsStatus
<1>4. CASE seen # to
  <2> DEFINE row == [equipment |-> e, from |-> seen, to |-> to, at |-> at]
  <2>1. row \in HistoryRow /\ row.equipment = e /\ row.to = to /\ row.from = seen
    BY DEF HistoryRow
  <2>2. history' = Append(history, row) BY <1>4 DEF WriteStatus, HistoryAfter
  <2> HIDE DEF row
  <2> QED BY <1>1, <1>2, <2>1, <2>2, AppendedRow
<1> QED BY <1>3, <1>4

LEMMA HistoryStep ==
  ASSUME TypeOK, HistoryTellsStatus, [Next]_vars
  PROVE  HistoryTellsStatus'
<1>0. TablesOK /\ HandlersOK BY TypeParts
<1>1. CASE UNCHANGED <<status, history, misread>>
  BY <1>1 DEF HistoryTellsStatus
<1>2. ASSUME NEW w \in Workers, BreakEquipment(w) PROVE HistoryTellsStatus'
  <2>1. WriteStatus(req[w].target, "working", "broken", req[w].at)
    BY <1>2 DEF BreakEquipment
  <2>2. req[w].target \in Equipment /\ req[w].at \in Time
    BY <1>0, <1>2 DEF BreakEquipment, HandlersOK, Fits, ReportRequest
  <2>3. {"working", "broken"} \subseteq Statuses BY DEF Statuses
  <2> QED BY <1>0, <2>1, <2>2, <2>3, WrittenStatus
<1>3. ASSUME NEW w \in Workers, UpdateStatus(w) PROVE HistoryTellsStatus'
  <2>1. WriteStatus(req[w].target, req[w].seen, req[w].to, req[w].at)
    BY <1>3 DEF UpdateStatus
  <2>2. req[w] \in StatusRequest
    BY <1>0, <1>3 DEF UpdateStatus, HandlersOK, Fits
  <2>3. /\ req[w].target \in Equipment /\ req[w].at \in Time
        /\ req[w].seen \in Statuses /\ req[w].to \in Statuses
    BY <2>2, Constants DEF StatusRequest
  <2> QED BY <1>0, <2>1, <2>3, WrittenStatus
<1>4. ASSUME NEW w \in Workers,
             Submit(w) \/ RefuseRequest(w) \/ Die(w) \/ CheckOpen(w) \/ CheckRecent(w)
               \/ InsertTicket(w) \/ NotifyStaff(w) \/ ResolveTicket(w) \/ NotifyReporter(w)
      PROVE  UNCHANGED <<status, history, misread>>
  BY <1>4 DEF Submit, SubmitReport, SubmitResolve, SubmitStatus, RefuseRequest, Die, CheckOpen,
              CheckRecent, InsertTicket, NotifyStaff, ResolveTicket, NotifyReporter, vars,
              tables, ghosts, ledger
<1>5. CASE Tick \/ Acknowledge \/ Dismiss \/ UNCHANGED vars
  BY <1>1, <1>5 DEF Tick, Acknowledge, Dismiss, vars, tables, ghosts, ledger
<1> QED BY Zenon, <1>1, <1>2, <1>3, <1>4, <1>5 DEF Next, Proceed

(* updateStatus and createReport promise that the status and its history   *)
(* go together: the rows of an equipment form a chain that ends in its     *)
(* status, however many handlers write, until one of them writes what it   *)
(* had read before another changed it.                                     *)
THEOREM HistoryIsAChain == Spec => []HistoryTellsStatus
<1>1. Init => HistoryTellsStatus BY DEF Init, HistoryTellsStatus
<1>2. TypeOK /\ HistoryTellsStatus /\ [Next]_vars => HistoryTellsStatus' BY HistoryStep
<1> QED BY <1>1, <1>2, TicketsTypeCorrect, PTL DEF Spec

-------------------------------------------------------------------------------
(* What the downtime of the maintenance report can be told from: whether   *)
(* an equipment was broken at the end of a tick is what its last row by    *)
(* then says, or, before its first row, what that row changed from.        *)

StandsAt(e, k, t) ==
  /\ k \in RowsOf(e) /\ history[k].at <= t
  /\ \A j \in RowsOf(e) : j > k => history[j].at > t
BornAs(e, s) ==
  \/ RowsOf(e) = {} /\ status[e] = s
  \/ \E k \in RowsOf(e) : (\A j \in RowsOf(e) : k <= j) /\ history[k].from = s
BrokenBy(e, t) ==
  \/ \E k \in RowsOf(e) : StandsAt(e, k, t) /\ history[k].to = "broken"
  \/ (\A k \in RowsOf(e) : history[k].at > t) /\ BornAs(e, "broken")

Recorded == Equipment \ (unlogged \union late)
HistoryTellsDowntime ==
  \A e \in Recorded : \A t \in Time : t < time => (<<e, t>> \in broken <=> BrokenBy(e, t))

(* Nothing is recorded of the tick that runs; rows are stamped in order    *)
(* and not after it; the last row tells the status; and as long as an equipment has no row,  *)
(* what a handler read of it is still so.                                  *)
BrokenIsPast == \A e \in Equipment : \A t \in Time : <<e, t>> \in broken => t < time
StampsInOrder ==
  \A e \in Recorded : \A k \in RowsOf(e) :
    /\ history[k].at <= time
    /\ \A j \in RowsOf(e) : j <= k => history[j].at <= history[k].at
LastTells ==
  \A e \in Recorded : \A k \in RowsOf(e) :
    (\A j \in RowsOf(e) : j <= k) => history[k].to = status[e]
FirstReading ==
  \A w \in Workers :
    /\ req[w].op \in {"report", "status"}
    /\ req[w].target \in Recorded /\ RowsOf(req[w].target) = {}
    => req[w].seen = status[req[w].target]
BreakersSawWorking ==
  \A w \in Workers : pc[w] = "breakEquipment" => req[w].seen = "working"

DowntimeInvariant ==
  /\ HistoryTellsDowntime /\ BrokenIsPast /\ StampsInOrder /\ LastTells
  /\ FirstReading /\ BreakersSawWorking

LEMMA RowsAreNumbered ==
  ASSUME TablesOK, NEW e, NEW k \in RowsOf(e)
  PROVE  k \in Nat /\ k \in DOMAIN history /\ history[k].at \in Nat
<1>1. DOMAIN history = 1 .. Len(history) /\ Len(history) \in Nat BY DEF TablesOK
<1>2. k \in DOMAIN history /\ history[k] \in HistoryRow BY DEF TablesOK, RowsOf
<1> QED BY <1>1, <1>2, Constants DEF HistoryRow, Time

(* The rows of an equipment, as long as it has any, have a last one: the   *)
(* one that fewest rows of the table follow.                               *)
LEMMA LastOfRows ==
  ASSUME TablesOK, NEW e, RowsOf(e) # {}
  PROVE  \E k \in RowsOf(e) : \A j \in RowsOf(e) : j <= k
<1> DEFINE n == Len(history)
           behind == {n - k : k \in RowsOf(e)}
<1>1. n \in Nat /\ \A k \in RowsOf(e) : k \in 1 .. n BY DEF TablesOK, RowsOf
<1>2. \A k \in RowsOf(e) : n - k \in Nat BY <1>1
<1>3. behind \subseteq Nat /\ behind # {} BY <1>2
<1>4. PICK b \in behind : \A c \in behind : ~(<<c, b>> \in OpToRel(<, Nat))
  <2> HIDE DEF behind
  <2> QED BY <1>3, NatLessThanWellFounded, WFMin
<1>5. PICK k \in RowsOf(e) : b = n - k OBVIOUS
<1>6. ASSUME NEW j \in RowsOf(e) PROVE j <= k
  <2>1. n - j \in behind /\ n - j \in Nat /\ n - k \in Nat BY <1>2
  <2>2. ~(<<n - j, n - k>> \in OpToRel(<, Nat)) BY <1>4, <1>5, <2>1
  <2> HIDE DEF behind, n
  <2>3. ~(n - j < n - k) BY <2>1, <2>2 DEF OpToRel
  <2> QED BY <1>1, <2>3
<1> QED BY <1>6

(* What a write does to one equipment: nothing, or a row, stamped now, that *)
(* ends in the new status.                                                  *)
Same(e) ==
  /\ RowsOf(e)' = RowsOf(e) /\ status'[e] = status[e]
  /\ \A k \in RowsOf(e) : history'[k] = history[k]
Extended(e, n) ==
  /\ RowsOf(e)' = RowsOf(e) \union {n}
  /\ \A k \in RowsOf(e) : k < n /\ history'[k] = history[k]
  /\ history'[n].at = time /\ history'[n].to = status'[e]
  /\ RowsOf(e) = {} => history'[n].from = status[e]

LEMMA WriteCases ==
  ASSUME TablesOK, NEW e0 \in Equipment, NEW seen \in Statuses, NEW to \in Statuses,
         NEW at \in Time, WriteStatus(e0, seen, to, at),
         e0 \in Recorded /\ RowsOf(e0) = {} => seen = status[e0],
         NEW e \in Recorded'
  PROVE  e \in Recorded /\ (Same(e) \/ \E n \in Nat : Extended(e, n))
<1> DEFINE row == [equipment |-> e0, from |-> seen, to |-> to, at |-> at]
<1>1. e \in Recorded BY DEF Recorded, WriteStatus, Misread
<1>2. status' = [status EXCEPT ![e0] = to] BY DEF WriteStatus
<1>3. CASE seen = to
  <2>1. history' = history BY <1>3 DEF WriteStatus, HistoryAfter
  <2>2. e = e0 => to = status[e0]
    BY <1>3 DEF Recorded, WriteStatus, Misread
  <2>3. status'[e] = status[e] BY <1>2, <2>2 DEF TablesOK, Recorded
  <2> QED BY <1>1, <2>1, <2>3 DEF Same, RowsOf
<1>4. CASE seen # to
  <2>1. history' = Append(history, row) /\ row \in HistoryRow
        /\ row.equipment = e0 /\ row.from = seen /\ row.to = to /\ row.at = at
    BY <1>4 DEF WriteStatus, HistoryAfter, HistoryRow
  <2> HIDE DEF row
  <2> DEFINE n == Len(history) + 1
  <2>2. n \in Nat /\ DOMAIN history = 1 .. n - 1 BY DEF TablesOK
  <2>3. /\ DOMAIN history' = 1 .. n /\ history'[n] = row
        /\ \A k \in 1 .. n - 1 : history'[k] = history[k]
    BY <2>1 DEF TablesOK
  <2> HIDE DEF n
  <2>4. \A k \in RowsOf(e) : k < n /\ history'[k] = history[k] BY <2>2, <2>3 DEF RowsOf
  <2>5. CASE e # e0
    <3>1. RowsOf(e)' = RowsOf(e) BY <2>1, <2>2, <2>3, <2>5 DEF RowsOf
    <3>2. status'[e] = status[e] BY <1>2, <2>5 DEF TablesOK, Recorded
    <3> QED BY <1>1, <2>4, <3>1, <3>2 DEF Same
  <2>6. CASE e = e0
    <3>1. RowsOf(e)' = RowsOf(e) \union {n} BY <2>1, <2>2, <2>3, <2>6 DEF RowsOf
    <3>2. at = time BY <2>6 DEF Recorded, WriteStatus, Misread
    <3>3. status'[e] = to BY <1>2, <2>6 DEF TablesOK
    <3>4. RowsOf(e) = {} => seen = status[e] BY <1>1, <2>6
    <3> QED BY <1>1, <2>1, <2>2, <2>3, <2>4, <3>1, <3>2, <3>3, <3>4 DEF Extended
  <2> QED BY <2>5, <2>6
<1> QED BY <1>3, <1>4

(* A row stamped now tells nothing new of the ticks that are over. *)
LEMMA PastStands ==
  ASSUME TablesOK, NEW e \in Equipment, NEW t \in Time, t < time,
         Same(e) \/ \E n \in Nat : Extended(e, n)
  PROVE  BrokenBy(e, t)' <=> BrokenBy(e, t)
<1>1. t \in Nat /\ time \in Nat BY Constants DEF Time, TablesOK
<1>2. CASE Same(e)
  BY <1>2 DEF Same, BrokenBy, StandsAt, BornAs
<1>3. ASSUME NEW n \in Nat, Extended(e, n) PROVE BrokenBy(e, t)' <=> BrokenBy(e, t)
  <2>1. /\ RowsOf(e)' = RowsOf(e) \union {n} /\ n \notin RowsOf(e)
        /\ \A k \in RowsOf(e) : k < n /\ k \in Nat /\ history'[k] = history[k]
        /\ history'[n].at > t
    BY <1>1, <1>3, RowsAreNumbered DEF Extended
  <2>2. ~StandsAt(e, n, t)' BY <1>1, <1>3 DEF Extended, StandsAt
  <2>3. \A k \in RowsOf(e) : StandsAt(e, k, t)' <=> StandsAt(e, k, t)
    BY <2>1 DEF StandsAt
  <2>4. (\A k \in RowsOf(e)' : history'[k].at > t) <=> \A k \in RowsOf(e) : history[k].at > t
    BY <2>1
  <2>5. BornAs(e, "broken")' <=> BornAs(e, "broken")
    <3>1. CASE RowsOf(e) = {}
      <4>1. RowsOf(e)' = {n} /\ history'[n].from = status[e]
        BY <1>3, <2>1, <3>1 DEF Extended
      <4> QED BY <3>1, <4>1 DEF BornAs
    <3>2. CASE RowsOf(e) # {}
      <4>1. ASSUME NEW k \in RowsOf(e)
            PROVE  (\A j \in RowsOf(e)' : k <= j) <=> \A j \in RowsOf(e) : k <= j
        BY <2>1
      <4>2. ~\A j \in RowsOf(e)' : n <= j BY <2>1, <3>2
      <4> QED BY <2>1, <3>2, <4>1, <4>2 DEF BornAs
    <3> QED BY <3>1, <3>2
  <2> QED BY <2>1, <2>2, <2>3, <2>4, <2>5 DEF BrokenBy
<1> QED BY <1>2, <1>3

LEMMA WrittenDowntime ==
  ASSUME TablesOK, DowntimeInvariant, NEW e0 \in Equipment, NEW seen \in Statuses,
         NEW to \in Statuses, NEW at \in Time, WriteStatus(e0, seen, to, at),
         e0 \in Recorded /\ RowsOf(e0) = {} => seen = status[e0],
         UNCHANGED <<time, broken>>
  PROVE  /\ HistoryTellsDowntime' /\ BrokenIsPast' /\ StampsInOrder' /\ LastTells'
         /\ \A e \in Recorded' : RowsOf(e)' = {} =>
              e \in Recorded /\ RowsOf(e) = {} /\ status'[e] = status[e]
<1> USE DEF DowntimeInvariant
<1>1. \A e \in Recorded' : e \in Recorded /\ (Same(e) \/ \E n \in Nat : Extended(e, n))
  BY WriteCases
<1>2. HistoryTellsDowntime'
  <2> SUFFICES ASSUME NEW e \in Recorded', NEW t \in Time, t < time
               PROVE  <<e, t>> \in broken <=> BrokenBy(e, t)'
    BY DEF HistoryTellsDowntime
  <2>1. e \in Equipment BY DEF Recorded
  <2>2. BrokenBy(e, t)' <=> BrokenBy(e, t) BY <1>1, <2>1, PastStands
  <2> QED BY <1>1, <2>2 DEF HistoryTellsDowntime
<1>3. BrokenIsPast' BY DEF BrokenIsPast
<1>4. StampsInOrder'
  <2> SUFFICES ASSUME NEW e \in Recorded', NEW k \in RowsOf(e)'
               PROVE  /\ history'[k].at <= time
                      /\ \A j \in RowsOf(e)' : j <= k => history'[j].at <= history'[k].at
    BY DEF StampsInOrder
  <2>1. time \in Nat BY Constants DEF TablesOK, Time
  <2>2. CASE Same(e) BY <1>1, <2>2 DEF Same, StampsInOrder
  <2>3. ASSUME NEW n \in Nat, Extended(e, n)
        PROVE  /\ history'[k].at <= time
               /\ \A j \in RowsOf(e)' : j <= k => history'[j].at <= history'[k].at
    <3>1. \A j \in RowsOf(e) : j < n /\ j \in Nat /\ history[j].at <= time
      BY <1>1, <2>3, RowsAreNumbered DEF Extended, StampsInOrder
    <3>2. \A j, i \in RowsOf(e) : i <= j => history[i].at <= history[j].at
      BY <1>1 DEF StampsInOrder
    <3> QED BY <2>1, <2>3, <3>1, <3>2 DEF Extended
  <2> QED BY <1>1, <2>2, <2>3
<1>5. LastTells'
  <2> SUFFICES ASSUME NEW e \in Recorded', NEW k \in RowsOf(e)', \A j \in RowsOf(e)' : j <= k
               PROVE  history'[k].to = status'[e]
    BY DEF LastTells
  <2>1. CASE Same(e) BY <1>1, <2>1 DEF Same, LastTells
  <2>2. ASSUME NEW n \in Nat, Extended(e, n) PROVE history'[k].to = status'[e]
    <3>1. n <= k /\ \A j \in RowsOf(e) : j < n /\ j \in Nat
      BY <2>2, RowsAreNumbered DEF Extended
    <3>2. k = n BY <2>2, <3>1 DEF Extended
    <3> QED BY <2>2, <3>2 DEF Extended
  <2> QED BY <1>1, <2>1, <2>2
<1>6. ASSUME NEW e \in Recorded', RowsOf(e)' = {}
      PROVE  e \in Recorded /\ RowsOf(e) = {} /\ status'[e] = status[e]
  BY <1>1, <1>6 DEF Same, Extended
<1> QED BY <1>2, <1>3, <1>4, <1>5, <1>6

(* The tick that ends is recorded: the last row tells what it was like.    *)
LEMMA TickDowntime ==
  ASSUME TypeOK, DowntimeInvariant, Tick
  PROVE  DowntimeInvariant'
<1> USE DEF DowntimeInvariant
<1>0. TablesOK /\ StatusGhostsOK BY TypeParts
<1>1. /\ time \in Nat /\ time' = time + 1
      /\ \A e \in Equipment, t \in Time : <<e, t>> \in broken' <=>
           <<e, t>> \in broken \/ (t = time /\ status[e] = "broken")
      /\ UNCHANGED <<status, history, unlogged, late, pc, req>>
  BY <1>0, Constants DEF Tick, tables, ledger, TablesOK, Time
<1>2. \A e : RowsOf(e)' = RowsOf(e) BY <1>1 DEF RowsOf
<1>3. Recorded' = Recorded BY <1>1 DEF Recorded
<1>4. \A e, t : BrokenBy(e, t)' <=> BrokenBy(e, t)
  BY <1>1, <1>2 DEF BrokenBy, StandsAt, BornAs
<1>5. \A e \in Recorded : status[e] = "broken" <=> BrokenBy(e, time)
  <2> TAKE e \in Recorded
  <2>1. \A k \in RowsOf(e) : history[k].at <= time /\ k \in Nat /\ history[k].at \in Nat
    BY <1>0, RowsAreNumbered DEF StampsInOrder
  <2>2. \A k \in RowsOf(e) : StandsAt(e, k, time) <=> \A j \in RowsOf(e) : j <= k
    BY <1>1, <2>1 DEF StandsAt
  <2>3. \A k \in RowsOf(e) : StandsAt(e, k, time) => history[k].to = status[e]
    BY <2>2 DEF LastTells
  <2>4. CASE RowsOf(e) = {} BY <2>4 DEF BrokenBy, BornAs
  <2>5. CASE RowsOf(e) # {}
    <3>1. PICK k \in RowsOf(e) : \A j \in RowsOf(e) : j <= k
      BY <1>0, <2>5, LastOfRows
    <3>2. StandsAt(e, k, time) BY <2>2, <3>1
    <3>3. ~\A j \in RowsOf(e) : history[j].at > time BY <1>1, <2>1, <2>5
    <3> QED BY <2>3, <3>1, <3>2, <3>3 DEF BrokenBy
  <2> QED BY <2>4, <2>5
<1>6. HistoryTellsDowntime'
  <2> SUFFICES ASSUME NEW e \in Recorded, NEW t \in Time, t < time + 1
               PROVE  <<e, t>> \in broken' <=> BrokenBy(e, t)
    BY <1>1, <1>3, <1>4 DEF HistoryTellsDowntime
  <2>1. t \in Nat /\ e \in Equipment BY Constants DEF Time, Recorded
  <2>2. CASE t < time BY <1>1, <2>1, <2>2 DEF HistoryTellsDowntime
  <2>3. CASE t = time
    <3>1. <<e, t>> \notin broken BY <1>1, <2>1, <2>3 DEF BrokenIsPast
    <3> QED BY <1>1, <1>5, <2>1, <2>3, <3>1
  <2> QED BY <1>1, <2>1, <2>2, <2>3
<1>7. BrokenIsPast'
  <2> SUFFICES ASSUME NEW e \in Equipment, NEW t \in Time, <<e, t>> \in broken'
               PROVE  t < time + 1
    BY <1>1 DEF BrokenIsPast
  <2>1. t \in Nat BY Constants DEF Time
  <2> QED BY <1>1, <2>1 DEF BrokenIsPast
<1>8. StampsInOrder'
  <2>1. \A e \in Recorded : \A k \in RowsOf(e) :
          /\ history[k].at <= time + 1
          /\ \A j \in RowsOf(e) : j <= k => history[j].at <= history[k].at
    BY <1>0, <1>1, RowsAreNumbered DEF StampsInOrder
  <2> QED BY <1>1, <1>2, <1>3, <2>1 DEF StampsInOrder
<1>9. LastTells' BY <1>1, <1>2, <1>3 DEF LastTells
<1>10. FirstReading' /\ BreakersSawWorking'
  BY <1>1, <1>2, <1>3 DEF FirstReading, BreakersSawWorking
<1> QED BY <1>6, <1>7, <1>8, <1>9, <1>10

(* What the handlers remember stays true of an equipment that has no row,  *)
(* when one of them goes on with what it has read, or reads it now.        *)
LEMMA ReadingsStand ==
  ASSUME HandlersOK, FirstReading, BreakersSawWorking, NEW w \in Workers, NEW to, NEW request,
         Goto(w, to, request),
         \A e \in Recorded' : RowsOf(e)' = {} =>
           e \in Recorded /\ RowsOf(e) = {} /\ status'[e] = status[e],
         \/ request.op \notin {"report", "status"}
         \/ /\ request.op = req[w].op /\ request.target = req[w].target
            /\ request.seen = req[w].seen
         \/ request.target \in Recorded => request.seen = status[request.target],
         to = "breakEquipment" => request.seen = "working"
  PROVE  FirstReading' /\ BreakersSawWorking'
<1>1. /\ req'[w] = request /\ pc'[w] = to
      /\ \A v \in Workers \ {w} : req'[v] = req[v] /\ pc'[v] = pc[v]
  BY DEF HandlersOK, Goto
<1>2. BreakersSawWorking' BY <1>1 DEF BreakersSawWorking
<1>3. FirstReading'
  <2> SUFFICES ASSUME NEW v \in Workers, req'[v].op \in {"report", "status"},
                      NEW e \in Recorded', req'[v].target = e, RowsOf(e)' = {}
               PROVE  req'[v].seen = status'[e]
    BY DEF FirstReading, RowsOf
  <2>1. e \in Recorded /\ RowsOf(e) = {} /\ status'[e] = status[e]
    OBVIOUS
  <2>2. CASE v # w BY <1>1, <2>1, <2>2 DEF FirstReading
  <2>3. CASE v = w BY <1>1, <2>1, <2>3 DEF FirstReading
  <2> QED BY <2>2, <2>3
<1> QED BY <1>2, <1>3

(* Steps that write no status. *)
LEMMA QuietDowntime ==
  ASSUME TypeOK, DowntimeInvariant, UNCHANGED <<status, history, unlogged, late, time, broken>>
  PROVE  /\ HistoryTellsDowntime' /\ BrokenIsPast' /\ StampsInOrder' /\ LastTells'
         /\ \A e \in Recorded' : RowsOf(e)' = {} =>
              e \in Recorded /\ RowsOf(e) = {} /\ status'[e] = status[e]
<1> USE DEF DowntimeInvariant
<1>1. Recorded' = Recorded BY DEF Recorded
<1>2. \A e : RowsOf(e)' = RowsOf(e) BY DEF RowsOf
<1>3. \A e, t : BrokenBy(e, t)' <=> BrokenBy(e, t) BY <1>2 DEF BrokenBy, StandsAt, BornAs
<1>4. HistoryTellsDowntime' BY <1>1, <1>3 DEF HistoryTellsDowntime
<1>5. BrokenIsPast' /\ StampsInOrder' /\ LastTells'
  BY <1>1, <1>2 DEF BrokenIsPast, StampsInOrder, LastTells
<1> QED BY <1>1, <1>2, <1>4, <1>5

LEMMA SubmitDowntime ==
  ASSUME TypeOK, DowntimeInvariant, NEW w \in Workers, Submit(w)
  PROVE  DowntimeInvariant'
<1> USE DEF DowntimeInvariant
<1>0. HandlersOK BY TypeParts
<1>1. UNCHANGED <<status, history, unlogged, late, time, broken>>
  BY DEF Submit, SubmitReport, SubmitResolve, SubmitStatus, tables, ghosts, ledger
<1>2. /\ HistoryTellsDowntime' /\ BrokenIsPast' /\ StampsInOrder' /\ LastTells'
      /\ \A e \in Recorded' : RowsOf(e)' = {} =>
           e \in Recorded /\ RowsOf(e) = {} /\ status'[e] = status[e]
  BY <1>1, QuietDowntime
<1>3. PICK to, request :
        /\ Goto(w, to, request) /\ to # "breakEquipment"
        /\ \/ request.op \notin {"report", "status"}
           \/ request.target \in Recorded => request.seen = status[request.target]
  <2>1. CASE SubmitReport(w)
    <3> DEFINE request(u, target, serious) ==
          [op |-> "report", user |-> u, target |-> target, serious |-> serious,
           seen |-> IF target \in Equipment THEN status[target] ELSE "working",
           at |-> time, id |-> 0]
    <3>1. PICK u \in Users, target \in Targets, serious \in BOOLEAN :
            Goto(w, "checkOpen", request(u, target, serious))
      BY <2>1 DEF SubmitReport
    <3>2. /\ request(u, target, serious).target = target
          /\ target \in Equipment => request(u, target, serious).seen = status[target]
      OBVIOUS
    <3> HIDE DEF request
    <3> QED BY <3>1, <3>2 DEF Recorded
  <2>2. CASE SubmitResolve(w)
    <3>1. PICK id \in DOMAIN tickets : Goto(w, "resolveTicket", [op |-> "resolve", id |-> id])
      BY <2>2 DEF SubmitResolve
    <3>2. [op |-> "resolve", id |-> id].op \notin {"report", "status"} OBVIOUS
    <3> QED BY <3>1, <3>2
  <2>3. CASE SubmitStatus(w)
    <3> DEFINE request(e, to) ==
          [op |-> "status", target |-> e, to |-> to, seen |-> status[e], at |-> time]
    <3>1. PICK e \in Equipment, to \in Written : Goto(w, "writeStatus", request(e, to))
      BY <2>3 DEF SubmitStatus
    <3>2. request(e, to).target = e /\ request(e, to).seen = status[e] OBVIOUS
    <3> HIDE DEF request
    <3> QED BY <3>1, <3>2
  <2> QED BY <2>1, <2>2, <2>3 DEF Submit
<1>4. FirstReading' /\ BreakersSawWorking' BY <1>0, <1>2, <1>3, ReadingsStand
<1> QED BY <1>2, <1>4

LEMMA ProceedDowntime ==
  ASSUME TypeOK, DowntimeInvariant, NEW w \in Workers,
         CheckOpen(w) \/ CheckRecent(w) \/ InsertTicket(w) \/ NotifyStaff(w)
           \/ ResolveTicket(w) \/ NotifyReporter(w) \/ Die(w)
  PROVE  DowntimeInvariant'
<1> USE DEF DowntimeInvariant
<1>0. HandlersOK BY TypeParts
<1>1. UNCHANGED <<status, history, unlogged, late, time, broken>>
  BY DEF CheckOpen, CheckRecent, InsertTicket, NotifyStaff, ResolveTicket, NotifyReporter, Die,
         tables, ghosts, ledger
<1>2. /\ HistoryTellsDowntime' /\ BrokenIsPast' /\ StampsInOrder' /\ LastTells'
      /\ \A e \in Recorded' : RowsOf(e)' = {} =>
           e \in Recorded /\ RowsOf(e) = {} /\ status'[e] = status[e]
  BY <1>1, QuietDowntime
<1>3. ASSUME Finish(w) PROVE FirstReading' /\ BreakersSawWorking'
  <2>1. NoRequest.op \notin {"report", "status"} BY DEF NoRequest
  <2> QED BY <1>0, <1>2, <1>3, <2>1, ReadingsStand DEF Finish
<1>4. ASSUME NEW to, NEW request, Goto(w, to, request), request.op = req[w].op,
             request.target = req[w].target, request.seen = req[w].seen,
             to = "breakEquipment" => request.seen = "working"
      PROVE  FirstReading' /\ BreakersSawWorking'
  BY <1>0, <1>2, <1>4, ReadingsStand
<1>5. CASE CheckOpen(w)
  <2> DEFINE next == [req[w] EXCEPT !.at = time]
  <2>1. req[w] \in ReportRequest BY <1>0, <1>5 DEF CheckOpen, HandlersOK, Fits
  <2>2. next.op = req[w].op /\ next.target = req[w].target /\ next.seen = req[w].seen
    BY <2>1 DEF ReportRequest
  <2>3. Finish(w) \/ \E to \in {"checkRecent", "insertTicket"} : Goto(w, to, next)
    BY <1>5 DEF CheckOpen
  <2> HIDE DEF next
  <2> QED BY <1>3, <1>4, <1>2, <2>2, <2>3
<1>6. CASE CheckRecent(w)
  <2> DEFINE next == [req[w] EXCEPT !.at = time]
  <2>1. req[w] \in ReportRequest BY <1>0, <1>6 DEF CheckRecent, HandlersOK, Fits
  <2>2. next.op = req[w].op /\ next.target = req[w].target /\ next.seen = req[w].seen
    BY <2>1 DEF ReportRequest
  <2>3. Finish(w) \/ Goto(w, "insertTicket", next)
    BY <1>6 DEF CheckRecent
  <2> HIDE DEF next
  <2> QED BY <1>3, <1>4, <1>2, <2>2, <2>3
<1>7. CASE InsertTicket(w)
  <2> DEFINE next(id) == [req[w] EXCEPT !.id = id]
  <2>1. req[w] \in ReportRequest BY <1>0, <1>7 DEF InsertTicket, HandlersOK, Fits
  <2>2. \A id : /\ next(id).op = req[w].op /\ next(id).target = req[w].target
                /\ next(id).seen = req[w].seen
    BY <2>1 DEF ReportRequest
  <2>3. PICK id \in TicketIds :
          Goto(w, IF Breaks(req[w]) THEN "breakEquipment" ELSE "notifyStaff", next(id))
    BY <1>7 DEF InsertTicket
  <2> HIDE DEF next
  <2>4. CASE Breaks(req[w]) BY <1>2, <1>4, <2>2, <2>3, <2>4 DEF Breaks
  <2>5. CASE ~Breaks(req[w]) BY <1>2, <1>4, <2>2, <2>3, <2>5
  <2> QED BY <2>4, <2>5
<1>8. CASE NotifyStaff(w) \/ NotifyReporter(w) \/ Die(w)
  BY <1>2, <1>3, <1>8 DEF NotifyStaff, NotifyReporter, Die
<1>9. CASE ResolveTicket(w)
  BY <1>2, <1>4, <1>9 DEF ResolveTicket
<1> QED BY <1>5, <1>6, <1>7, <1>8, <1>9

LEMMA WritersDowntime ==
  ASSUME TypeOK, DowntimeInvariant, NEW w \in Workers, BreakEquipment(w) \/ UpdateStatus(w)
  PROVE  DowntimeInvariant'
<1> USE DEF DowntimeInvariant
<1>0. TablesOK /\ HandlersOK BY TypeParts
<1>1. CASE BreakEquipment(w)
  <2>1. /\ WriteStatus(req[w].target, "working", "broken", req[w].at)
        /\ Goto(w, "notifyStaff", req[w]) /\ UNCHANGED <<time, broken>>
    BY <1>1 DEF BreakEquipment
  <2>2. req[w] \in ReportRequest /\ req[w].target \in Equipment
    BY <1>0, <1>1 DEF BreakEquipment, HandlersOK, Fits
  <2>3. /\ req[w].op = "report" /\ req[w].at \in Time
        /\ {"working", "broken"} \subseteq Statuses
    BY <2>2 DEF ReportRequest, Statuses
  <2>4. req[w].target \in Recorded /\ RowsOf(req[w].target) = {} =>
          "working" = status[req[w].target]
    BY <1>1, <2>3 DEF BreakEquipment, FirstReading, BreakersSawWorking
  <2>5. /\ HistoryTellsDowntime' /\ BrokenIsPast' /\ StampsInOrder' /\ LastTells'
        /\ \A e \in Recorded' : RowsOf(e)' = {} =>
             e \in Recorded /\ RowsOf(e) = {} /\ status'[e] = status[e]
    BY <1>0, <2>1, <2>2, <2>3, <2>4, WrittenDowntime
  <2>6. FirstReading' /\ BreakersSawWorking'
    BY <1>0, <2>1, <2>5, ReadingsStand
  <2> QED BY <2>5, <2>6
<1>2. CASE UpdateStatus(w)
  <2>1. /\ WriteStatus(req[w].target, req[w].seen, req[w].to, req[w].at)
        /\ Finish(w) /\ UNCHANGED <<time, broken>>
    BY <1>2 DEF UpdateStatus
  <2>2. req[w] \in StatusRequest
    BY <1>0, <1>2 DEF UpdateStatus, HandlersOK, Fits
  <2>3. /\ req[w].op = "status" /\ req[w].target \in Equipment /\ req[w].at \in Time
        /\ req[w].seen \in Statuses /\ req[w].to \in Statuses
    BY <2>2 DEF StatusRequest
  <2>4. req[w].target \in Recorded /\ RowsOf(req[w].target) = {} =>
          req[w].seen = status[req[w].target]
    BY <2>3 DEF FirstReading
  <2>5. /\ HistoryTellsDowntime' /\ BrokenIsPast' /\ StampsInOrder' /\ LastTells'
        /\ \A e \in Recorded' : RowsOf(e)' = {} =>
             e \in Recorded /\ RowsOf(e) = {} /\ status'[e] = status[e]
    BY <1>0, <2>1, <2>3, <2>4, WrittenDowntime
  <2>6. NoRequest.op \notin {"report", "status"} BY DEF NoRequest
  <2>7. FirstReading' /\ BreakersSawWorking'
    BY <1>0, <2>1, <2>5, <2>6, ReadingsStand DEF Finish
  <2> QED BY <2>5, <2>7
<1> QED BY <1>1, <1>2

LEMMA DowntimeStep ==
  ASSUME TypeOK, DowntimeInvariant, [Next]_vars
  PROVE  DowntimeInvariant'
<1>1. CASE Tick BY <1>1, TickDowntime
<1>2. CASE Acknowledge \/ Dismiss \/ UNCHANGED vars \/ \E w \in Workers : RefuseRequest(w)
  <2>1. UNCHANGED <<status, history, unlogged, late, time, broken, pc, req>>
    BY <1>2 DEF Acknowledge, Dismiss, RefuseRequest, vars, tables, ghosts, ledger
  <2>2. /\ HistoryTellsDowntime' /\ BrokenIsPast' /\ StampsInOrder' /\ LastTells'
        /\ Recorded' = Recorded /\ \A e : RowsOf(e)' = RowsOf(e)
    BY <2>1, QuietDowntime DEF Recorded, RowsOf
  <2>3. FirstReading' /\ BreakersSawWorking'
    BY <2>1, <2>2 DEF DowntimeInvariant, FirstReading, BreakersSawWorking
  <2> QED BY <2>2, <2>3 DEF DowntimeInvariant
<1>3. CASE \E w \in Workers : Submit(w) BY <1>3, SubmitDowntime
<1>4. CASE \E w \in Workers : Proceed(w) \/ Die(w)
  BY <1>4, ProceedDowntime, WritersDowntime DEF Proceed
<1> QED BY Zenon, <1>1, <1>2, <1>3, <1>4 DEF Next

LEMMA DowntimeInit == Init => DowntimeInvariant
<1> SUFFICES ASSUME Init PROVE DowntimeInvariant OBVIOUS
<1>1. /\ history = <<>> /\ time = 0 /\ broken = {}
      /\ \A w \in Workers : pc[w] = "idle" /\ req[w].op = "none"
  BY DEF Init, NoRequest
<1>2. \A e : RowsOf(e) = {} BY <1>1 DEF RowsOf
<1>3. \A t \in Time : ~(t < time) BY <1>1, Constants DEF Time
<1> QED
  BY <1>1, <1>2, <1>3
  DEF DowntimeInvariant, HistoryTellsDowntime, BrokenIsPast, StampsInOrder, LastTells,
      FirstReading, BreakersSawWorking

(* equipment-report.service breaks an equipment and equipment.service sets *)
(* its status, and the maintenance report has only their history rows to   *)
(* compute downtime from.  They are enough: whether an equipment was       *)
(* broken during a past tick is what its last row stamped by then says,    *)
(* or what its first row changed from, however many handlers write, unless *)
(* a change left no row or was stamped earlier than it was written.        *)
THEOREM HistoryIsEnough == Spec => []HistoryTellsDowntime
<1>1. Init => DowntimeInvariant BY DowntimeInit
<1>2. TypeOK /\ DowntimeInvariant /\ [Next]_vars => DowntimeInvariant' BY DowntimeStep
<1>3. DowntimeInvariant => HistoryTellsDowntime BY DEF DowntimeInvariant
<1> QED BY <1>1, <1>2, <1>3, TicketsTypeCorrect, PTL DEF Spec

(* What a report of days that are over reads of the history. *)
RowsUntil(e, t) == {k \in RowsOf(e) : history[k].at <= t}
PastRowsStand ==
  [][\A e \in Equipment \ late' : \A t \in Time : t < time =>
       /\ RowsUntil(e, t)' = RowsUntil(e, t)
       /\ \A k \in RowsUntil(e, t) : history'[k] = history[k]]_vars

LEMMA PastRowsWritten ==
  ASSUME TablesOK, NEW e0 \in Equipment, NEW seen \in Statuses, NEW to \in Statuses,
         NEW at \in Time, WriteStatus(e0, seen, to, at),
         NEW e \in Equipment \ late', NEW t \in Time, t < time
  PROVE  /\ RowsUntil(e, t)' = RowsUntil(e, t)
         /\ \A k \in RowsUntil(e, t) : history'[k] = history[k]
<1> DEFINE row == [equipment |-> e0, from |-> seen, to |-> to, at |-> at]
           n == Len(history) + 1
<1>1. row \in HistoryRow /\ row.equipment = e0 /\ row.at = at BY DEF HistoryRow
<1>2. history' = history \/ history' = Append(history, row)
  BY DEF WriteStatus, HistoryAfter
<1>3. e = e0 => at = time BY DEF WriteStatus, Misread
<1>4. CASE history' = history BY <1>4 DEF RowsUntil, RowsOf
<1>5. CASE history' = Append(history, row)
  <2> HIDE DEF row
  <2>1. n \in Nat /\ DOMAIN history = 1 .. n - 1 BY DEF TablesOK
  <2>2. /\ DOMAIN history' = 1 .. n /\ history'[n] = row
        /\ \A k \in 1 .. n - 1 : history'[k] = history[k]
    BY <1>1, <1>5 DEF TablesOK
  <2> HIDE DEF n
  <2>3. n \notin RowsUntil(e, t)'
    <3>1. t \in Nat /\ time \in Nat BY Constants DEF Time, TablesOK
    <3> QED BY <1>1, <1>3, <2>2, <3>1 DEF RowsUntil, RowsOf
  <2>4. \A k \in 1 .. n - 1 : k \in RowsUntil(e, t)' <=> k \in RowsUntil(e, t)
    <3>1. \A k \in 1 .. n - 1 : k \in DOMAIN history /\ k \in DOMAIN history'
      BY <2>1, <2>2
    <3> QED BY <2>2, <3>1 DEF RowsUntil, RowsOf
  <2>5. RowsUntil(e, t) \subseteq 1 .. n - 1 /\ RowsUntil(e, t)' \subseteq 1 .. n
    BY <2>1, <2>2 DEF RowsUntil, RowsOf
  <2>6. \A k \in 1 .. n : k = n \/ k \in 1 .. n - 1 BY <2>1
  <2> QED BY <2>2, <2>3, <2>4, <2>5, <2>6
<1> QED BY <1>2, <1>4, <1>5

(* Rows are only ever written with a status, by two of the handlers. *)
LEMMA HistoryWrites ==
  ASSUME TypeOK, [Next]_vars
  PROVE  \/ UNCHANGED history
         \/ \E e \in Equipment, seen, to \in Statuses, at \in Time : WriteStatus(e, seen, to, at)
<1> DEFINE Wrote == \E e \in Equipment, seen, to \in Statuses, at \in Time :
                        WriteStatus(e, seen, to, at)
<1>0. TablesOK /\ HandlersOK BY TypeParts
<1>1. ASSUME NEW w \in Workers, BreakEquipment(w) PROVE Wrote
  <2>1. WriteStatus(req[w].target, "working", "broken", req[w].at)
    BY <1>1 DEF BreakEquipment
  <2>2. req[w].target \in Equipment /\ req[w].at \in Time
    BY <1>0, <1>1 DEF BreakEquipment, HandlersOK, Fits, ReportRequest
  <2>3. "working" \in Statuses /\ "broken" \in Statuses BY DEF Statuses
  <2> QED BY <2>1, <2>2, <2>3
<1>2. ASSUME NEW w \in Workers, UpdateStatus(w) PROVE Wrote
  <2>1. WriteStatus(req[w].target, req[w].seen, req[w].to, req[w].at)
    BY <1>2 DEF UpdateStatus
  <2>2. req[w] \in StatusRequest BY <1>0, <1>2 DEF UpdateStatus, HandlersOK, Fits
  <2>3. /\ req[w].target \in Equipment /\ req[w].at \in Time
        /\ req[w].seen \in Statuses /\ req[w].to \in Statuses
    BY <2>2, Constants DEF StatusRequest
  <2> QED BY <2>1, <2>3
<1>3. ASSUME NEW w \in Workers,
             Submit(w) \/ RefuseRequest(w) \/ Die(w) \/ CheckOpen(w) \/ CheckRecent(w)
               \/ InsertTicket(w) \/ NotifyStaff(w) \/ ResolveTicket(w) \/ NotifyReporter(w)
      PROVE  UNCHANGED history
  BY <1>3 DEF Submit, SubmitReport, SubmitResolve, SubmitStatus, RefuseRequest, Die, CheckOpen,
              CheckRecent, InsertTicket, NotifyStaff, ResolveTicket, NotifyReporter, vars,
              tables
<1>4. ASSUME Tick \/ Acknowledge \/ Dismiss \/ UNCHANGED vars PROVE UNCHANGED history
  BY <1>4 DEF Tick, Acknowledge, Dismiss, vars, tables
<1> HIDE DEF Wrote
<1>5. UNCHANGED history \/ Wrote BY Zenon, <1>1, <1>2, <1>3, <1>4 DEF Next, Proceed
<1> QED BY <1>5 DEF Wrote

LEMMA PastRowsStep ==
  ASSUME TypeOK, [Next]_vars, NEW e \in Equipment \ late', NEW t \in Time, t < time
  PROVE  /\ RowsUntil(e, t)' = RowsUntil(e, t)
         /\ \A k \in RowsUntil(e, t) : history'[k] = history[k]
<1>1. CASE UNCHANGED history BY <1>1 DEF RowsUntil, RowsOf
<1>2. CASE \E e0 \in Equipment, seen, to \in Statuses, at \in Time :
             WriteStatus(e0, seen, to, at)
  BY <1>2, TypeParts, PastRowsWritten
<1> QED BY <1>1, <1>2, HistoryWrites

(* historyUntil reads the rows stamped up to the last day of the report.   *)
(* Once that day is over they stay the same rows, in the same order, with  *)
(* the same contents, whatever is written later, unless some row was       *)
(* stamped earlier than it was written: a report of days that are over     *)
(* starts from the same history whenever it is asked for.                  *)
THEOREM PastIsSettled == Spec => PastRowsStand
<1> DEFINE Settled == \A e \in Equipment \ late' : \A t \in Time : t < time =>
                        /\ RowsUntil(e, t)' = RowsUntil(e, t)
                        /\ \A k \in RowsUntil(e, t) : history'[k] = history[k]
<1>1. TypeOK /\ [Next]_vars => [Settled]_vars BY PastRowsStep
<1> QED BY <1>1, TicketsTypeCorrect, PTL DEF Spec, PastRowsStand

(* A row that changes nothing is never written, so that every row of the   *)
(* window is a transition for the report.                                  *)
RowsChange == \A k \in DOMAIN history : history[k].from # history[k].to

LEMMA RowsChangeStep ==
  ASSUME TypeOK, RowsChange, [Next]_vars
  PROVE  RowsChange'
<1>1. CASE UNCHANGED history BY <1>1 DEF RowsChange
<1>2. CASE \E e \in Equipment, seen, to \in Statuses, at \in Time : WriteStatus(e, seen, to, at)
  <2>1. PICK e \in Equipment, seen \in Statuses, to \in Statuses, at \in Time :
          WriteStatus(e, seen, to, at)
    BY <1>2
  <2> DEFINE row == [equipment |-> e, from |-> seen, to |-> to, at |-> at]
             n == Len(history)
  <2>2. row \in HistoryRow /\ row.from = seen /\ row.to = to BY DEF HistoryRow
  <2>3. history' = IF seen = to THEN history ELSE Append(history, row)
    BY <2>1 DEF WriteStatus, HistoryAfter
  <2> HIDE DEF row
  <2>4. history \in Seq(HistoryRow) /\ n \in Nat /\ DOMAIN history = 1 .. n
    BY TypeParts DEF TablesOK
  <2>5. CASE seen = to BY <2>3, <2>5 DEF RowsChange
  <2>6. CASE seen # to
    <3>1. /\ DOMAIN history' = 1 .. n + 1 /\ history'[n + 1] = row
          /\ \A k \in 1 .. n : history'[k] = history[k]
      BY <2>2, <2>3, <2>4, <2>6
    <3>2. \A k \in 1 .. n + 1 : k \in 1 .. n \/ k = n + 1 BY <2>4
    <3> QED BY <2>2, <2>4, <2>6, <3>1, <3>2 DEF RowsChange
  <2> QED BY <2>5, <2>6
<1> QED BY <1>1, <1>2, HistoryWrites

LEMMA RowsChangeHolds == Spec => []RowsChange
<1>1. Init => RowsChange BY DEF Init, RowsChange
<1>2. TypeOK /\ RowsChange /\ [Next]_vars => RowsChange' BY RowsChangeStep
<1> QED BY <1>1, <1>2, TicketsTypeCorrect, PTL DEF Spec

-------------------------------------------------------------------------------
(* What the report makes of the rows: the loop of brokenIntervals, and the *)
(* ticks that its intervals hold.                                          *)

(* The rows as sortHistory orders them: any that there are have a last.    *)
LEMMA LatestIs ==
  ASSUME TablesOK, NEW R \in SUBSET DOMAIN history, R # {}
  PROVE  Latest(R) \in R /\ \A j \in R \ {Latest(R)} : Before(j, Latest(R))
<1> DEFINE HasLast(S) == \E k \in S : \A j \in S \ {k} : Before(j, k)
           C == {S \in SUBSET R : S # {} => HasLast(S)}
<1>0. /\ \A k \in R : k \in Nat /\ history[k].at \in Nat
      /\ IsFiniteSet(R)
  <2>1. DOMAIN history = 1 .. Len(history) /\ Len(history) \in Nat BY DEF TablesOK
  <2>2. IsFiniteSet(DOMAIN history) BY <2>1, FS_Interval
  <2>3. \A k \in DOMAIN history : history[k] \in HistoryRow BY DEF TablesOK
  <2> QED BY <2>1, <2>2, <2>3, FS_Subset, Constants DEF HistoryRow, Time
<1>1. {} \in C OBVIOUS
<1>2. ASSUME NEW T \in SUBSET R, T # {}, \A x \in T : T \ {x} \in C PROVE T \in C
  <2>1. PICK x \in T : TRUE BY <1>2
  <2>2. CASE T \ {x} = {}
    <3>1. HasLast(T) BY <2>1, <2>2
    <3> QED BY <3>1
  <2>3. CASE T \ {x} # {}
    <3>1. PICK k \in T \ {x} : \A j \in (T \ {x}) \ {k} : Before(j, k)
      BY <1>2, <2>1, <2>3
    <3>2. CASE Before(x, k)
      <4>1. \A j \in T \ {k} : Before(j, k) BY <3>1, <3>2
      <4>2. HasLast(T) BY <3>1, <4>1
      <4> QED BY <4>2
    <3>3. CASE ~Before(x, k)
      <4>1. Before(k, x) BY <1>0, <2>1, <3>1, <3>3 DEF Before
      <4>2. \A j \in T \ {x} : Before(j, x)
        BY <1>0, <2>1, <3>1, <4>1 DEF Before
      <4>3. HasLast(T) BY <2>1, <4>2
      <4> QED BY <4>3
    <3> QED BY <3>2, <3>3
  <2> QED BY <2>2, <2>3
<1> HIDE DEF C
<1>3. SUBSET R \subseteq C BY <1>0, <1>1, <1>2, FiniteDescent
<1>4. HasLast(R) BY <1>3 DEF C
<1> QED BY <1>4, Zenon DEF Latest

(* What the loop of brokenIntervals has after the rows s: the one function *)
(* of the parts of R that takes the rows in their order.                   *)
Start == [open |-> NoInterval, closed |-> {}]
After(g, s) == IF s = {} THEN Start ELSE Digest(history[Latest(s)], g[s \ {Latest(s)}])
IsLoop(g, R) == g = [s \in SUBSET R |-> After(g, s)]

LEMMA LoopExists ==
  ASSUME TablesOK, NEW R \in SUBSET DOMAIN history
  PROVE  \E g : IsLoop(g, R)
<1> DEFINE Upto(g, n) == /\ g = [s \in SUBSET R |-> g[s]]
                         /\ \A s \in SUBSET R : Cardinality(s) <= n => g[s] = After(g, s)
           N == {n \in Nat : \E g : Upto(g, n)}
<1>0. IsFiniteSet(R)
  <2>1. DOMAIN history = 1 .. Len(history) /\ Len(history) \in Nat BY DEF TablesOK
  <2>2. IsFiniteSet(DOMAIN history) BY <2>1, FS_Interval
  <2> QED BY <2>2, FS_Subset
<1>1. /\ \A s \in SUBSET R : IsFiniteSet(s) /\ Cardinality(s) \in Nat /\ Cardinality(s) <= Cardinality(R)
      /\ Cardinality(R) \in Nat
  BY <1>0, FS_Subset, FS_CardinalityType
<1>2. 0 \in N
  <2> DEFINE g == [s \in SUBSET R |-> Start]
  <2>1. \A s \in SUBSET R : Cardinality(s) <= 0 => s = {} BY <1>1, FS_EmptySet
  <2>2. \A s \in SUBSET R : g[s] = Start OBVIOUS
  <2>3. g = [s \in SUBSET R |-> g[s]] OBVIOUS
  <2> HIDE DEF g
  <2>4. Upto(g, 0) BY <2>1, <2>2, <2>3 DEF After
  <2> HIDE DEF Upto
  <2> QED BY <2>4
<1>3. ASSUME NEW n \in Nat, n \in N PROVE n + 1 \in N
  <2>1. PICK g : Upto(g, n) BY <1>3
  <2> DEFINE h == [s \in SUBSET R |-> After(g, s)]
  <2>2. \A s \in SUBSET R : h[s] = After(g, s) OBVIOUS
  <2>3. h = [s \in SUBSET R |-> h[s]] OBVIOUS
  <2> HIDE DEF h
  <2>4. ASSUME NEW s \in SUBSET R, Cardinality(s) <= n + 1 PROVE h[s] = After(h, s)
    <3>1. CASE s = {} BY <2>2, <3>1 DEF After
    <3>2. CASE s # {}
      <4> DEFINE r == s \ {Latest(s)}
      <4>1. Latest(s) \in s BY <3>2, LatestIs
      <4>2. r \in SUBSET R /\ Cardinality(r) = Cardinality(s) - 1
        BY <1>1, <4>1, FS_RemoveElement
      <4>3. Cardinality(r) <= n BY <1>1, <2>4, <4>2
      <4>4. g[r] = After(g, r) BY <2>1, <4>2, <4>3
      <4>5. h[r] = g[r] BY <2>2, <4>2, <4>4
      <4>6. After(h, s) = After(g, s) BY <3>2, <4>5 DEF After
      <4> QED BY <2>2, <4>6
    <3> QED BY <3>1, <3>2
  <2>5. Upto(h, n + 1) BY <2>3, <2>4
  <2> HIDE DEF Upto
  <2> QED BY <2>5
<1> HIDE DEF N
<1>4. Nat \subseteq N BY <1>2, <1>3, InductiveSet
<1>5. PICK g : Upto(g, Cardinality(R)) BY <1>1, <1>4 DEF N
<1>6. \A s \in SUBSET R : g[s] = After(g, s) BY <1>1, <1>5
<1>7. g = [s \in SUBSET R |-> g[s]] BY <1>5
<1>8. [s \in SUBSET R |-> g[s]] = [s \in SUBSET R |-> After(g, s)] BY <1>6
<1> QED BY <1>7, <1>8, Zenon DEF IsLoop

LEMMA DigestedIs ==
  ASSUME TablesOK, NEW R \in SUBSET DOMAIN history
  PROVE  \E g : IsLoop(g, R) /\ Digested(R) = g[R]
<1> DEFINE c == CHOOSE g : g = [s \in SUBSET R |->
                   IF s = {} THEN Start ELSE Digest(history[Latest(s)], g[s \ {Latest(s)}])]
<1>1. PICK g : IsLoop(g, R) BY LoopExists
<1>2. IsLoop(c, R) BY <1>1, Zenon DEF IsLoop, After
<1>3. Digested(R) = c[R] BY Zenon DEF Digested, MapThenFoldSet, Start
<1> QED BY <1>2, <1>3

(* Whether the rows R say "broken" of the tick t: the last of them stamped *)
(* by then does.  And what the loop has of that tick.                      *)
Told(R, t) ==
  \E k \in R : /\ history[k].at <= t /\ history[k].to = "broken"
               /\ \A j \in R \ {k} : history[j].at <= t => Before(j, k)
Within(i, t) == i.start <= t /\ t < i.end
Covers(acc, t) == acc.open <= t \/ \E i \in acc.closed : Within(i, t)

(* What the loop keeps: intervals that do not overlap, that end before the *)
(* one still open begins, and that are of the ticks the rows call broken.  *)
Apart(i, j) == i = j \/ i.end <= j.start \/ j.end <= i.start
Formed(acc) ==
  /\ acc = [open |-> acc.open, closed |-> acc.closed]
  /\ acc.open \in Nat /\ IsFiniteSet(acc.closed)
  /\ \A i \in acc.closed : i.start \in Nat /\ i.end \in Nat /\ i.start <= i.end /\ i.end <= acc.open
  /\ \A i, j \in acc.closed : Apart(i, j)
Below(acc, b) == (acc.open # NoInterval => acc.open <= b) /\ \A i \in acc.closed : i.end <= b
LoopKeeps(acc, R) ==
  /\ Formed(acc)
  /\ \A b \in Nat : (\A k \in R : history[k].at <= b) => Below(acc, b)
  /\ \A t \in Time : Covers(acc, t) <=> Told(R, t)

LEMMA ToldAfter ==
  ASSUME TablesOK, NEW R \in SUBSET DOMAIN history, NEW k \in R,
         \A j \in R \ {k} : Before(j, k), NEW t \in Time
  PROVE  /\ t < history[k].at => (Told(R, t) <=> Told(R \ {k}, t))
         /\ history[k].at <= t => (Told(R, t) <=> history[k].to = "broken")
<1>1. \A j \in R : j \in Nat /\ history[j].at \in Nat
  <2>1. \A j \in DOMAIN history : history[j] \in HistoryRow /\ j \in Nat BY DEF TablesOK
  <2> QED BY <2>1, Constants DEF HistoryRow, Time
<1>2. t \in Nat BY Constants DEF Time
<1>3. ASSUME t < history[k].at PROVE Told(R, t) <=> Told(R \ {k}, t)
  <2>1. ~(history[k].at <= t) BY <1>1, <1>2, <1>3
  <2> QED BY <2>1 DEF Told
<1>4. ASSUME history[k].at <= t PROVE Told(R, t) <=> history[k].to = "broken"
  <2>1. ASSUME history[k].to = "broken" PROVE Told(R, t) BY <1>4, <2>1 DEF Told
  <2>2. ASSUME Told(R, t) PROVE history[k].to = "broken"
    <3>1. PICK m \in R : /\ history[m].at <= t /\ history[m].to = "broken"
                         /\ \A j \in R \ {m} : history[j].at <= t => Before(j, m)
      BY <2>2 DEF Told
    <3>2. CASE m = k BY <3>1, <3>2
    <3>3. CASE m # k
      <4>1. Before(k, m) /\ Before(m, k) BY <1>4, <3>1, <3>3
      <4> QED BY <1>1, <4>1 DEF Before
    <3> QED BY <3>2, <3>3
  <2> QED BY <2>1, <2>2
<1> QED BY <1>3, <1>4

LEMMA LoopStep ==
  ASSUME TablesOK, NEW R \in SUBSET DOMAIN history, NEW k \in R,
         \A j \in R \ {k} : Before(j, k), NEW acc, LoopKeeps(acc, R \ {k})
  PROVE  LoopKeeps(Digest(history[k], acc), R)
<1> DEFINE a == history[k].at
           next == Digest(history[k], acc)
<1>1. /\ a \in Nat /\ a \in Time /\ a # NoInterval /\ NoInterval \in Nat
      /\ \A t \in Time : t \in Nat /\ t < NoInterval
  <2>1. history[k] \in HistoryRow BY DEF TablesOK
  <2> QED BY <2>1, Constants DEF HistoryRow, Time, NoInterval
<1>2. \A j \in R \ {k} : history[j].at \in Nat /\ history[j].at <= a
  <2>1. \A j \in DOMAIN history : history[j] \in HistoryRow BY DEF TablesOK
  <2>2. \A j \in R \ {k} : Before(j, k) OBVIOUS
  <2> QED BY <1>1, <2>1, <2>2, Constants DEF HistoryRow, Time, Before
<1>3. /\ Formed(acc) /\ Below(acc, a)
      /\ \A t \in Time : Covers(acc, t) <=> Told(R \ {k}, t)
  BY <1>1, <1>2 DEF LoopKeeps
<1>3a. SUFFICES /\ Formed(next) /\ Below(next, a)
                /\ \A t \in Time : Covers(next, t) <=> Told(R, t)
  <2> SUFFICES ASSUME Formed(next), Below(next, a), NEW b \in Nat,
                      \A j \in R : history[j].at <= b
               PROVE  Below(next, b)
    BY DEF LoopKeeps
  <2>1. a <= b OBVIOUS
  <2> HIDE DEF next, a
  <2> QED BY <1>1, <2>1 DEF Below, Formed
<1>4. \A t \in Time : /\ t < a => (Told(R, t) <=> Covers(acc, t))
                      /\ a <= t => (Told(R, t) <=> history[k].to = "broken")
  BY <1>3, ToldAfter
<1>5. CASE history[k].to = "broken" /\ acc.open # NoInterval
  <2>1. next = acc
    <3>1. next = [acc EXCEPT !.open = acc.open] BY <1>5 DEF Digest, OpenedAt
    <3>2. acc = [open |-> acc.open, closed |-> acc.closed] BY <1>3 DEF Formed
    <3> HIDE DEF next
    <3> QED BY <3>1, <3>2
  <2>2. acc.open <= a BY <1>3, <1>5 DEF Below
  <2>3. \A t \in Time : a <= t => Covers(acc, t)
    <3> HIDE DEF a
    <3> QED BY <1>1, <1>3, <2>2 DEF Covers, Formed
  <2>4. \A t \in Time : Covers(acc, t) <=> Told(R, t)
    <3>1. \A t \in Time : a <= t \/ t < a BY <1>1
    <3> HIDE DEF a
    <3> QED BY <1>4, <1>5, <2>3, <3>1
  <2> HIDE DEF next, a
  <2> QED BY <1>3, <2>1, <2>4
<1>6. CASE history[k].to = "broken" /\ acc.open = NoInterval
  <2>1. next = [open |-> a, closed |-> acc.closed]
    <3>1. next = [acc EXCEPT !.open = a] BY <1>6 DEF Digest, OpenedAt
    <3>2. acc = [open |-> acc.open, closed |-> acc.closed] BY <1>3 DEF Formed
    <3> HIDE DEF next, a
    <3> QED BY <3>1, <3>2
  <2>2. next.open = a /\ next.closed = acc.closed BY <2>1
  <2>3. \A t \in Time : Covers(next, t) <=> Told(R, t)
    <3> HIDE DEF next, a
    <3>1. \A t \in Time : Covers(acc, t) <=> \E i \in acc.closed : Within(i, t)
      BY <1>1, <1>6 DEF Covers
    <3>2. \A t \in Time : a <= t => (Told(R, t) <=> TRUE) BY <1>4, <1>6
    <3>3. \A t \in Time : a <= t \/ t < a BY <1>1
    <3>4. \A t \in Time : ~(a <= t /\ t < a) BY <1>1
    <3> QED BY <1>4, <2>2, <3>1, <3>2, <3>3, <3>4 DEF Covers
  <2> HIDE DEF next, a
  <2>4. Formed(next) BY <1>1, <1>3, <2>1, <2>2 DEF Formed, Below
  <2>5. Below(next, a) BY <1>1, <1>3, <2>2 DEF Below
  <2> QED BY <2>3, <2>4, <2>5
<1>7. CASE history[k].to # "broken" /\ acc.open = NoInterval
  <2>1. next.open = NoInterval /\ next.closed = acc.closed
        /\ next = [open |-> NoInterval, closed |-> acc.closed]
    BY <1>7 DEF Digest
  <2>2. \A t \in Time : Covers(next, t) <=> Told(R, t)
    <3> HIDE DEF next
    <3>1. \A t \in Time : Covers(next, t) <=> \E i \in acc.closed : Within(i, t)
      BY <1>1, <2>1 DEF Covers
    <3>2. \A t \in Time : Covers(acc, t) <=> \E i \in acc.closed : Within(i, t)
      BY <1>1, <1>7 DEF Covers
    <3>3. \A t \in Time : a <= t => \A i \in acc.closed : ~Within(i, t)
      BY <1>1, <1>3 DEF Within, Formed, Below
    <3>4. \A t \in Time : a <= t \/ t < a BY <1>1
    <3> HIDE DEF a
    <3> QED BY <1>4, <1>7, <3>1, <3>2, <3>3, <3>4
  <2> HIDE DEF next, a
  <2>3. Formed(next) BY <1>1, <1>3, <1>7, <2>1 DEF Formed
  <2>4. Below(next, a) BY <1>3, <2>1 DEF Below
  <2> QED BY <2>2, <2>3, <2>4
<1>8. CASE history[k].to # "broken" /\ acc.open # NoInterval
  <2> DEFINE new == [start |-> acc.open, end |-> a]
  <2>1. next = [open |-> NoInterval, closed |-> acc.closed \union {new}]
        /\ next.open = NoInterval /\ next.closed = acc.closed \union {new}
    BY <1>8 DEF Digest
  <2>2. new.start = acc.open /\ new.end = a OBVIOUS
  <2>3. IsFiniteSet(acc.closed \union {new})
    <3> HIDE DEF new
    <3> QED BY <1>3, FS_AddElement DEF Formed
  <2> HIDE DEF next, new, a
  <2>4. /\ acc.open \in Nat /\ acc.open <= a /\ a <= NoInterval
        /\ \A i \in acc.closed : /\ i.start \in Nat /\ i.end \in Nat /\ i.start <= i.end
                                 /\ i.end <= acc.open /\ i.end <= a
    BY <1>1, <1>3, <1>8 DEF Formed, Below
  <2>5. \A i \in next.closed :
          i.start \in Nat /\ i.end \in Nat /\ i.start <= i.end /\ i.end <= NoInterval /\ i.end <= a
    BY <1>1, <2>1, <2>2, <2>4
  <2>6. \A i, j \in next.closed : Apart(i, j)
    <3>1. \A i \in acc.closed : Apart(i, new) /\ Apart(new, i) BY <2>2, <2>4 DEF Apart
    <3>2. Apart(new, new) BY DEF Apart
    <3> QED BY <1>3, <2>1, <3>1, <3>2 DEF Formed
  <2>7. \A t \in Time : Covers(next, t) <=> Told(R, t)
    <3>1. \A t \in Time : ~(next.open <= t) BY <1>1, <2>1
    <3>2. \A t \in Time : Covers(next, t) <=> Within(new, t) \/ \E i \in acc.closed : Within(i, t)
      BY <2>1, <3>1 DEF Covers
    <3>3. \A t \in Time : Within(new, t) <=> acc.open <= t /\ t < a BY <2>2 DEF Within
    <3>4. ASSUME NEW t \in Time, a <= t, NEW i \in acc.closed PROVE ~Within(i, t)
      <4>1. t \in Nat /\ a \in Nat /\ i.end \in Nat /\ i.end <= a BY <1>1, <2>4
      <4> QED BY <3>4, <4>1 DEF Within
    <3>5. \A t \in Time : (a <= t \/ t < a) /\ ~(a <= t /\ t < a) BY <1>1
    <3>6. \A t \in Time : Covers(acc, t) <=> acc.open <= t \/ \E i \in acc.closed : Within(i, t)
      BY DEF Covers
    <3>7. \A t \in Time : a <= t => ~Told(R, t) BY <1>4, <1>8
    <3>8. \A t \in Time : t < a => (Told(R, t) <=> Covers(acc, t)) BY <1>4
    <3> QED BY Zenon, <3>2, <3>3, <3>4, <3>5, <3>6, <3>7, <3>8
  <2>8. Formed(next) BY <1>1, <2>1, <2>3, <2>5, <2>6 DEF Formed
  <2>9. Below(next, a) BY <2>1, <2>5 DEF Below
  <2> QED BY <2>7, <2>8, <2>9
<1> QED BY <1>5, <1>6, <1>7, <1>8

LEMMA DigestedKeeps ==
  ASSUME TablesOK, NEW R \in SUBSET DOMAIN history
  PROVE  LoopKeeps(Digested(R), R)
<1>1. PICK g : IsLoop(g, R) /\ Digested(R) = g[R] BY DigestedIs
<1> DEFINE C == {s \in SUBSET R : LoopKeeps(g[s], s)}
<1>2. \A s \in SUBSET R : g[s] = After(g, s)
  <2>1. g = [s \in SUBSET R |-> After(g, s)] BY <1>1 DEF IsLoop
  <2>2. PICK h : h = [s \in SUBSET R |-> After(g, s)] OBVIOUS
  <2>3. \A s \in SUBSET R : h[s] = After(g, s) BY <2>2
  <2> QED BY <2>1, <2>2, <2>3
<1>3. {} \in C
  <2>1. g[{}] = Start BY <1>2 DEF After
  <2>2. LoopKeeps(Start, {})
    <3>1. /\ Start = [open |-> Start.open, closed |-> Start.closed]
          /\ Start.open = NoInterval /\ Start.closed = {}
      BY DEF Start
    <3>2. NoInterval \in Nat /\ \A t \in Time : ~(NoInterval <= t)
      BY Constants DEF NoInterval, Time
    <3>3. \A t \in Time : ~Covers(Start, t) /\ ~Told({}, t) BY <3>1, <3>2 DEF Covers, Told
    <3> QED BY <3>1, <3>2, <3>3, FS_EmptySet DEF LoopKeeps, Formed, Below
  <2> QED BY <2>1, <2>2
<1>4. ASSUME NEW T \in SUBSET R, T # {}, \A x \in T : T \ {x} \in C PROVE T \in C
  <2>1. Latest(T) \in T /\ \A j \in T \ {Latest(T)} : Before(j, Latest(T)) BY <1>4, LatestIs
  <2>2. PICK k \in T : k = Latest(T) BY <2>1
  <2>3. \A j \in T \ {k} : Before(j, k) BY <2>1, <2>2
  <2>4. LoopKeeps(g[T \ {k}], T \ {k}) BY <1>4
  <2>5. g[T] = Digest(history[k], g[T \ {k}]) BY <1>2, <1>4, <2>2 DEF After
  <2>6. T \in SUBSET DOMAIN history OBVIOUS
  <2>7. LoopKeeps(g[T], T) BY <2>3, <2>4, <2>5, <2>6, LoopStep
  <2> QED BY <2>7
<1> HIDE DEF C
<1>5. IsFiniteSet(R)
  <2>1. DOMAIN history = 1 .. Len(history) /\ Len(history) \in Nat BY DEF TablesOK
  <2>2. IsFiniteSet(DOMAIN history) BY <2>1, FS_Interval
  <2> QED BY <2>2, FS_Subset
<1>6. SUBSET R \subseteq C BY <1>3, <1>4, <1>5, FiniteDescent
<1>7. R \in C BY <1>6
<1> QED BY <1>1, <1>7 DEF C

LEMMA IntervalsAre ==
  ASSUME TablesOK, NEW R \in SUBSET DOMAIN history
  PROVE  /\ IsFiniteSet(BrokenIntervals(R))
         /\ \A i \in BrokenIntervals(R) : i.start \in Nat /\ i.end \in Nat
         /\ \A i, j \in BrokenIntervals(R) : Apart(i, j)
         /\ \A t \in Time : t < time =>
              ((\E i \in BrokenIntervals(R) : Within(i, t)) <=> Told(R, t))
<1> DEFINE acc == Digested(R)
           last == [start |-> acc.open, end |-> time]
           I == acc.closed \union {i \in {last} : acc.open < time}
<1>1. LoopKeeps(acc, R) BY DigestedKeeps
<1>2. BrokenIntervals(R) = I BY DEF BrokenIntervals
<1>3. time \in Nat /\ \A t \in Time : t \in Nat BY Constants DEF TablesOK, Time
<1>4. last.start = acc.open /\ last.end = time OBVIOUS
<1> HIDE DEF last, acc
<1>5. IsFiniteSet(I)
  <2> DEFINE L == {i \in {last} : acc.open < time}
  <2>1. IsFiniteSet({last}) BY FS_Singleton
  <2>2. L \in SUBSET {last} OBVIOUS
  <2> HIDE DEF L
  <2>3. IsFiniteSet(L) BY <2>1, <2>2, FS_Subset
  <2>4. IsFiniteSet(acc.closed \union L) BY <1>1, <2>3, FS_Union DEF LoopKeeps, Formed
  <2> QED BY <2>4 DEF L
<1>6. \A i \in acc.closed : i.start \in Nat /\ i.end \in Nat /\ i.end <= acc.open
  BY <1>1 DEF LoopKeeps, Formed
<1>7. acc.open \in Nat /\ \A i, j \in acc.closed : Apart(i, j)
  BY <1>1 DEF LoopKeeps, Formed
<1>8. \A i \in I : i.start \in Nat /\ i.end \in Nat BY <1>3, <1>4, <1>6, <1>7
<1>9. \A i, j \in I : Apart(i, j)
  <2>1. \A i \in acc.closed : Apart(i, last) /\ Apart(last, i) BY <1>4, <1>6 DEF Apart
  <2>2. Apart(last, last) BY DEF Apart
  <2> QED BY <1>7, <2>1, <2>2
<1>10. ASSUME NEW t \in Time, t < time PROVE (\E i \in I : Within(i, t)) <=> Told(R, t)
  <2>1. acc.open < time /\ Within(last, t) <=> acc.open <= t
    BY <1>3, <1>4, <1>7, <1>10 DEF Within
  <2>2. (\E i \in I : Within(i, t))
          <=> (\E i \in acc.closed : Within(i, t)) \/ (acc.open < time /\ Within(last, t))
    OBVIOUS
  <2>3. Covers(acc, t) <=> Told(R, t) BY <1>1 DEF LoopKeeps
  <2> QED BY <2>1, <2>2, <2>3 DEF Covers
<1> HIDE DEF I
<1> QED BY <1>2, <1>5, <1>8, <1>9, <1>10

(* overlapMs adds up the ticks that some interval holds. *)
LEMMA OverlapCounts ==
  ASSUME NEW I, IsFiniteSet(I), \A i \in I : i.start \in Nat /\ i.end \in Nat,
         \A i, j \in I : Apart(i, j), NEW from \in Nat, NEW to \in Nat
  PROVE  Overlap(I, from, to) = Cardinality({t \in from .. to - 1 : \E i \in I : Within(i, t)})
<1> DEFINE S == {t \in from .. to - 1 : \E i \in I : Within(i, t)}
           Of(t) == CHOOSE i \in I : Within(i, t)
           p == [t \in S |-> Of(t)]
           g == [i \in I |-> Cardinality(Inside(i, from, to))]
<1>1. IsFiniteSet(S)
  <2>1. from \in Int /\ to - 1 \in Int OBVIOUS
  <2>2. IsFiniteSet(from .. to - 1) BY <2>1, FS_Interval
  <2> QED BY <2>2, FS_Subset
<1>2. \A t \in S : t \in Nat /\ from <= t /\ t < to OBVIOUS
<1>3. \A t \in S : p[t] \in I /\ Within(p[t], t)
  <2> TAKE t \in S
  <2>1. \E i \in I : Within(i, t) OBVIOUS
  <2>2. Of(t) \in I /\ Within(Of(t), t) BY <2>1, Zenon
  <2>3. p[t] = Of(t) OBVIOUS
  <2> HIDE DEF p, Of
  <2> QED BY <2>2, <2>3
<1>4. ASSUME NEW i \in I PROVE Inside(i, from, to) = Fiber(S, p, i)
  <2>1. ASSUME NEW t \in Inside(i, from, to) PROVE t \in Fiber(S, p, i)
    <3>1. t \in Nat /\ Within(i, t) /\ t \in from .. to - 1 BY DEF Inside, Within
    <3>2. t \in S BY <3>1
    <3>3. Apart(i, p[t]) /\ p[t] \in I /\ Within(p[t], t) BY <1>3, <3>2
    <3> HIDE DEF p, S
    <3>4. p[t] = i BY <3>1, <3>3 DEF Apart, Within
    <3> QED BY <3>2, <3>4 DEF Fiber
  <2>2. ASSUME NEW t \in Fiber(S, p, i) PROVE t \in Inside(i, from, to)
    <3>1. t \in S /\ p[t] = i BY DEF Fiber
    <3>2. t \in Nat /\ from <= t /\ t < to /\ Within(i, t) BY <1>2, <1>3, <3>1
    <3> HIDE DEF p, S
    <3> QED BY <3>2 DEF Inside, Within
  <2> QED BY <2>1, <2>2
<1>5. \A i \in I : g[i] = Cardinality(Fiber(S, p, i)) /\ DOMAIN g = I
  <2> HIDE DEF S, p
  <2> QED BY <1>4
<1>6. DOMAIN g = I OBVIOUS
<1>7. Overlap(I, from, to) = SumFunctionOnSet(g, I) BY <1>6 DEF Overlap, SumFunction
<1> HIDE DEF S, p, g
<1>8. \A t \in S : p[t] \in I BY <1>3
<1>9. SumFunctionOnSet(g, I) = Cardinality(S) BY <1>1, <1>5, <1>8, CountFibers
<1> QED BY <1>7, <1>9 DEF S

LEMMA OverlapTold ==
  ASSUME TablesOK, NEW R \in SUBSET DOMAIN history, NEW from \in Nat, NEW to \in Nat, to <= time
  PROVE  Overlap(BrokenIntervals(R), from, to) = Cardinality({t \in from .. to - 1 : Told(R, t)})
<1> DEFINE I == BrokenIntervals(R)
<1>1. Overlap(I, from, to) = Cardinality({t \in from .. to - 1 : \E i \in I : Within(i, t)})
  <2>1. /\ IsFiniteSet(I) /\ \A i \in I : i.start \in Nat /\ i.end \in Nat
        /\ \A i, j \in I : Apart(i, j)
    BY IntervalsAre
  <2> HIDE DEF I
  <2> QED BY <2>1, OverlapCounts
<1>2. ASSUME NEW t \in from .. to - 1
      PROVE  (\E i \in I : Within(i, t)) <=> Told(R, t)
  <2>1. t \in Time /\ t < time BY Constants DEF TablesOK, Time
  <2> QED BY <2>1, IntervalsAre
<1>3. {t \in from .. to - 1 : \E i \in I : Within(i, t)} = {t \in from .. to - 1 : Told(R, t)}
  <2> HIDE DEF I
  <2> QED BY <1>2
<1> QED BY <1>1, <1>3

(* The rows of an equipment that was not broken when it was registered say *)
(* "broken" of the ticks during which it was.                              *)
LEMMA BornIs ==
  ASSUME TablesOK, NEW e \in Equipment
  PROVE  BornBroken(e) <=> BornAs(e, "broken")
<1>1. CASE RowsOf(e) = {} BY <1>1 DEF BornBroken, BornAs
<1>2. CASE RowsOf(e) # {}
  <2>1. RowsOf(e) \in SUBSET Nat BY RowsAreNumbered
  <2>2. PICK k \in RowsOf(e) : \A j \in RowsOf(e) : k <= j BY <1>2, <2>1, LeastOf
  <2>3. Min(RowsOf(e)) \in RowsOf(e) /\ \A j \in RowsOf(e) : Min(RowsOf(e)) <= j
    BY <2>2 DEF Min
  <2>4. ASSUME NEW m \in RowsOf(e), \A j \in RowsOf(e) : m <= j PROVE m = k
    <3>1. m <= k /\ k <= m /\ m \in Nat /\ k \in Nat BY <2>1, <2>2, <2>4
    <3> QED BY <3>1
  <2>5. Min(RowsOf(e)) = k BY <2>3, <2>4
  <2>6. BornAs(e, "broken") <=> history[k].from = "broken" BY <1>2, <2>2, <2>4 DEF BornAs
  <2> QED BY <1>2, <2>5, <2>6 DEF BornBroken
<1> QED BY <1>1, <1>2

LEMMA ToldBroken ==
  ASSUME TablesOK, DowntimeInvariant, NEW e \in Recorded, ~BornBroken(e),
         NEW t \in Time, t < time
  PROVE  Told(RowsOf(e), t) <=> <<e, t>> \in broken
<1>1. e \in Equipment BY DEF Recorded
<1>2. <<e, t>> \in broken <=> BrokenBy(e, t) BY DEF DowntimeInvariant, HistoryTellsDowntime
<1>3. BrokenBy(e, t) <=> \E k \in RowsOf(e) : StandsAt(e, k, t) /\ history[k].to = "broken"
  BY <1>1, BornIs DEF BrokenBy
<1>4. \A j, k \in RowsOf(e) : j <= k => history[j].at <= history[k].at
  BY DEF DowntimeInvariant, StampsInOrder
<1>5. \A k \in RowsOf(e) : k \in Nat /\ history[k].at \in Nat BY RowsAreNumbered
<1>6. t \in Nat BY Constants DEF Time
<1>7. ASSUME NEW k \in RowsOf(e), history[k].at <= t
      PROVE  StandsAt(e, k, t) <=>
               \A j \in RowsOf(e) \ {k} : history[j].at <= t => Before(j, k)
  <2>1. ASSUME StandsAt(e, k, t), NEW j \in RowsOf(e) \ {k}, history[j].at <= t
        PROVE  Before(j, k)
    <3>1. ~(j > k) BY <1>5, <1>6, <2>1 DEF StandsAt
    <3>2. j < k /\ history[j].at <= history[k].at BY <1>4, <1>5, <3>1
    <3> QED BY <1>5, <3>2 DEF Before
  <2>2. ASSUME \A j \in RowsOf(e) \ {k} : history[j].at <= t => Before(j, k)
        PROVE  StandsAt(e, k, t)
    <3>1. ASSUME NEW j \in RowsOf(e), j > k PROVE history[j].at > t
      <4>1. history[k].at <= history[j].at /\ j # k BY <1>4, <1>5, <3>1
      <4>2. ~Before(j, k) BY <1>5, <3>1, <4>1 DEF Before
      <4> QED BY <1>5, <1>6, <2>2, <4>1, <4>2
    <3> QED BY <1>7, <3>1 DEF StandsAt
  <2> QED BY <2>1, <2>2
<1> QED BY <1>2, <1>3, <1>7 DEF Told, StandsAt

LEMMA DowntimeFollows == TypeOK /\ DowntimeInvariant => DowntimeExact
<1> SUFFICES ASSUME TypeOK, DowntimeInvariant, NEW e \in Equipment \ (unlogged \union late),
                    ~BornBroken(e), NEW from \in 0 .. time, NEW to \in 0 .. time
             PROVE  Overlap(BrokenIntervals(RowsOf(e)), from, to)
                      = Cardinality({t \in Time : from <= t /\ t < to /\ <<e, t>> \in broken})
  BY DEF DowntimeExact
<1>1. TablesOK /\ e \in Recorded BY TypeParts DEF Recorded
<1>2. time \in Time /\ time \in Nat /\ MaxTime \in Nat BY <1>1, Constants DEF TablesOK, Time
<1>3. from \in Nat /\ to \in Nat /\ to <= time BY <1>2
<1>4. RowsOf(e) \in SUBSET DOMAIN history BY DEF RowsOf
<1>5. Overlap(BrokenIntervals(RowsOf(e)), from, to)
        = Cardinality({t \in from .. to - 1 : Told(RowsOf(e), t)})
  BY <1>1, <1>3, <1>4, OverlapTold
<1>6. ASSUME NEW t \in from .. to - 1 PROVE t \in Time /\ t < time
  BY <1>2, <1>3 DEF Time
<1>7. \A t \in Time : from <= t /\ t < to <=> t \in from .. to - 1
  BY <1>2, <1>3 DEF Time
<1>8. \A t \in from .. to - 1 : Told(RowsOf(e), t) <=> <<e, t>> \in broken
  BY <1>1, <1>6, ToldBroken
<1>9. {t \in from .. to - 1 : Told(RowsOf(e), t)}
        = {t \in Time : from <= t /\ t < to /\ <<e, t>> \in broken}
  BY <1>6, <1>7, <1>8
<1> QED BY <1>5, <1>9

-------------------------------------------------------------------------------
(* Whole quotients, and the days that ticks belong to.                     *)
LEMMA Lengths ==
  /\ DayTicks \in Nat /\ DayTicks > 0 /\ RowParts \in Nat /\ RowParts > 0
  /\ SeriesParts \in Nat /\ SeriesParts > 0
<1>1. /\ DayTicks \in Nat \ {0} /\ RowParts \in Nat \ {0} /\ SeriesParts \in Nat \ {0}
  BY Zenon, MaintenanceAssumption
<1> QED BY <1>1

LEMMA QuotientIs ==
  ASSUME NEW a \in Nat, NEW b \in Nat, b > 0
  PROVE  a \div b \in Nat /\ b * (a \div b) <= a /\ a < b * (a \div b) + b
<1> DEFINE q == a \div b
           r == a % b
<1>1. q \in Nat /\ r \in Nat /\ r < b /\ a = b * q + r OBVIOUS
<1> HIDE DEF q, r
<1>2. b * q \in Nat BY <1>1
<1> QED BY <1>1, <1>2 DEF q

LEMMA TimesMonotone ==
  ASSUME NEW a \in Nat, NEW b \in Nat, a <= b, NEW c \in Nat
  PROVE  c * a \in Nat /\ c * b \in Nat /\ c * a <= c * b
<1>1. PICK k \in Nat : b = a + k
  <2>1. b - a \in Nat /\ b = a + (b - a) OBVIOUS
  <2> QED BY <2>1
<1>2. c * b = c * a + c * k /\ c * k \in Nat /\ c * a \in Nat BY <1>1
<1> QED BY <1>2

LEMMA StartIs ==
  ASSUME NEW d \in Nat
  PROVE  /\ StartOf(d) \in Nat /\ StartOf(d + 1) \in Nat /\ StartOf(d + 1) = StartOf(d) + DayTicks
         /\ \A c \in Nat : c <= d => StartOf(c) <= StartOf(d)
<1>1. \A x \in Nat : StartOf(x) = DayTicks * x /\ StartOf(x) \in Nat BY Lengths DEF StartOf
<1>2. StartOf(d + 1) = StartOf(d) + DayTicks BY Lengths DEF StartOf
<1>3. ASSUME NEW c \in Nat, c <= d PROVE StartOf(c) <= StartOf(d)
  <2>1. DayTicks * c <= DayTicks * d BY <1>3, Lengths, TimesMonotone
  <2> QED BY <1>1, <2>1
<1> QED BY <1>1, <1>2, <1>3

LEMMA DayIs ==
  ASSUME NEW t \in Nat
  PROVE  /\ DayOf(t) \in Nat
         /\ \A d \in Nat : DayOf(t) = d <=> StartOf(d) <= t /\ t < StartOf(d + 1)
<1> DEFINE q == DayOf(t)
<1>1. q \in Nat /\ DayTicks * q <= t /\ t < DayTicks * q + DayTicks
  BY Lengths, QuotientIs DEF DayOf
<1> HIDE DEF q
<1>2. StartOf(q) <= t /\ t < StartOf(q + 1) BY <1>1, StartIs, Lengths DEF StartOf
<1>3. ASSUME NEW d \in Nat, StartOf(d) <= t, t < StartOf(d + 1) PROVE q = d
  <2>1. q + 1 <= d => StartOf(q + 1) <= StartOf(d) BY <1>1, StartIs
  <2>2. d + 1 <= q => StartOf(d + 1) <= StartOf(q) BY <1>1, StartIs
  <2>3. /\ StartOf(q) \in Nat /\ StartOf(q + 1) \in Nat
        /\ StartOf(d) \in Nat /\ StartOf(d + 1) \in Nat
    BY <1>1, StartIs
  <2>4. ~(q + 1 <= d) /\ ~(d + 1 <= q) BY <1>2, <1>3, <2>1, <2>2, <2>3
  <2> QED BY <1>1, <2>4
<1> QED BY <1>1, <1>2, <1>3 DEF q

(* A figure told in parts of a day is off by at most half a part.          *)
Off(ticks, parts, told) ==
  /\ 2 * parts * ticks <= 2 * DayTicks * told + DayTicks
  /\ 2 * DayTicks * told <= 2 * parts * ticks + DayTicks

LEMMA RoundedIs ==
  ASSUME NEW x \in Nat, NEW p \in Nat
  PROVE  Rounded(x, p) \in Nat /\ Off(x, p, Rounded(x, p))
<1> DEFINE a == 2 * p * x
           b == 2 * DayTicks
           q == Rounded(x, p)
<1>1. a \in Nat /\ b \in Nat /\ b > 0 /\ DayTicks \in Nat BY Lengths
<1>2. q = (a + DayTicks) \div b BY DEF Rounded
<1>3. 2 * DayTicks * q = b * q OBVIOUS
<1>4. b = DayTicks + DayTicks BY <1>1
<1> HIDE DEF a, b, q
<1>5. q \in Nat /\ b * q <= a + DayTicks /\ a + DayTicks < b * q + b
  BY <1>1, <1>2, QuotientIs
<1>6. b * q \in Nat BY <1>1, <1>5
<1>7. b * q <= a + DayTicks /\ a <= b * q + DayTicks BY <1>1, <1>4, <1>5, <1>6
<1> QED BY <1>3, <1>5, <1>7 DEF Off, a, q

(* A whole day never rounds to nothing. *)
LEMMA DayIsTold ==
  ASSUME NEW x \in Nat, DayTicks <= x, NEW p \in Nat, p > 0
  PROVE  Rounded(x, p) > 0
<1>1. Rounded(x, p) \in Nat /\ 2 * p * x <= 2 * DayTicks * Rounded(x, p) + DayTicks
  BY RoundedIs DEF Off
<1> SUFFICES ASSUME Rounded(x, p) = 0 PROVE FALSE BY <1>1
<1>2. 2 * p * x <= DayTicks BY <1>1, Lengths
<1>3. x * 1 <= x * p BY TimesMonotone
<1>4. p * x = x * p /\ x * p \in Nat /\ x * 1 = x /\ 2 * p * x = 2 * (x * p) OBVIOUS
<1> QED BY <1>2, <1>3, <1>4, Lengths

(* So is a sum of such figures, by half a part for each.                   *)
LEMMA RoundedSums ==
  ASSUME NEW p \in Nat, NEW f, NEW g, NEW S, Adds(f, S), \A x \in S : g[x] = Rounded(f[x], p)
  PROVE  /\ Adds(g, S)
         /\ LET F == SumFunctionOnSet(f, S)
                G == SumFunctionOnSet(g, S)
            IN  /\ 2 * p * F <= 2 * DayTicks * G + DayTicks * Cardinality(S)
                /\ 2 * DayTicks * G <= 2 * p * F + DayTicks * Cardinality(S)
<1> DEFINE F(T) == SumFunctionOnSet(f, T)
           G(T) == SumFunctionOnSet(g, T)
           n(T) == Cardinality(T)
           C == {T \in SUBSET S : /\ 2 * p * F(T) <= 2 * DayTicks * G(T) + DayTicks * n(T)
                                  /\ 2 * DayTicks * G(T) <= 2 * p * F(T) + DayTicks * n(T)}
<1>0. IsFiniteSet(S) /\ \A x \in S : f[x] \in Nat BY DEF Adds
<1>1. Adds(g, S) BY <1>0, RoundedIs DEF Adds
<1>2. {} \in C
  <2>1. F({}) = 0 /\ G({}) = 0 /\ n({}) = 0 BY SumEmpty, FS_EmptySet
  <2> HIDE DEF F, G, n
  <2> QED BY <2>1, Lengths
<1>3. ASSUME NEW T \in SUBSET S, T # {}, \A x \in T : T \ {x} \in C PROVE T \in C
  <2>1. PICK x \in T : TRUE BY <1>3
  <2> DEFINE R == T \ {x}
  <2>2. F(T) = f[x] + F(R) /\ G(T) = g[x] + G(R) BY <1>1, AddsPart, SumTakesOut
  <2>3. IsFiniteSet(T) /\ n(T) \in Nat BY <1>0, FS_Subset, FS_CardinalityType
  <2>4. n(R) = n(T) - 1 BY <2>3, FS_RemoveElement
  <2>5. F(R) \in Nat /\ G(R) \in Nat BY <1>1, AddsPart, SumType
  <2>6. f[x] \in Nat /\ g[x] \in Nat /\ Off(f[x], p, g[x]) BY <1>0, RoundedIs
  <2>7. n(R) \in Nat
    <3>1. IsFiniteSet(R) BY <2>3, FS_Subset
    <3> QED BY <3>1, FS_CardinalityType
  <2>8. /\ 2 * p * F(R) <= 2 * DayTicks * G(R) + DayTicks * n(R)
        /\ 2 * DayTicks * G(R) <= 2 * p * F(R) + DayTicks * n(R)
    BY <1>3, <2>1
  <2> HIDE DEF F, G, n, R, C
  <2>9. /\ 2 * p * F(T) = 2 * p * f[x] + 2 * p * F(R)
        /\ 2 * DayTicks * G(T) = 2 * DayTicks * g[x] + 2 * DayTicks * G(R)
        /\ DayTicks * n(T) = DayTicks + DayTicks * n(R)
    BY <2>2, <2>3, <2>4, <2>5, <2>6, <2>7, Lengths
  <2>10. /\ 2 * p * f[x] \in Nat /\ 2 * p * F(R) \in Nat /\ DayTicks * n(R) \in Nat
         /\ 2 * DayTicks * g[x] \in Nat /\ 2 * DayTicks * G(R) \in Nat
    BY <2>5, <2>6, <2>7, Lengths
  <2>11. /\ 2 * p * F(T) <= 2 * DayTicks * G(T) + DayTicks * n(T)
         /\ 2 * DayTicks * G(T) <= 2 * p * F(T) + DayTicks * n(T)
    BY <2>6, <2>8, <2>9, <2>10, Lengths DEF Off
  <2> QED BY <2>11 DEF C
<1> HIDE DEF C
<1>4. SUBSET S \subseteq C BY <1>0, <1>2, <1>3, FiniteDescent
<1> QED BY <1>1, <1>4 DEF C

(* The same downtime t told by n rows in one part of a day, and by m days  *)
(* in another: the two are apart by no more than both are off.             *)
LEMMA ToldTwice ==
  ASSUME NEW t \in Nat, NEW r \in Nat, NEW s \in Nat, NEW n \in Nat, NEW m \in Nat,
         2 * RowParts * t <= 2 * DayTicks * r + DayTicks * n,
         2 * DayTicks * r <= 2 * RowParts * t + DayTicks * n,
         2 * SeriesParts * t <= 2 * DayTicks * s + DayTicks * m,
         2 * DayTicks * s <= 2 * SeriesParts * t + DayTicks * m
  PROVE  /\ 2 * SeriesParts * r <= 2 * RowParts * s + (RowParts * m + SeriesParts * n)
         /\ 2 * RowParts * s <= 2 * SeriesParts * r + (RowParts * m + SeriesParts * n)
<1> DEFINE D == DayTicks
           P == RowParts
           Q == SeriesParts
           x == 2 * Q * r
           y == 2 * P * s
           z == P * m + Q * n
<1>1. D \in Nat /\ D > 0 /\ P \in Nat /\ Q \in Nat BY Lengths
<1> HIDE DEF D, P, Q
<1>2. /\ 2 * P * t <= 2 * D * r + D * n /\ 2 * D * r <= 2 * P * t + D * n
      /\ 2 * Q * t <= 2 * D * s + D * m /\ 2 * D * s <= 2 * Q * t + D * m
  BY DEF D, P, Q
<1>3. /\ 2 * P * t \in Nat /\ 2 * D * r + D * n \in Nat /\ 2 * D * r \in Nat
      /\ 2 * P * t + D * n \in Nat /\ 2 * Q * t \in Nat /\ 2 * D * s + D * m \in Nat
      /\ 2 * D * s \in Nat /\ 2 * Q * t + D * m \in Nat
  BY <1>1
<1>4. /\ Q * (2 * P * t) <= Q * (2 * D * r + D * n) /\ Q * (2 * D * r) <= Q * (2 * P * t + D * n)
      /\ P * (2 * Q * t) <= P * (2 * D * s + D * m) /\ P * (2 * D * s) <= P * (2 * Q * t + D * m)
  BY <1>1, <1>2, <1>3, TimesMonotone
<1>5. x \in Nat /\ y \in Nat /\ z \in Nat BY <1>1
<1>6. /\ Q * (2 * P * t) = P * (2 * Q * t)
      /\ Q * (2 * D * r) = D * x /\ P * (2 * D * s) = D * y
      /\ Q * (2 * D * r + D * n) = D * x + D * (Q * n)
      /\ Q * (2 * P * t + D * n) = Q * (2 * P * t) + D * (Q * n)
      /\ P * (2 * D * s + D * m) = D * y + D * (P * m)
      /\ P * (2 * Q * t + D * m) = P * (2 * Q * t) + D * (P * m)
      /\ D * z = D * (P * m) + D * (Q * n)
      /\ D * (y + z) = D * y + D * z /\ D * (x + z) = D * x + D * z
  BY <1>1
<1>7. /\ Q * (2 * P * t) \in Nat /\ D * x \in Nat /\ D * y \in Nat /\ D * (Q * n) \in Nat
      /\ D * (P * m) \in Nat /\ D * z \in Nat
  BY <1>1, <1>5
<1> HIDE DEF x, y, z
<1>8. D * x <= D * (y + z) /\ D * y <= D * (x + z) BY <1>4, <1>6, <1>7
<1>9. ASSUME NEW a \in Nat, NEW b \in Nat, D * a <= D * b PROVE a <= b
  <2> SUFFICES ASSUME b + 1 <= a PROVE FALSE OBVIOUS
  <2>1. D * (b + 1) <= D * a BY <1>1, TimesMonotone
  <2>2. D * (b + 1) = D * b + D /\ D * b \in Nat BY <1>1
  <2> QED BY <1>1, <1>9, <2>1, <2>2
<1>10. x <= y + z /\ y <= x + z BY <1>5, <1>8, <1>9
<1> QED BY <1>10 DEF x, y, z, D, P, Q

-------------------------------------------------------------------------------
(* The report.  The time broken, before it is rounded, is a number of      *)
(* ticks: those past ticks of the window of which the rows until its end   *)
(* say "broken".                                                           *)
RangeFits(range) == range.from \in Nat /\ range.to \in Nat /\ range.from <= range.to
TicksDown(e, range) ==
  {t \in StartOf(range.from) .. EndOf(range) - 1 : t < time /\ Told(HistoryUntil(e, range), t)}

LEMMA RangesFit == \A range \in Ranges : RangeFits(range)
<1> SUFFICES ASSUME NEW range \in Ranges PROVE RangeFits(range) OBVIOUS
<1>1. range.from \in Dates /\ range.to \in Dates /\ range.from <= range.to BY DEF Ranges
<1>2. DayOf(MaxTime) \in Nat BY Constants, DayIs
<1> QED BY <1>1, <1>2 DEF RangeFits, Dates

LEMMA WindowIs ==
  ASSUME NEW range, RangeFits(range)
  PROVE  /\ StartOf(range.from) \in Nat /\ EndOf(range) \in Nat
         /\ StartOf(range.from) + DayTicks <= EndOf(range)
         /\ \A d \in range.from .. range.to :
              /\ d \in Nat /\ StartOf(d) \in Nat /\ StartOf(d + 1) \in Nat
              /\ StartOf(range.from) <= StartOf(d) /\ StartOf(d + 1) <= EndOf(range)
         /\ \A t \in Nat : InWindow(t, range) <=> DayOf(t) \in range.from .. range.to
<1> DEFINE a == range.from
           b == range.to
<1>1. a \in Nat /\ b \in Nat /\ a <= b BY DEF RangeFits
<1>2. EndOf(range) = StartOf(b + 1) BY DEF EndOf
<1>3. /\ InWindow(0, range) \in BOOLEAN
      /\ \A t : InWindow(t, range) <=> StartOf(a) <= t /\ t < StartOf(b + 1)
  BY DEF InWindow, EndOf
<1>4. a .. b = range.from .. range.to OBVIOUS
<1> HIDE DEF a, b
<1>5. /\ StartOf(a) \in Nat /\ StartOf(b) \in Nat /\ StartOf(b + 1) = StartOf(b) + DayTicks
      /\ StartOf(a) <= StartOf(b) /\ StartOf(b + 1) \in Nat
  BY <1>1, StartIs
<1>6. ASSUME NEW d \in a .. b
      PROVE  /\ d \in Nat /\ StartOf(d) \in Nat /\ StartOf(d + 1) \in Nat
             /\ StartOf(a) <= StartOf(d) /\ StartOf(d + 1) <= StartOf(b + 1)
  <2>1. d \in Nat /\ a <= d /\ d + 1 <= b + 1 BY <1>1
  <2>2. d + 1 \in Nat /\ b + 1 \in Nat BY <1>1, <2>1
  <2>3. StartOf(a) <= StartOf(d) BY <1>1, <2>1, StartIs
  <2>4. StartOf(d + 1) <= StartOf(b + 1) BY <2>1, <2>2, StartIs
  <2> QED BY <2>1, <2>3, <2>4, StartIs
<1>7. ASSUME NEW t \in Nat
      PROVE  StartOf(a) <= t /\ t < StartOf(b + 1) <=> DayOf(t) \in a .. b
  <2> DEFINE d == DayOf(t)
  <2>1. d \in Nat /\ StartOf(d) <= t /\ t < StartOf(d + 1) BY DayIs
  <2> HIDE DEF d
  <2>2. StartOf(d) \in Nat /\ StartOf(d + 1) \in Nat BY <2>1, StartIs
  <2>3. ASSUME d \in a .. b PROVE StartOf(a) <= t /\ t < StartOf(b + 1)
    BY <1>5, <1>6, <2>1, <2>2, <2>3
  <2>4. ASSUME StartOf(a) <= t, t < StartOf(b + 1) PROVE d \in a .. b
    <3>1. d + 1 <= a => StartOf(d + 1) <= StartOf(a) BY <1>1, <2>1, StartIs
    <3>2. b + 1 <= d => StartOf(b + 1) <= StartOf(d) BY <1>1, <2>1, StartIs
    <3>3. ~(d + 1 <= a) /\ ~(b + 1 <= d) BY <1>5, <2>1, <2>2, <2>4, <3>1, <3>2
    <3> QED BY <1>1, <2>1, <3>3
  <2> QED BY <2>3, <2>4 DEF d
<1>8. StartOf(a) + DayTicks <= StartOf(b + 1) BY <1>5, Lengths
<1>9. /\ StartOf(range.from) = StartOf(a) /\ EndOf(range) = StartOf(b + 1) BY <1>2 DEF a
<1> QED BY <1>3, <1>4, <1>5, <1>6, <1>7, <1>8, <1>9

LEMMA MinOfTwo ==
  ASSUME NEW a \in Nat, NEW b \in Nat
  PROVE  Min({a, b}) = IF a <= b THEN a ELSE b
<1>1. \E m \in {a, b} : \A x \in {a, b} : m <= x OBVIOUS
<1>2. Min({a, b}) \in {a, b} /\ \A x \in {a, b} : Min({a, b}) <= x BY <1>1 DEF Min
<1> QED BY <1>2

LEMMA DownIs ==
  ASSUME TablesOK, NEW e, NEW range, RangeFits(range)
  PROVE  /\ IsFiniteSet(TicksDown(e, range))
         /\ \A t \in TicksDown(e, range) : t \in Nat /\ InWindow(t, range)
         /\ BrokenTime(e, range) = Cardinality(TicksDown(e, range))
         /\ \A d \in range.from .. range.to :
              BrokenOn(e, d, range) = Cardinality({t \in TicksDown(e, range) : DayOf(t) = d})
<1> DEFINE U == HistoryUntil(e, range)
           W == TicksDown(e, range)
           a == StartOf(range.from)
           b == EndOf(range)
<1>1. a \in Nat /\ b \in Nat /\ time \in Nat
  BY WindowIs, Constants DEF TablesOK, Time
<1>2. U \in SUBSET DOMAIN history BY DEF HistoryUntil, RowsOf
<1>3. W = {t \in a .. b - 1 : t < time /\ Told(U, t)} BY DEF TicksDown
<1>4. \A t : InWindow(t, range) <=> a <= t /\ t < b BY DEF InWindow
<1>5. /\ BrokenTime(e, range) = Overlap(BrokenIntervals(U), a, Min({b, time}))
      /\ \A d : BrokenOn(e, d, range)
                  = Overlap(BrokenIntervals(U), StartOf(d), Min({StartOf(d + 1), time}))
  BY DEF BrokenTime, BrokenOn, IntervalsUntil
<1>6. \A d \in range.from .. range.to :
        /\ d \in Nat /\ StartOf(d) \in Nat /\ StartOf(d + 1) \in Nat
        /\ a <= StartOf(d) /\ StartOf(d + 1) <= b
  BY WindowIs
<1> HIDE DEF U, W, a, b
<1>7. IsFiniteSet(W) /\ \A t \in W : t \in Nat /\ a <= t /\ t < b
  <2>1. a \in Int /\ b - 1 \in Int BY <1>1
  <2>2. IsFiniteSet(a .. b - 1) BY <2>1, FS_Interval
  <2>3. W \subseteq a .. b - 1 BY <1>3
  <2>4. \A t \in a .. b - 1 : t \in Nat /\ a <= t /\ t < b BY <1>1
  <2> QED BY <2>2, <2>3, <2>4, FS_Subset
<1>8. ASSUME NEW from \in Nat, NEW end \in Nat
      PROVE  Overlap(BrokenIntervals(U), from, Min({end, time}))
               = Cardinality({t \in from .. Min({end, time}) - 1 : Told(U, t)})
  <2>1. Min({end, time}) \in Nat /\ Min({end, time}) <= time BY <1>1, MinOfTwo
  <2> QED BY <1>2, <2>1, OverlapTold
<1>9. ASSUME NEW from \in Nat, NEW end \in Nat, a <= from, end <= b
      PROVE  {t \in from .. Min({end, time}) - 1 : Told(U, t)} = {t \in W : from <= t /\ t < end}
  <2>1. ASSUME NEW t \in Nat
        PROVE  t \in from .. Min({end, time}) - 1 <=>
                 t \in a .. b - 1 /\ t < time /\ from <= t /\ t < end
    BY <1>1, <1>9, MinOfTwo
  <2>2. \A t \in from .. Min({end, time}) - 1 : t \in Nat BY <1>1, MinOfTwo
  <2> QED BY <1>3, <1>7, <2>1, <2>2
<1>10. BrokenTime(e, range) = Cardinality(W)
  <2>1. {t \in W : a <= t /\ t < b} = W BY <1>7
  <2> QED BY <1>1, <1>5, <1>8, <1>9, <2>1
<1>11. ASSUME NEW d \in range.from .. range.to
       PROVE  BrokenOn(e, d, range) = Cardinality({t \in W : DayOf(t) = d})
  <2>1. {t \in W : StartOf(d) <= t /\ t < StartOf(d + 1)} = {t \in W : DayOf(t) = d}
    <3>1. \A t \in W : DayOf(t) = d <=> StartOf(d) <= t /\ t < StartOf(d + 1)
      BY <1>6, <1>7, DayIs
    <3> QED BY <3>1
  <2>2. PICK from \in Nat, end \in Nat : from = StartOf(d) /\ end = StartOf(d + 1) BY <1>6
  <2>3. a <= from /\ end <= b BY <1>6, <2>2
  <2>4. Overlap(BrokenIntervals(U), from, Min({end, time}))
          = Cardinality({t \in W : from <= t /\ t < end})
    BY <1>8, <1>9, <2>3
  <2> QED BY <1>5, <2>1, <2>2, <2>4
<1> QED BY <1>4, <1>7, <1>10, <1>11 DEF W

(* c[e][d] is what befell e, one of E, on the day d: g[e] on all days, and *)
(* h[d] that day all those of L.  Nothing befell the others.               *)
DayByDay(E, L, D, c, q, g, h) ==
  /\ IsFiniteSet(E) /\ L \in SUBSET E /\ IsFiniteSet(D)
  /\ \A e \in E, d \in D : c[e][d] \in Nat
  /\ \A d \in D, e \in L : q[d][e] = c[e][d]
  /\ \A e \in E : g[e] = SumFunctionOnSet(c[e], D)
  /\ \A e \in E \ L : g[e] = 0
  /\ \A d \in D : h[d] = SumFunctionOnSet(q[d], L)

LEMMA ListedSum ==
  ASSUME NEW E, NEW L, NEW D, NEW c, NEW q, NEW g, NEW h, DayByDay(E, L, D, c, q, g, h)
  PROVE  SumFunctionOnSet(h, D) = SumFunctionOnSet(g, E)
<1>0. /\ IsFiniteSet(E) /\ L \in SUBSET E /\ IsFiniteSet(D)
      /\ \A e \in E, d \in D : c[e][d] \in Nat
      /\ \A d \in D, e \in L : q[d][e] = c[e][d]
      /\ \A e \in E : g[e] = SumFunctionOnSet(c[e], D)
      /\ \A e \in E \ L : g[e] = 0
      /\ \A d \in D : h[d] = SumFunctionOnSet(q[d], L)
  BY DEF DayByDay
<1>1. Adds(g, E)
  <2>1. \A e \in E : Adds(c[e], D) BY <1>0 DEF Adds
  <2>2. \A e \in E : g[e] \in Nat BY <1>0, <2>1, SumType
  <2> QED BY <1>0, <2>2 DEF Adds
<1>2. IsFiniteSet(L) BY <1>0, FS_Subset
<1>3. BothWays(L, D, c, q, g, h) BY <1>0, <1>2 DEF BothWays
<1>4. SumFunctionOnSet(g, L) = SumFunctionOnSet(h, D) BY <1>3, SumExchange
<1>5. SumFunctionOnSet(g, L) = SumFunctionOnSet(g, E) BY <1>0, <1>1, SumWorking
<1> QED BY <1>4, <1>5

ListedIn(range) == Listed(Equipment, FALSE, range)
TicketsIn(range) ==
  {t \in DOMAIN tickets : tickets[t].target \in Equipment /\ InWindow(tickets[t].at, range)}

LEMMA TablesFinite == IsFiniteSet(Equipment) /\ (TablesOK => IsFiniteSet(DOMAIN tickets))
<1>1. IsFiniteSet(Equipment) /\ IsFiniteSet(TicketIds) BY Zenon, TicketsAssumption
<1> QED BY <1>1, FS_Subset DEF TablesOK

LEMMA DaysFinite ==
  ASSUME NEW range, RangeFits(range)
  PROVE  IsFiniteSet(range.from .. range.to)
<1>1. range.from \in Int /\ range.to \in Int BY DEF RangeFits
<1> QED BY <1>1, FS_Interval

(* Before they are rounded, the days of the series add up to what the rows *)
(* of the equipment listed add up to.                                      *)
DownOnDays(range) ==
  [d \in range.from .. range.to |->
     SumFunction([e \in ListedIn(range) |-> BrokenOn(e, d, range)])]
DownInRows(range) == [e \in ListedIn(range) |-> BrokenTime(e, range)]

LEMMA TimeAddsUp ==
  ASSUME TablesOK, NEW range, RangeFits(range)
  PROVE  LET D == range.from .. range.to
             L == ListedIn(range)
         IN  /\ Adds(DownOnDays(range), D) /\ Adds(DownInRows(range), L)
             /\ SumFunctionOnSet(DownOnDays(range), D) = SumFunctionOnSet(DownInRows(range), L)
<1> DEFINE D == range.from .. range.to
           L == ListedIn(range)
           Down(e, d) == BrokenOn(e, d, range)
           c == [e \in L |-> [d \in D |-> Down(e, d)]]
           q == [d \in D |-> [e \in L |-> Down(e, d)]]
           g == DownInRows(range)
           h == DownOnDays(range)
<1>1. IsFiniteSet(L) /\ IsFiniteSet(D)
  <2>1. L \in SUBSET Equipment BY DEF ListedIn, Listed
  <2> QED BY <2>1, TablesFinite, DaysFinite, FS_Subset
<1>2. ASSUME NEW e \in L
      PROVE  /\ \A d \in D : Down(e, d) \in Nat
             /\ g[e] \in Nat /\ g[e] = SumFunctionOnSet(c[e], D)
  <2> DEFINE W == TicksDown(e, range)
             p == [t \in W |-> DayOf(t)]
             f == c[e]
  <2>1. /\ IsFiniteSet(W) /\ BrokenTime(e, range) = Cardinality(W)
        /\ \A t \in W : t \in Nat /\ InWindow(t, range)
        /\ \A d \in D : Down(e, d) = Cardinality({t \in W : DayOf(t) = d})
    BY DownIs
  <2>2. Cardinality(W) \in Nat BY <2>1, FS_CardinalityType
  <2>3. ASSUME NEW d \in D
        PROVE  Down(e, d) = Cardinality(Fiber(W, p, d)) /\ Cardinality(Fiber(W, p, d)) \in Nat
    <3>1. Fiber(W, p, d) = {t \in W : DayOf(t) = d} BY DEF Fiber
    <3>2. IsFiniteSet(Fiber(W, p, d))
      <4> HIDE DEF W, p
      <4> QED BY <2>1, FS_Subset DEF Fiber
    <3> HIDE DEF W, p
    <3> QED BY <2>1, <3>1, <3>2, FS_CardinalityType
  <2>4. \A d \in D : f[d] = Down(e, d) OBVIOUS
  <2>5. \A t \in W : p[t] \in D BY <2>1, WindowIs
  <2>6. SumFunctionOnSet(f, D) = Cardinality(W)
    <3> HIDE DEF W, p, f, D, Down
    <3> QED BY <1>1, <2>1, <2>3, <2>4, <2>5, CountFibers
  <2>7. g[e] = BrokenTime(e, range) BY DEF DownInRows
  <2> HIDE DEF W, p, D, g, L
  <2> QED BY <2>1, <2>2, <2>3, <2>6, <2>7
<1>3. \A e \in L, d \in D : c[e][d] \in Nat BY <1>2
<1>4. \A d \in D, e \in L : q[d][e] = c[e][d] OBVIOUS
<1>5. ASSUME NEW d \in D PROVE h[d] = SumFunctionOnSet(q[d], L)
  <2>1. h[d] = SumFunction([e \in L |-> Down(e, d)]) BY DEF DownOnDays
  <2>2. q[d] = [e \in L |-> Down(e, d)] OBVIOUS
  <2>3. DOMAIN q[d] = L OBVIOUS
  <2> HIDE DEF h, q, L
  <2> QED BY <2>1, <2>2, <2>3 DEF SumFunction
<1> HIDE DEF D, L, c, q, g, h
<1>6. Adds(g, L) BY <1>1, <1>2 DEF Adds
<1>7. Adds(h, D)
  <2>1. ASSUME NEW d \in D PROVE h[d] \in Nat
    <3>1. Adds(q[d], L) BY <1>1, <1>3, <1>4 DEF Adds
    <3> QED BY <1>5, <3>1, SumType
  <2> QED BY <1>1, <2>1 DEF Adds
<1>8. \A e \in L : g[e] = SumFunctionOnSet(c[e], D) BY <1>2
<1>9. BothWays(L, D, c, q, g, h) BY <1>1, <1>3, <1>4, <1>5, <1>8 DEF BothWays
<1>10. SumFunctionOnSet(g, L) = SumFunctionOnSet(h, D) BY <1>9, SumExchange
<1> QED BY <1>6, <1>7, <1>10 DEF D, L, g, h

(* After rounding, they are apart by what each is off. *)
LEMMA RoundedTimeAddsUp ==
  ASSUME TablesOK, NEW range, RangeFits(range), NEW S, NEW R,
         S = [d \in range.from .. range.to |-> Rounded(DownOnDays(range)[d], SeriesParts)],
         R = [e \in ListedIn(range) |-> Rounded(BrokenTime(e, range), RowParts)]
  PROVE  LET left == RowParts * Cardinality(range.from .. range.to)
                       + SeriesParts * Cardinality(ListedIn(range))
         IN  /\ 2 * SeriesParts * SumFunction(R) <= 2 * RowParts * SumFunction(S) + left
             /\ 2 * RowParts * SumFunction(S) <= 2 * SeriesParts * SumFunction(R) + left
<1> DEFINE D == range.from .. range.to
           L == ListedIn(range)
           f == DownInRows(range)
           h == DownOnDays(range)
           t == SumFunctionOnSet(f, L)
           n == Cardinality(L)
           m == Cardinality(D)
           r == SumFunctionOnSet(R, L)
           s == SumFunctionOnSet(S, D)
<1>1. Adds(h, D) /\ Adds(f, L) /\ SumFunctionOnSet(h, D) = t BY TimeAddsUp
<1>2. \A e \in L : R[e] = Rounded(f[e], RowParts) BY DEF DownInRows
<1>3. \A d \in D : S[d] = Rounded(h[d], SeriesParts) OBVIOUS
<1>4. DOMAIN R = L /\ DOMAIN S = D OBVIOUS
<1> HIDE DEF D, L, f, h
<1>5. n \in Nat /\ m \in Nat /\ t \in Nat BY <1>1, FS_CardinalityType, SumType DEF Adds
<1>6. /\ Adds(R, L) /\ 2 * RowParts * t <= 2 * DayTicks * r + DayTicks * n
      /\ 2 * DayTicks * r <= 2 * RowParts * t + DayTicks * n
  BY <1>1, <1>2, Lengths, RoundedSums
<1>7. /\ Adds(S, D) /\ 2 * SeriesParts * t <= 2 * DayTicks * s + DayTicks * m
      /\ 2 * DayTicks * s <= 2 * SeriesParts * t + DayTicks * m
  BY <1>1, <1>3, Lengths, RoundedSums
<1>8. r \in Nat /\ s \in Nat BY <1>6, <1>7, SumType
<1>9. SumFunction(R) = r /\ SumFunction(S) = s BY <1>4, Zenon DEF SumFunction
<1> HIDE DEF r, s, t, n, m
<1>10. /\ 2 * SeriesParts * r <= 2 * RowParts * s + (RowParts * m + SeriesParts * n)
       /\ 2 * RowParts * s <= 2 * SeriesParts * r + (RowParts * m + SeriesParts * n)
  BY <1>5, <1>6, <1>7, <1>8, ToldTwice
<1> QED BY <1>9, <1>10 DEF D, L, m, n

(* And the series of the tickets adds up to the tickets. *)
LEMMA TicketsAddUp ==
  ASSUME TablesOK, NEW range, RangeFits(range)
  PROVE  SumFunction([d \in range.from .. range.to |->
                        SumFunction([e \in ListedIn(range) |-> Cardinality(OpenedOn(e, d, range))])])
           = Cardinality(TicketsIn(range))
<1> DEFINE D == range.from .. range.to
           L == ListedIn(range)
           Opened(e, d) == Cardinality(OpenedOn(e, d, range))
           c == [e \in Equipment |-> [d \in D |-> Opened(e, d)]]
           q == [d \in D |-> [e \in L |-> Opened(e, d)]]
           g == [e \in Equipment |-> Cardinality(ReportsIn(e, range))]
           h == [d \in D |-> SumFunction([e \in L |-> Opened(e, d)])]
<1>1. IsFiniteSet(Equipment) /\ IsFiniteSet(D) BY TablesFinite, DaysFinite
<1>2. L \in SUBSET Equipment BY DEF ListedIn, Listed
<1>0. ASSUME NEW t \in DOMAIN tickets
      PROVE  InWindow(tickets[t].at, range) <=> DayOf(tickets[t].at) \in D
  <2>1. tickets[t].at \in Nat BY Constants DEF TablesOK, TicketRow, Time
  <2> QED BY <2>1, WindowIs
<1>3. ASSUME NEW e \in Equipment
      PROVE  /\ \A d \in D : Opened(e, d) \in Nat
             /\ g[e] = SumFunctionOnSet(c[e], D)
             /\ e \notin L => g[e] = 0
  <2> DEFINE W == ReportsIn(e, range)
             p == [t \in W |-> DayOf(tickets[t].at)]
             f == c[e]
  <2>1. IsFiniteSet(W) BY TablesFinite, FS_Subset DEF ReportsIn
  <2>2. ASSUME NEW d \in D
        PROVE  Opened(e, d) = Cardinality(Fiber(W, p, d)) /\ Cardinality(Fiber(W, p, d)) \in Nat
    <3>1. Fiber(W, p, d) = OpenedOn(e, d, range) BY DEF Fiber, OpenedOn
    <3>2. IsFiniteSet(Fiber(W, p, d))
      <4> HIDE DEF W, p
      <4> QED BY <2>1, FS_Subset DEF Fiber
    <3> HIDE DEF p
    <3> QED BY <3>1, <3>2, FS_CardinalityType
  <2>3. \A d \in D : f[d] = Opened(e, d) OBVIOUS
  <2>4. \A t \in W : p[t] \in D BY <1>0 DEF ReportsIn
  <2>5. SumFunctionOnSet(f, D) = Cardinality(W)
    <3> HIDE DEF W, p, f, D, Opened
    <3> QED BY <1>1, <2>1, <2>2, <2>3, <2>4, CountFibers
  <2>6. g[e] = Cardinality(W) OBVIOUS
  <2>7. e \notin L => W = {} BY DEF ListedIn, Listed, HasActivity
  <2> HIDE DEF W, p, D, g, L
  <2> QED BY <2>2, <2>5, <2>6, <2>7, FS_EmptySet
<1>4. \A e \in Equipment, d \in D : c[e][d] \in Nat BY <1>3
<1>5. \A d \in D, e \in L : q[d][e] = c[e][d] BY <1>2
<1>6. ASSUME NEW d \in D PROVE h[d] = SumFunctionOnSet(q[d], L)
  <2>1. h[d] = SumFunction([e \in L |-> Opened(e, d)]) OBVIOUS
  <2>2. q[d] = [e \in L |-> Opened(e, d)] OBVIOUS
  <2>3. DOMAIN q[d] = L OBVIOUS
  <2> HIDE DEF h, q, L
  <2> QED BY <2>1, <2>2, <2>3 DEF SumFunction
<1>7. SumFunctionOnSet(g, Equipment) = Cardinality(TicketsIn(range))
  <2> DEFINE T == TicketsIn(range)
             p == [t \in T |-> tickets[t].target]
  <2>1. IsFiniteSet(T) BY TablesFinite, FS_Subset DEF TicketsIn
  <2>2. \A t \in T : p[t] \in Equipment BY DEF TicketsIn
  <2>3. ASSUME NEW e \in Equipment PROVE g[e] = Cardinality(Fiber(T, p, e))
    <3>1. Fiber(T, p, e) = ReportsIn(e, range) BY DEF Fiber, TicketsIn, ReportsIn
    <3> HIDE DEF T, p
    <3> QED BY <3>1
  <2> HIDE DEF T, p, g
  <2>4. SumFunctionOnSet(g, Equipment) = Cardinality(T) BY <1>1, <2>1, <2>2, <2>3, CountFibers
  <2> QED BY <2>4 DEF T
<1>8. DOMAIN h = D OBVIOUS
<1> HIDE DEF D, L, c, q, g, h
<1>9. \A e \in Equipment : g[e] = SumFunctionOnSet(c[e], D) BY <1>3
<1>10. \A e \in Equipment \ L : g[e] = 0 BY <1>3
<1>11. SumFunctionOnSet(h, D) = SumFunctionOnSet(g, Equipment)
  <2>1. DayByDay(Equipment, L, D, c, q, g, h)
    BY <1>1, <1>2, <1>4, <1>5, <1>6, <1>9, <1>10 DEF DayByDay
  <2> QED BY <2>1, ListedSum
<1>12. SumFunction(h) = Cardinality(TicketsIn(range)) BY <1>7, <1>8, <1>11 DEF SumFunction
<1> QED BY <1>12 DEF h, D, L

LEMMA ListIs ==
  ASSUME NEW range
  PROVE  LET list == ListEquipment([by |-> "none"], range)
         IN  /\ list.rows = [e \in ListedIn(range) |-> Counts(e, range)]
             /\ list.series = Series(ListedIn(range), range)
<1>1. [by |-> "none"].by = "none" OBVIOUS
<1>2. ListEquipment([by |-> "none"], range)
        = [rows |-> [e \in ListedIn(range) |-> Counts(e, range)],
           series |-> Series(ListedIn(range), range)]
  BY <1>1 DEF ListEquipment, ListedIn
<1> QED BY <1>2

(* Who was broken in the window is listed: a row of the window is activity; *)
(* without one it was broken all the window, which is a day at least if    *)
(* the window is over, and is broken still if it is not.                   *)
LEMMA DownIsListed ==
  ASSUME TablesOK, DowntimeInvariant, RowsChange, NEW range, RangeFits(range),
         NEW e \in Recorded, ~BornBroken(e),
         NEW t \in Time, InWindow(t, range), <<e, t>> \in broken
  PROVE  e \in ListedIn(range)
<1> DEFINE a == StartOf(range.from)
           b == EndOf(range)
           U == HistoryUntil(e, range)
<1>1. e \in Equipment BY DEF Recorded
<1>2. t < time BY <1>1 DEF DowntimeInvariant, BrokenIsPast
<1>3. t \in Nat /\ time \in Nat BY Constants DEF TablesOK, Time
<1>4. a \in Nat /\ b \in Nat /\ a + DayTicks <= b BY WindowIs
<1>5. a <= t /\ t < b BY DEF InWindow
<1>6. \A j \in RowsOf(e) : history[j].at \in Nat /\ j \in Nat BY RowsAreNumbered
<1>7. Told(RowsOf(e), t) BY <1>2, ToldBroken
<1>8. PICK k \in RowsOf(e) :
        /\ history[k].at <= t /\ history[k].to = "broken"
        /\ \A j \in RowsOf(e) \ {k} : history[j].at <= t => Before(j, k)
  BY <1>7 DEF Told
<1>9. ASSUME NEW j \in RowsOf(e), InWindow(history[j].at, range) PROVE e \in ListedIn(range)
  <2>1. history[j].from # history[j].to BY DEF RowsOf, RowsChange
  <2>2. j \in HistoryUntil(e, range) BY <1>9 DEF HistoryUntil, InWindow
  <2>3. Transitions(e, range) # {} BY <1>9, <2>1, <2>2 DEF Transitions
  <2> QED BY <1>1, <2>3 DEF ListedIn, Listed, HasActivity
<1>10. ASSUME \A j \in RowsOf(e) : ~InWindow(history[j].at, range) PROVE e \in ListedIn(range)
  <2>1. ASSUME NEW j \in RowsOf(e), history[j].at < b PROVE history[j].at < a
    <3>1. ~(a <= history[j].at) BY <1>10, <2>1 DEF InWindow
    <3> HIDE DEF a, b
    <3> QED BY <1>4, <1>6, <3>1
  <2>2. \A j \in U : j \in RowsOf(e) /\ history[j].at < a
    BY <2>1 DEF HistoryUntil
  <2>3. k \in U BY <1>3, <1>4, <1>5, <1>6, <1>8 DEF HistoryUntil
  <2>4. CASE b <= time
    <3>1. ASSUME NEW u \in a .. b - 1 PROVE u < time /\ Told(U, u)
      <4> HIDE DEF a, b, U
      <4>1. u \in Nat /\ a <= u /\ u < time BY <1>3, <1>4, <2>4
      <4>2. \A j \in U : history[j].at <= u /\ history[j].at <= t
        BY <1>3, <1>4, <1>5, <1>6, <2>2, <4>1
      <4>3. \A j \in U \ {k} : Before(j, k) BY <1>8, <2>2, <4>2
      <4> QED BY <1>8, <2>3, <4>1, <4>2, <4>3 DEF Told
    <3>2. TicksDown(e, range) = a .. b - 1 BY <3>1 DEF TicksDown
    <3>3. BrokenTime(e, range) = Cardinality(a .. b - 1) BY <3>2, DownIs
    <3> HIDE DEF a, b
    <3>4. Cardinality(a .. b - 1) = b - a
      <4>1. a \in Int /\ b - 1 \in Int /\ ~(a > b - 1) /\ b - 1 - a + 1 = b - a
        BY <1>4, Lengths
      <4> QED BY <4>1, FS_Interval
    <3>5. b - a \in Nat /\ DayTicks <= b - a BY <1>4, Lengths
    <3>6. Rounded(BrokenTime(e, range), RowParts) > 0 BY <3>3, <3>4, <3>5, DayIsTold, Lengths
    <3>7. Counts(e, range).timeInBrokenDays > 0 BY <3>6 DEF Counts
    <3> QED BY <1>1, <3>7 DEF ListedIn, Listed, HasActivity
  <2>5. CASE time < b
    <3> HIDE DEF a, b
    <3>1. ASSUME NEW j \in RowsOf(e) PROVE j <= k
      <4>1. history[j].at <= time BY DEF DowntimeInvariant, StampsInOrder
      <4>2. history[j].at <= t BY <1>3, <1>4, <1>5, <1>6, <2>1, <2>5, <4>1
      <4>3. j # k => Before(j, k) BY <1>8, <4>2
      <4>4. k <= j => history[k].at <= history[j].at BY DEF DowntimeInvariant, StampsInOrder
      <4> QED BY <1>6, <4>3, <4>4 DEF Before
    <3>2. status[e] = "broken" BY <1>8, <3>1 DEF DowntimeInvariant, LastTells
    <3> QED BY <1>1, <3>2 DEF ListedIn, Listed
  <2> HIDE DEF a, b
  <2> QED BY <1>3, <1>4, <2>4, <2>5
<1> QED BY <1>9, <1>10

LEMMA BrokenFollows == TypeOK /\ DowntimeInvariant /\ RowsChange => BrokenIsListed
<1> SUFFICES ASSUME TypeOK, DowntimeInvariant, RowsChange, NEW range \in Ranges
             PROVE  LET list == ListEquipment([by |-> "none"], range)
                        days == 2 * RowParts * InAll(list.series, "brokenDays")
                        rows == 2 * SeriesParts * InRows(list.rows)
                        left == RowParts * Cardinality(DOMAIN list.series)
                                  + SeriesParts * Cardinality(DOMAIN list.rows)
                    IN  /\ \A e \in Equipment \ (unlogged \union late) :
                             ~BornBroken(e) /\ (\E t \in Time : InWindow(t, range) /\ <<e, t>> \in broken)
                               => e \in DOMAIN list.rows
                        /\ rows <= days + left /\ days <= rows + left
                        /\ InAll(list.series, "reports")
                             = Cardinality({t \in DOMAIN tickets : /\ tickets[t].target \in Equipment
                                                                  /\ InWindow(tickets[t].at, range)})
  BY DEF BrokenIsListed
<1> DEFINE list == ListEquipment([by |-> "none"], range)
           D == range.from .. range.to
           L == ListedIn(range)
           Opened(d) == SumFunction([e \in L |-> Cardinality(OpenedOn(e, d, range))])
           Down(d) == Rounded(SumFunction([e \in L |-> BrokenOn(e, d, range)]), SeriesParts)
           Shown(e) == Rounded(BrokenTime(e, range), RowParts)
           S == [d \in D |-> Down(d)]
           R == [e \in L |-> Shown(e)]
           rows == list.rows
           series == list.series
<1>1. TablesOK /\ RangeFits(range) BY TypeParts, RangesFit
<1>2. rows = [e \in L |-> Counts(e, range)] /\ series = Series(L, range) BY ListIs
<1>3. series = [d \in D |-> [reports |-> Opened(d), brokenDays |-> Down(d)]] BY <1>2 DEF Series
<1>4. \A e : Counts(e, range).timeInBrokenDays = Shown(e) BY DEF Counts
<1>5. S = [d \in D |-> Rounded(DownOnDays(range)[d], SeriesParts)] BY DEF DownOnDays
<1>6. ASSUME NEW e \in Equipment \ (unlogged \union late), ~BornBroken(e),
             NEW t \in Time, InWindow(t, range), <<e, t>> \in broken
      PROVE  e \in DOMAIN rows
  BY <1>1, <1>2, <1>6, DownIsListed DEF Recorded
<1> HIDE DEF rows, series, Opened, Down, Shown, D, L
<1>7. DOMAIN rows = L /\ DOMAIN series = D BY <1>2, <1>3
<1>8. [d \in DOMAIN series |-> series[d]["brokenDays"]] = S BY <1>3
<1>9. [d \in DOMAIN series |-> series[d]["reports"]] = [d \in D |-> Opened(d)] BY <1>3
<1>10. [e \in DOMAIN rows |-> rows[e].timeInBrokenDays] = R BY <1>2, <1>4
<1>11. /\ InAll(series, "brokenDays") = SumFunction(S) /\ InRows(rows) = SumFunction(R)
       /\ InAll(series, "reports") = SumFunction([d \in D |-> Opened(d)])
  BY <1>8, <1>9, <1>10 DEF InAll, InRows
<1>12. SumFunction([d \in D |-> Opened(d)]) = Cardinality(TicketsIn(range))
  BY <1>1, TicketsAddUp DEF D, L, Opened
<1>13. /\ 2 * SeriesParts * SumFunction(R)
            <= 2 * RowParts * SumFunction(S)
                 + (RowParts * Cardinality(D) + SeriesParts * Cardinality(L))
       /\ 2 * RowParts * SumFunction(S)
            <= 2 * SeriesParts * SumFunction(R)
                 + (RowParts * Cardinality(D) + SeriesParts * Cardinality(L))
  <2> HIDE DEF S
  <2>1. R = [e \in ListedIn(range) |-> Rounded(BrokenTime(e, range), RowParts)] BY DEF L, Shown
  <2> HIDE DEF R
  <2> QED BY <1>1, <1>5, <2>1, RoundedTimeAddsUp DEF D, L
<1> HIDE DEF S, R
<1>14. /\ 2 * SeriesParts * InRows(rows)
            <= 2 * RowParts * InAll(series, "brokenDays")
                 + (RowParts * Cardinality(DOMAIN series) + SeriesParts * Cardinality(DOMAIN rows))
       /\ 2 * RowParts * InAll(series, "brokenDays")
            <= 2 * SeriesParts * InRows(rows)
                 + (RowParts * Cardinality(DOMAIN series) + SeriesParts * Cardinality(DOMAIN rows))
  BY <1>7, <1>11, <1>13, Zenon
<1>15. InAll(series, "reports") = Cardinality(TicketsIn(range)) BY <1>11, <1>12
<1> QED BY <1>6, <1>14, <1>15, Zenon DEF rows, series, TicketsIn

LEMMA DowntimeHolds == Spec => []DowntimeInvariant
<1>1. Init => DowntimeInvariant BY DowntimeInit
<1>2. TypeOK /\ DowntimeInvariant /\ [Next]_vars => DowntimeInvariant' BY DowntimeStep
<1> QED BY <1>1, <1>2, TicketsTypeCorrect, PTL DEF Spec

(* The downtime that maintenance-report.service computes, by sorting the   *)
(* rows of an equipment and pairing each breakdown with the next row that  *)
(* ends it, is over every period the time the equipment was broken: with   *)
(* any number of handlers writing statuses, unless a change left no row or *)
(* was stamped earlier than it was written.                                *)
THEOREM DowntimeIsExact == Spec => []DowntimeExact
BY DowntimeFollows, DowntimeHolds, TicketsTypeCorrect, PTL

(* listEquipment of maintenance-report.service lists every equipment that  *)
(* was broken at any moment of its window, although its test of activity   *)
(* looks at a rounded figure; its series, in hundredths of a day, and its  *)
(* rows, in tenths, tell the same downtime but for half a part of every    *)
(* figure; and its series has every ticket of the window.  For every       *)
(* length of the day and every two precisions.                             *)
THEOREM BrokenAreListed == Spec => []BrokenIsListed
BY BrokenFollows, DowntimeHolds, RowsChangeHolds, TicketsTypeCorrect, PTL

(* A report of days that are over, in the same terms before and after.     *)
TimesAreTicks ==
  \A e \in Equipment : \A range \in Ranges :
    BrokenTime(e, range) = Cardinality(TicksDown(e, range))

LEMMA TicksTell == TypeOK => TimesAreTicks
BY TypeParts, RangesFit, DownIs DEF TimesAreTicks

LEMMA PastTicksStand ==
  ASSUME TypeOK, TypeOK', [Next]_vars, NEW range \in Ranges, EndOf(range) <= time,
         NEW e \in Equipment \ late'
  PROVE  /\ TicksDown(e, range)' = TicksDown(e, range)
         /\ \A s : Into(s, Transitions(e, range))' = Into(s, Transitions(e, range))
<1> DEFINE b == EndOf(range)
<1>0. TablesOK /\ RangeFits(range) BY TypeParts, RangesFit
<1>1. b - 1 \in Time /\ b - 1 < time /\ b \in Nat /\ time \in Nat
  <2>1. /\ b \in Nat /\ StartOf(range.from) \in Nat /\ DayTicks \in Nat /\ DayTicks > 0
        /\ StartOf(range.from) + DayTicks <= b
    BY <1>0, WindowIs, Lengths
  <2>2. time \in Nat /\ time <= MaxTime /\ MaxTime \in Nat BY <1>0, Constants DEF TablesOK, Time
  <2> HIDE DEF b
  <2>3. b - 1 \in 0 .. MaxTime /\ b - 1 < time BY <2>1, <2>2 DEF b
  <2> QED BY <2>1, <2>2, <2>3 DEF Time
<1>2. /\ RowsUntil(e, b - 1)' = RowsUntil(e, b - 1)
      /\ \A k \in RowsUntil(e, b - 1) : history'[k] = history[k]
  <2>1. PICK n \in Time : n = b - 1 BY <1>1
  <2>2. n < time BY <1>1, <2>1
  <2>3. /\ RowsUntil(e, n)' = RowsUntil(e, n)
        /\ \A k \in RowsUntil(e, n) : history'[k] = history[k]
    BY <2>2, PastRowsStep
  <2> QED BY <2>1, <2>3
<1>3. /\ HistoryUntil(e, range) = RowsUntil(e, b - 1)
      /\ HistoryUntil(e, range)' = RowsUntil(e, b - 1)'
  <2>1. \A k \in RowsOf(e) : history[k].at \in Nat BY <1>0, RowsAreNumbered
  <2>2. \A k \in RowsOf(e)' : history'[k].at \in Nat
    <3>1. history' \in Seq(HistoryRow) BY DEF TypeOK
    <3>2. \A k \in RowsOf(e)' : history'[k] \in HistoryRow BY <3>1 DEF RowsOf
    <3> QED BY <3>2, Constants DEF HistoryRow, Time
  <2>3. \A n \in Nat : n < b <=> n <= b - 1 BY <1>1
  <2>4. HistoryUntil(e, range) = {k \in RowsOf(e) : history[k].at < b} BY DEF HistoryUntil
  <2>5. HistoryUntil(e, range)' = {k \in RowsOf(e)' : history'[k].at < b}
    BY DEF HistoryUntil, EndOf, StartOf
  <2>6. /\ RowsUntil(e, b - 1) = {k \in RowsOf(e) : history[k].at <= b - 1}
        /\ RowsUntil(e, b - 1)' = {k \in RowsOf(e)' : history'[k].at <= b - 1}
    BY DEF RowsUntil, EndOf, StartOf
  <2> HIDE DEF b
  <2> QED BY <2>1, <2>2, <2>3, <2>4, <2>5, <2>6
<1>4. PICK U : U = HistoryUntil(e, range) OBVIOUS
<1>5. HistoryUntil(e, range)' = U /\ \A k \in U : history'[k] = history[k] BY <1>2, <1>3, <1>4
<1>6. \A s : Into(s, Transitions(e, range))' = Into(s, Transitions(e, range))
  BY <1>4, <1>5 DEF Into, Transitions, InWindow, EndOf, StartOf
<1>7. time \in Nat /\ time' \in Nat /\ time <= time'
  <2>1. time \in Nat /\ time' \in Nat BY Constants DEF TypeOK, Time
  <2>2. time' = time \/ time' = time + 1
    BY DEF Next, Tick, Acknowledge, Dismiss, Submit, SubmitReport, SubmitResolve, SubmitStatus,
           RefuseRequest, Die, Proceed, CheckOpen, CheckRecent, InsertTicket, BreakEquipment,
           NotifyStaff, ResolveTicket, NotifyReporter, UpdateStatus, vars
  <2> QED BY <2>1, <2>2
<1>8. \A t \in StartOf(range.from) .. b - 1 : t < time /\ t < time'
  <2>1. StartOf(range.from) \in Nat BY <1>0, WindowIs
  <2> HIDE DEF b
  <2> QED BY <1>1, <1>7, <2>1
<1>9. ASSUME NEW t PROVE Told(HistoryUntil(e, range), t)' <=> Told(HistoryUntil(e, range), t)
  <2>1. \A j, k \in U : Before(j, k)' <=> Before(j, k) BY <1>5 DEF Before
  <2> QED BY <1>4, <1>5, <2>1 DEF Told
<1>10. TicksDown(e, range)' = TicksDown(e, range) BY <1>8, <1>9 DEF TicksDown, EndOf, StartOf
<1> QED BY <1>6, <1>10

(* A report of days that are over, whenever it is asked for, says the same *)
(* of each equipment: services/maintenance-report.service computes its     *)
(* time broken from the rows up to the end of the window and from `now`,   *)
(* counts its breakdowns and repairs, and no request that comes later      *)
(* changes any of them unless its row was stamped late.                    *)
THEOREM PastReportsAreSettled == Spec => PastReportsStand
<1> DEFINE Settled ==
      <<history, time>>' # <<history, time>> => \A range \in Ranges : EndOf(range) <= time =>
        \A e \in Equipment \ late' :
          /\ BrokenTime(e, range)' = BrokenTime(e, range)
          /\ \A s \in {"broken", "working"} :
               Into(s, Transitions(e, range))' = Into(s, Transitions(e, range))
<1>1. TypeOK /\ TypeOK' /\ TimesAreTicks /\ TimesAreTicks' /\ [Next]_vars => Settled
  <2> SUFFICES ASSUME TypeOK, TypeOK', TimesAreTicks, TimesAreTicks', [Next]_vars,
                      NEW range \in Ranges, EndOf(range) <= time, NEW e \in Equipment \ late'
               PROVE  /\ BrokenTime(e, range)' = BrokenTime(e, range)
                      /\ \A s \in {"broken", "working"} :
                           Into(s, Transitions(e, range))' = Into(s, Transitions(e, range))
    OBVIOUS
  <2>1. /\ TicksDown(e, range)' = TicksDown(e, range)
        /\ \A s : Into(s, Transitions(e, range))' = Into(s, Transitions(e, range))
    BY PastTicksStand
  <2>2. /\ BrokenTime(e, range) = Cardinality(TicksDown(e, range))
        /\ BrokenTime(e, range)' = Cardinality(TicksDown(e, range)')
    BY DEF TimesAreTicks
  <2> QED BY <2>1, <2>2
<1>2. TypeOK /\ TypeOK' /\ TimesAreTicks /\ TimesAreTicks' /\ [Next]_vars => [Settled]_vars
  BY <1>1
<1> QED BY <1>2, TicksTell, TicketsTypeCorrect, PTL DEF Spec, PastReportsStand
===============================================================================
