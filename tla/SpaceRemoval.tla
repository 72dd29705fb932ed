------------------------------ MODULE SpaceRemoval ------------------------------
(***************************************************************************)
(* Creating and deleting a space, while others insert rows that refer to   *)
(* it (services/space.service, with the insertions of reservation,         *)
(* blocking, equipment, equipment-report and space-manager.service and the *)
(* foreign keys of migrations/).  A deletion reads two counts and then     *)
(* deletes table by table, each statement on its own; the foreign keys,    *)
(* ON DELETE no action, refuse a statement that would leave a row behind   *)
(* that refers to nothing.                                                 *)
(*                                                                         *)
(* Rows of all tables share their numbers, in the order of insertion.      *)
(* What a row says besides its parent and whether it is active is left to  *)
(* the modules of its table; a space has a whole life here, which they     *)
(* leave out.                                                              *)
(***************************************************************************)
EXTENDS Naturals, Sequences, FiniteSets, Functions

CONSTANTS
  Workers,         \* requests served at the same time
  Tables,          \* bound: the tables that rows are inserted into
  MaxRows,         \* bound: rows ever inserted
  MaxRemovals      \* bound: removals ever begun

NoRow == 0
RowIds == 1 .. MaxRows

(* The column with the foreign key.  equipment_reports appears twice: a    *)
(* ticket is about an equipment or about a room.                           *)
Parent ==
  [equipment |-> "spaces", space_managers |-> "spaces", reservations |-> "spaces",
   blockings |-> "spaces", room_tickets |-> "spaces", sensor_devices |-> "spaces",
   equipment_tickets |-> "equipment", equipment_status_history |-> "equipment"]
AllTables == {"spaces"} \union DOMAIN Parent

ASSUME SpaceRemovalAssumption ==
  /\ Tables \subseteq AllTables /\ IsFiniteSet(Workers)
  /\ MaxRows \in Nat \ {0} /\ MaxRemovals \in Nat

VARIABLES
  rows,       \* all tables: id -> row
  inserted,   \* rows ever inserted
  removals,   \* removals ever begun
  pc, req,    \* per worker: the next statement, and what the handler remembers
  counted,    \* history: per worker and table, the rows inserted when it was counted
  lost,       \* history: active rows deleted with their space, and when they were counted
  stripped,   \* history: spaces that lost rows to a removal, and when their equipment had gone
  refused,    \* history: the rows that made a statement of a removal fail
  passed      \* history: per worker and table, the rows inserted when it was emptied

ghosts == <<counted, lost, stripped, refused, passed>>
vars == <<rows, inserted, removals, pc, req, ghosts>>

Row == [table : AllTables, of : RowIds \union {NoRow}, active : BOOLEAN]
NoRequest == [op |-> "none"]
InsertRequest == [op : {"insert"}, table : AllTables, of : RowIds \union {NoRow}]
(* `step` is the count or the deletion that comes next. *)
RemoveRequest == [op : {"remove"}, space : RowIds, step : 1 .. 5]

RowsOf(table, parent) == {k \in DOMAIN rows : rows[k].table = table /\ rows[k].of = parent}
Spaces == RowsOf("spaces", NoRow)
(* A foreign key stands between a row and those that refer to it.          *)
Refers(child, parent) == rows[child].of = parent
ReferredBy(set) == {k \in DOMAIN rows \ set : \E p \in set : Refers(k, p)}

(* The history starts out as it is for a worker that has counted nothing.  *)
Nothing == [t \in AllTables |-> 0]

Init ==
  /\ rows = [k \in {1} |-> [table |-> "spaces", of |-> NoRow, active |-> TRUE]]
  /\ inserted = 1 /\ removals = 0
  /\ pc = [w \in Workers |-> "idle"] /\ req = [w \in Workers |-> NoRequest]
  /\ counted = [w \in Workers |-> Nothing] /\ passed = [w \in Workers |-> Nothing]
  /\ lost = {} /\ stripped = {} /\ refused = {}

Goto(w, to, request) ==
  /\ pc' = [pc EXCEPT ![w] = to]
  /\ req' = [req EXCEPT ![w] = request]
Finish(w) ==
  /\ Goto(w, "idle", NoRequest)
  /\ counted' = [counted EXCEPT ![w] = Nothing]
  /\ passed' = [passed EXCEPT ![w] = Nothing]

Serving(op) == {v \in Workers : req[v].op = op}
RoomForRow == Cardinality(Serving("insert")) + inserted < MaxRows

-------------------------------------------------------------------------------
(* What refers to a space, and is read or written on its own.              *)

(* Every handler that inserts reads the parent first.                      *)
SubmitInsert(w) ==
  /\ pc[w] = "idle" /\ RoomForRow
  /\ \E table \in Tables :
       \/ /\ table = "spaces"
          /\ Goto(w, "insert", [op |-> "insert", table |-> table, of |-> NoRow])
       \/ /\ table # "spaces"
          /\ \E p \in {k \in DOMAIN rows : rows[k].table = Parent[table]} :
               Goto(w, "insert", [op |-> "insert", table |-> table, of |-> p])
  /\ UNCHANGED <<rows, inserted, removals, ghosts>>

(* The foreign key refuses a row whose parent is gone.                     *)
(* Variant: it is not there.                                               *)
Insertable_NoForeignKey(r) == TRUE
Insertable(r) == r.of = NoRow \/ r.of \in DOMAIN rows

InsertRow(w) ==
  /\ pc[w] = "insert"
  /\ LET r == req[w]
         id == inserted + 1
     IN  IF Insertable(r)
         THEN /\ rows' = [k \in DOMAIN rows \union {id} |->
                           IF k = id THEN [table |-> r.table, of |-> r.of, active |-> TRUE]
                           ELSE rows[k]]
              /\ inserted' = id
         ELSE UNCHANGED <<rows, inserted>>
  /\ Finish(w)
  /\ UNCHANGED <<removals, lost, stripped, refused>>

(* A reservation is canceled or overridden, a blocking removed: the UPDATE *)
(* finds the row or does nothing, so it is merged with the reading.        *)
Settle ==
  /\ \E k \in DOMAIN rows :
       /\ rows[k].table \in {"reservations", "blockings"} /\ rows[k].active
       /\ rows' = [rows EXCEPT ![k].active = FALSE]
  /\ UNCHANGED <<inserted, removals, pc, req, ghosts>>

(* SpaceManagerService.remove, likewise. *)
Unassign ==
  /\ \E k \in DOMAIN rows :
       /\ rows[k].table = "space_managers"
       /\ rows' = Restrict(rows, DOMAIN rows \ {k})
  /\ UNCHANGED <<inserted, removals, pc, req, ghosts>>

-------------------------------------------------------------------------------
(* SpaceService.delete. *)

SubmitRemove(w) ==
  /\ pc[w] = "idle" /\ removals < MaxRemovals
  /\ removals' = removals + 1
  /\ \E s \in Spaces : Goto(w, "count", [op |-> "remove", space |-> s, step |-> 1])
  /\ UNCHANGED <<rows, inserted, ghosts>>

Counts == <<"reservations", "blockings">>
(* Variant: reservations only. *)
Holding_Reservations(table, space) ==
  {k \in RowsOf(table, space) : rows[k].active /\ table = "reservations"}
Holding(table, space) == {k \in RowsOf(table, space) : rows[k].active}

(* One count; what is confirmed or active answers 409.                     *)
CountActive(w) ==
  /\ pc[w] = "count"
  /\ LET r == req[w]
         table == Counts[r.step]
     IN  IF Holding(table, r.space) # {} THEN Finish(w)
         ELSE /\ IF r.step < Len(Counts) THEN Goto(w, "count", [r EXCEPT !.step = @ + 1])
                 ELSE Goto(w, "delete", [r EXCEPT !.step = 1])
              /\ counted' = [counted EXCEPT ![w][table] = inserted]
              /\ UNCHANGED passed
  /\ UNCHANGED <<rows, inserted, removals, lost, stripped, refused>>

(* The five statements, in their order.                                    *)
(* Variants: the managers go first; the blockings are forgotten.           *)
Deletions_ManagersFirst == <<"space_managers", "equipment", "reservations", "blockings", "spaces">>
Deletions_NoBlockings == <<"equipment", "space_managers", "reservations", "equipment", "spaces">>
Deletions == <<"equipment", "space_managers", "reservations", "blockings", "spaces">>

Doomed(table, space) ==
  IF table = "spaces" THEN Spaces \intersect {space} ELSE RowsOf(table, space)

DeleteRows(w) ==
  /\ pc[w] = "delete"
  /\ LET r == req[w]
         table == Deletions[r.step]
         doomed == Doomed(table, r.space)
         emptied == IF passed[w]["equipment"] = 0 THEN inserted ELSE passed[w]["equipment"]
         active == {k \in doomed : table \in {"reservations", "blockings"} /\ rows[k].active}
     IN  IF ReferredBy(doomed) # {}
         THEN /\ Finish(w)
              /\ refused' = refused \union
                   {[row |-> k, table |-> rows[k].table, since |-> passed[w][rows[k].table]] :
                      k \in ReferredBy(doomed)}
              /\ UNCHANGED <<rows, lost, stripped>>
         ELSE /\ rows' = Restrict(rows, DOMAIN rows \ doomed)
              /\ lost' = lost \union {[row |-> k, since |-> counted[w][table]] : k \in active}
              /\ stripped' =
                   IF doomed = {} \/ table = "spaces" THEN stripped
                   ELSE stripped \union {[space |-> r.space, since |-> emptied]}
              /\ IF r.step < Len(Deletions)
                 THEN /\ Goto(w, "delete", [r EXCEPT !.step = @ + 1])
                      /\ passed' = [passed EXCEPT ![w][table] = inserted]
                      /\ UNCHANGED counted
                 ELSE Finish(w)
              /\ UNCHANGED refused
  /\ UNCHANGED <<inserted, removals>>

(* A request that its first read refuses changes nothing.                  *)
RefuseRequest(w) == pc[w] = "idle" /\ UNCHANGED vars

(* A statement throws or the Worker is evicted: what ran, stays.           *)
Die(w) ==
  /\ pc[w] # "idle" /\ Finish(w)
  /\ UNCHANGED <<rows, inserted, removals, lost, stripped, refused>>

Next ==
  \/ Settle \/ Unassign
  \/ \E w \in Workers : \/ SubmitInsert(w) \/ InsertRow(w) \/ SubmitRemove(w)
                        \/ CountActive(w) \/ DeleteRows(w) \/ RefuseRequest(w) \/ Die(w)

Spec == Init /\ [][Next]_vars

-------------------------------------------------------------------------------
(* Properties. *)

Fits(label, request) ==
  CASE label = "idle" -> request = NoRequest
    [] label = "insert" -> request \in InsertRequest
    [] label \in {"count", "delete"} -> request \in RemoveRequest

(* Every table and handler has its type, and no row refers to one that is  *)
(* gone.                                                                   *)
TypeOK ==
  /\ inserted \in RowIds /\ removals \in 0 .. MaxRemovals
  /\ DOMAIN rows \subseteq 1 .. inserted /\ rows \in [DOMAIN rows -> Row]
  /\ \A k \in DOMAIN rows :
       rows[k].table # "spaces" =>
         /\ rows[k].of \in DOMAIN rows
         /\ rows[rows[k].of].table = Parent[rows[k].table]
  /\ pc \in [Workers -> {"idle", "insert", "count", "delete"}]
  /\ DOMAIN req = Workers /\ \A w \in Workers : Fits(pc[w], req[w])
  /\ counted \in [Workers -> [AllTables -> 0 .. inserted]]
  /\ passed \in [Workers -> [AllTables -> 0 .. inserted]]

(* "Reservas e bloqueios ativos impedem a remocao" (admin/views): a        *)
(* removal takes an active reservation or blocking with it only if it was  *)
(* inserted after the removal had counted them.                            *)
ActiveLostOnlyByRace == \A f \in lost : f.row > f.since

(* A removal that passed its counts is refused only because of what it     *)
(* does not delete (tickets, the history of an equipment, sensors), or of  *)
(* a row that was inserted after it had emptied the table.                 *)
RefusedByOutsiders ==
  \A f \in refused :
    \/ f.table \in {"room_tickets", "sensor_devices", "equipment_tickets",
                    "equipment_status_history"}
    \/ f.since # 0 /\ f.row > f.since

(* A removal that fails because an equipment has records costs nothing:    *)
(* the equipment goes first, so no space loses a row while it has a        *)
(* recorded equipment, except one that was registered since.               *)
RecordsProtectSpace ==
  \A k \in DOMAIN rows :
    rows[k].table \in {"equipment_tickets", "equipment_status_history"} =>
      \A f \in stripped : rows[rows[k].of].of = f.space => rows[k].of > f.since
===============================================================================
