--------------------------- MODULE SpaceRemovalProofs ---------------------------
(***************************************************************************)
(* What a removal of a space may cost, and why it fails, for any number of *)
(* rows and of simultaneous requests.                                      *)
(***************************************************************************)
EXTENDS SpaceRemoval, FiniteSetTheorems, TLAPS

LEMMA RemovalConstants ==
  /\ Tables \subseteq AllTables /\ IsFiniteSet(Workers)
  /\ MaxRows \in Nat \ {0} /\ MaxRemovals \in Nat
BY SpaceRemovalAssumption

LEMMA TablesDiffer ==
  /\ DOMAIN Parent = AllTables \ {"spaces"}
  /\ AllTables = {"spaces", "equipment", "space_managers", "reservations", "blockings",
                  "room_tickets", "sensor_devices", "equipment_tickets",
                  "equipment_status_history"}
  /\ \A table \in AllTables \ {"spaces"} :
       Parent[table] = IF table \in {"equipment_tickets", "equipment_status_history"}
                       THEN "equipment" ELSE "spaces"
BY DEF Parent, AllTables

-------------------------------------------------------------------------------
(* Types, strengthened by what a handler that inserts has read: a parent   *)
(* of the right table, if it is still there; and by the statement that a   *)
(* removal has come to.                                                    *)

Child(r) ==
  /\ r \in InsertRequest
  /\ IF r.table = "spaces" THEN r.of = NoRow
     ELSE r.of \in 1 .. inserted /\ (r.of \in DOMAIN rows => rows[r.of].table = Parent[r.table])
Removal(label, r) ==
  /\ r \in RemoveRequest /\ r.space \in 1 .. inserted
  /\ label = "count" => r.step <= Len(Counts)
Handles(label, r) ==
  CASE label = "idle" -> r = NoRequest
    [] label = "insert" -> Child(r)
    [] label \in {"count", "delete"} -> Removal(label, r)
    [] OTHER -> FALSE

RowsOK ==
  /\ inserted \in RowIds /\ removals \in 0 .. MaxRemovals
  /\ DOMAIN rows \subseteq 1 .. inserted /\ rows \in [DOMAIN rows -> Row]
  /\ \A k \in DOMAIN rows :
       IF rows[k].table = "spaces" THEN rows[k].of = NoRow
       ELSE rows[k].of \in DOMAIN rows /\ rows[rows[k].of].table = Parent[rows[k].table]
HandlersOK ==
  /\ pc \in [Workers -> {"idle", "insert", "count", "delete"}]
  /\ DOMAIN req = Workers /\ \A w \in Workers : Handles(pc[w], req[w])
NotesOK ==
  /\ counted \in [Workers -> [AllTables -> 0 .. inserted]]
  /\ passed \in [Workers -> [AllTables -> 0 .. inserted]]
  /\ \A f \in stripped : f.since \in 0 .. inserted
RoomLeft == Cardinality(Serving("insert")) + inserted <= MaxRows

TypeInvariant == RowsOK /\ HandlersOK /\ NotesOK /\ RoomLeft

-------------------------------------------------------------------------------
(* What a removal has counted it may find again only in younger rows, and  *)
(* what it has emptied, likewise; and no older equipment is left in a      *)
(* space that a removal has stripped of something.                         *)

CountedBy(label, step) ==
  {Counts[i] : i \in {i \in DOMAIN Counts : label = "delete" \/ (label = "count" /\ i < step)}}
CountsFor(label, r, row) ==
  \A table \in CountedBy(label, r.step) : \A k \in Holding(table, r.space) : k > row[table]
CountsKnown == \A w \in Workers : CountsFor(pc[w], req[w], counted[w])

EmptiedBy(label, step) ==
  {Deletions[i] : i \in {i \in DOMAIN Deletions : label = "delete" /\ i < step}}
PassedFor(label, r, row) ==
  \A table \in EmptiedBy(label, r.step) :
    /\ row[table] # 0
    /\ \A k \in RowsOf(table, r.space) : k > row[table]
PassedKnown == \A w \in Workers : PassedFor(pc[w], req[w], passed[w])

StrippedKnown ==
  \A f \in stripped : \A k \in RowsOf("equipment", f.space) : k > f.since
RemovalInvariant ==
  /\ CountsKnown /\ PassedKnown /\ StrippedKnown
  /\ ActiveLostOnlyByRace /\ RefusedByOutsiders

-------------------------------------------------------------------------------
(* What every step does to the rows: a number is not given out twice, and  *)
(* a row keeps its table and parent, and does not become active again.     *)
Evolves ==
  /\ inserted <= inserted'
  /\ \A k \in DOMAIN rows' :
       \/ k > inserted
       \/ /\ k \in DOMAIN rows /\ rows'[k].table = rows[k].table /\ rows'[k].of = rows[k].of
          /\ rows'[k].active => rows[k].active

LEMMA RowParts ==
  ASSUME RowsOK
  PROVE  /\ inserted \in Nat /\ inserted # 0 /\ inserted <= MaxRows
         /\ DOMAIN rows \subseteq 1 .. inserted
         /\ \A k \in DOMAIN rows : /\ rows[k] \in Row /\ rows[k].table \in AllTables
                                   /\ rows[k].active \in BOOLEAN /\ k \in Nat /\ k # NoRow
BY RemovalConstants DEF RowsOK, RowIds, Row, NoRow

LEMMA HandlesStable ==
  ASSUME RowsOK, RowsOK', Evolves, NEW label, NEW r, Handles(label, r)
  PROVE  Handles(label, r)'
<1>1. inserted \in Nat /\ inserted' \in Nat /\ inserted <= inserted'
  BY RemovalConstants DEF RowsOK, RowIds, Evolves
<1>2. CASE label = "insert"
  <2>1. Child(r) BY <1>2 DEF Handles
  <2>2. ASSUME r.table # "spaces", r.of \in DOMAIN rows'
        PROVE  rows'[r.of].table = Parent[r.table]
    <3>1. r.of \in 1 .. inserted BY <2>1, <2>2 DEF Child
    <3>2. r.of \in DOMAIN rows /\ rows'[r.of].table = rows[r.of].table
      BY <1>1, <2>2, <3>1 DEF Evolves
    <3> QED BY <2>1, <2>2, <3>2 DEF Child
  <2>3. Child(r)' BY <1>1, <2>1, <2>2 DEF Child
  <2> QED BY <1>2, <2>3 DEF Handles
<1>3. CASE label # "insert" BY <1>1, <1>3 DEF Handles, Removal
<1> QED BY <1>2, <1>3

LEMMA HandlersGo ==
  ASSUME TypeInvariant, RowsOK', Evolves, NEW w \in Workers,
         NEW to \in {"idle", "insert", "count", "delete"}, NEW request,
         Goto(w, to, request), Handles(to, request)'
  PROVE  HandlersOK'
<1>1. pc' \in [Workers -> {"idle", "insert", "count", "delete"}] /\ DOMAIN req' = Workers
  BY DEF TypeInvariant, HandlersOK, Goto
<1>2. ASSUME NEW v \in Workers PROVE Handles(pc[v], req[v])'
  <2>1. PICK label, r : label = pc'[v] /\ r = req'[v] OBVIOUS
  <2>2. CASE v = w
    <3>1. label = to /\ r = request BY <2>1, <2>2 DEF Goto, TypeInvariant, HandlersOK
    <3> QED BY <2>1, <3>1 DEF Handles, Child, Removal
  <2>3. CASE v # w
    <3>1. Handles(label, r) BY <2>1, <2>3 DEF Goto, TypeInvariant, HandlersOK
    <3>2. Handles(label, r)' BY <3>1, HandlesStable DEF TypeInvariant
    <3> QED BY <2>1, <3>2 DEF Handles, Child, Removal
  <2> QED BY <2>2, <2>3
<1> QED BY <1>1, <1>2 DEF HandlersOK

LEMMA HandlersStay ==
  ASSUME TypeInvariant, RowsOK', Evolves, UNCHANGED <<pc, req>>
  PROVE  HandlersOK'
<1>1. ASSUME NEW v \in Workers PROVE Handles(pc[v], req[v])'
  <2>1. PICK label, r : label = pc[v] /\ r = req[v] OBVIOUS
  <2>2. Handles(label, r) BY <2>1 DEF TypeInvariant, HandlersOK
  <2>3. Handles(label, r)' BY <2>2, HandlesStable DEF TypeInvariant
  <2> QED BY <2>1, <2>3 DEF Handles, Child, Removal
<1> QED BY <1>1 DEF TypeInvariant, HandlersOK

LEMMA RowsIdle ==
  ASSUME RowsOK, UNCHANGED <<rows, inserted, removals>>
  PROVE  RowsOK' /\ Evolves
BY RowParts DEF RowsOK, Evolves

(* A step that deletes rows, none of which another refers to.              *)
LEMMA RowsGone ==
  ASSUME RowsOK, NEW set, ReferredBy(set) = {}, rows' = Restrict(rows, DOMAIN rows \ set),
         UNCHANGED <<inserted, removals>>
  PROVE  RowsOK' /\ Evolves
<1>1. /\ DOMAIN rows' = DOMAIN rows \ set /\ \A k \in DOMAIN rows' : rows'[k] = rows[k]
      /\ rows' = [k \in DOMAIN rows' |-> rows'[k]]
  BY DEF Restrict
<1>2. rows' \in [DOMAIN rows' -> Row] BY <1>1, RowParts
<1>3. ASSUME NEW k \in DOMAIN rows'
      PROVE  IF rows'[k].table = "spaces" THEN rows'[k].of = NoRow
             ELSE /\ rows'[k].of \in DOMAIN rows'
                  /\ rows'[rows'[k].of].table = Parent[rows'[k].table]
  <2>1. k \in DOMAIN rows \ set /\ rows'[k] = rows[k] BY <1>1
  <2>2. CASE rows[k].table = "spaces" BY <2>1, <2>2 DEF RowsOK
  <2>3. CASE rows[k].table # "spaces"
    <3>1. rows[k].of \in DOMAIN rows /\ rows[rows[k].of].table = Parent[rows[k].table]
      BY <2>1, <2>3 DEF RowsOK
    <3>2. rows[k].of \notin set BY <2>1 DEF ReferredBy, Refers
    <3> QED BY <1>1, <2>1, <2>3, <3>1, <3>2
  <2> QED BY <2>2, <2>3
<1>4. RowsOK' BY <1>1, <1>2, <1>3, RowParts DEF RowsOK
<1>5. Evolves
  <2>1. inserted <= inserted' BY RowParts
  <2>2. \A k \in DOMAIN rows' : k \in DOMAIN rows /\ rows'[k] = rows[k] BY <1>1
  <2> QED BY <2>1, <2>2 DEF Evolves
<1> QED BY <1>4, <1>5

LEMMA UnassignRows ==
  ASSUME RowsOK, Unassign
  PROVE  RowsOK' /\ Evolves
<1>1. PICK k \in DOMAIN rows :
        rows[k].table = "space_managers" /\ rows' = Restrict(rows, DOMAIN rows \ {k})
  BY DEF Unassign
<1>2. ReferredBy({k}) = {}
  <2> SUFFICES ASSUME NEW x \in DOMAIN rows, rows[x].of = k PROVE FALSE
    BY DEF ReferredBy, Refers
  <2>1. rows[x].table # "spaces" BY RowParts DEF RowsOK
  <2>2. Parent[rows[x].table] = "space_managers" BY <1>1, <2>1 DEF RowsOK
  <2> QED BY <2>1, <2>2, RowParts, TablesDiffer
<1> QED BY <1>1, <1>2, RowsGone DEF Unassign

LEMMA SettleRows ==
  ASSUME RowsOK, Settle
  PROVE  RowsOK' /\ Evolves
<1>1. PICK k \in DOMAIN rows : rows' = [rows EXCEPT ![k] = [rows[k] EXCEPT !.active = FALSE]]
  BY DEF Settle
<1>2. /\ [rows[k] EXCEPT !.active = FALSE] \in Row
      /\ [rows[k] EXCEPT !.active = FALSE].table = rows[k].table
      /\ [rows[k] EXCEPT !.active = FALSE].of = rows[k].of
      /\ ~[rows[k] EXCEPT !.active = FALSE].active
  BY RowParts DEF Row
<1>3. DOMAIN rows' = DOMAIN rows /\ rows' \in [DOMAIN rows -> Row]
  BY <1>1, <1>2 DEF RowsOK
<1>4. \A x \in DOMAIN rows : /\ rows'[x].table = rows[x].table /\ rows'[x].of = rows[x].of
                             /\ rows'[x].active => rows[x].active
  BY <1>1, <1>2
<1>5. UNCHANGED <<inserted, removals>> BY DEF Settle
<1>6. RowsOK' BY <1>3, <1>4, <1>5 DEF RowsOK
<1> QED BY <1>3, <1>4, <1>5, <1>6, RowParts DEF Evolves

LEMMA InsertRows ==
  ASSUME RowsOK, NEW r, Child(r), Insertable(r), inserted < MaxRows, inserted' = inserted + 1,
         rows' = [k \in DOMAIN rows \union {inserted + 1} |->
                   IF k = inserted + 1 THEN [table |-> r.table, of |-> r.of, active |-> TRUE]
                   ELSE rows[k]],
         UNCHANGED removals
  PROVE  RowsOK' /\ Evolves
<1>1. PICK id : id = inserted + 1 OBVIOUS
<1>2. /\ id \in Nat /\ id > inserted /\ id \in RowIds /\ id \notin DOMAIN rows
      /\ \A k \in DOMAIN rows : k \in 1 .. id
  BY <1>1, RowParts, RemovalConstants DEF RowIds
<1>3. [table |-> r.table, of |-> r.of, active |-> TRUE] \in Row
  BY DEF Child, InsertRequest, Row
<1>4. /\ DOMAIN rows' = DOMAIN rows \union {id} /\ \A k \in DOMAIN rows : rows'[k] = rows[k]
      /\ rows'[id].table = r.table /\ rows'[id].of = r.of /\ rows'[id] \in Row
      /\ rows' = [k \in DOMAIN rows' |-> rows'[k]]
  BY <1>1, <1>2, <1>3
<1>5. rows' \in [DOMAIN rows' -> Row] BY <1>4, RowParts
<1>6. ASSUME NEW k \in DOMAIN rows'
      PROVE  IF rows'[k].table = "spaces" THEN rows'[k].of = NoRow
             ELSE /\ rows'[k].of \in DOMAIN rows'
                  /\ rows'[rows'[k].of].table = Parent[rows'[k].table]
  <2>1. CASE k = id
    <3>1. CASE r.table = "spaces" BY <1>4, <2>1, <3>1 DEF Child
    <3>2. CASE r.table # "spaces"
      <4>1. r.of \in 1 .. inserted BY <3>2 DEF Child
      <4>2. r.of # NoRow BY <4>1, RowParts DEF NoRow
      <4>3. r.of \in DOMAIN rows BY <4>2 DEF Insertable
      <4> QED BY <1>4, <2>1, <3>2, <4>3 DEF Child
    <3> QED BY <3>1, <3>2
  <2>2. CASE k \in DOMAIN rows BY <1>4, <2>2 DEF RowsOK
  <2> QED BY <1>4, <2>1, <2>2
<1>7. RowsOK'
  <2>1. inserted' \in RowIds /\ DOMAIN rows' \subseteq 1 .. inserted'
    <3>1. inserted' = id /\ id \in 1 .. id BY <1>1, <1>2, RowParts
    <3> QED BY <1>2, <1>4, <3>1
  <2>2. removals' \in 0 .. MaxRemovals BY DEF RowsOK
  <2> QED BY <1>5, <1>6, <2>1, <2>2 DEF RowsOK
<1>8. Evolves
  <2>1. inserted <= inserted' BY <1>1, <1>2, RowParts
  <2>2. \A k \in DOMAIN rows' : k > inserted \/ (k \in DOMAIN rows /\ rows'[k] = rows[k])
    BY <1>2, <1>4
  <2> QED BY <2>1, <2>2 DEF Evolves
<1> QED BY <1>7, <1>8

-------------------------------------------------------------------------------
(* Types. *)

LEMMA RemovalStep ==
  /\ DOMAIN Counts = 1 .. 2 /\ Len(Counts) = 2
  /\ Counts[1] = "reservations" /\ Counts[2] = "blockings"
  /\ DOMAIN Deletions = 1 .. 5 /\ Len(Deletions) = 5
  /\ Deletions[1] = "equipment" /\ Deletions[2] = "space_managers"
  /\ Deletions[3] = "reservations" /\ Deletions[4] = "blockings" /\ Deletions[5] = "spaces"
BY DEF Counts, Deletions

LEMMA HandlerParts ==
  ASSUME TypeInvariant, NEW w \in Workers
  PROVE  /\ pc[w] = "insert" => Child(req[w]) /\ req[w].op = "insert"
         /\ pc[w] \in {"count", "delete"} =>
              /\ req[w] \in RemoveRequest /\ req[w].space \in 1 .. inserted
              /\ req[w].step \in 1 .. 5 /\ req[w].op = "remove"
         /\ pc[w] = "count" => req[w].step \in 1 .. 2
<1>1. Handles(pc[w], req[w]) BY DEF TypeInvariant, HandlersOK
<1> QED BY <1>1, RemovalStep DEF Handles, Child, Removal, InsertRequest, RemoveRequest

LEMMA ServingFinite ==
  /\ IsFiniteSet(Serving("insert")) /\ Cardinality(Serving("insert")) \in Nat
  /\ IsFiniteSet(Serving("insert")') /\ Cardinality(Serving("insert")') \in Nat
BY RemovalConstants, FS_Subset, FS_CardinalityType DEF Serving

LEMMA RoomKept ==
  ASSUME TypeInvariant, inserted' = inserted, Serving("insert")' \subseteq Serving("insert")
  PROVE  RoomLeft'
<1> DEFINE S == Serving("insert")
           T == Serving("insert")'
<1>1. /\ IsFiniteSet(S) /\ Cardinality(S) \in Nat /\ Cardinality(T) \in Nat /\ T \subseteq S
      /\ Cardinality(S) + inserted <= MaxRows
  BY ServingFinite DEF TypeInvariant, RoomLeft
<1>2. inserted \in Nat /\ MaxRows \in Nat BY RowParts, RemovalConstants DEF TypeInvariant
<1> HIDE DEF S, T
<1>3. Cardinality(T) <= Cardinality(S) BY <1>1, FS_Subset
<1>4. Cardinality(T) + inserted' <= MaxRows BY <1>1, <1>2, <1>3
<1> QED BY <1>4 DEF RoomLeft, T

LEMMA NotesFinish ==
  ASSUME TypeInvariant, RowsOK', inserted <= inserted', NEW w \in Workers, Finish(w),
         \A f \in stripped' : f \in stripped \/ f.since \in 0 .. inserted'
  PROVE  NotesOK'
<1>1. inserted \in Nat /\ inserted' \in Nat
  BY RowParts, RemovalConstants DEF TypeInvariant, RowsOK, RowIds
<1>2. 0 .. inserted \subseteq 0 .. inserted' /\ 0 \in 0 .. inserted' BY <1>1
<1>3. Nothing \in [AllTables -> 0 .. inserted'] BY <1>2 DEF Nothing
<1>4. [AllTables -> 0 .. inserted] \subseteq [AllTables -> 0 .. inserted'] BY <1>2
<1>5. /\ counted' \in [Workers -> [AllTables -> 0 .. inserted']]
      /\ passed' \in [Workers -> [AllTables -> 0 .. inserted']]
  BY <1>3, <1>4 DEF TypeInvariant, NotesOK, Finish
<1> QED BY <1>2, <1>5 DEF TypeInvariant, NotesOK

(* A request that ends, or dies.                                           *)
LEMMA FinishType ==
  ASSUME TypeInvariant, RowsOK', Evolves, inserted' = inserted, NEW w \in Workers, Finish(w),
         \A f \in stripped' : f \in stripped \/ f.since \in 0 .. inserted
  PROVE  TypeInvariant'
<1>1. Goto(w, "idle", NoRequest) /\ Handles("idle", NoRequest)' BY DEF Finish, Handles
<1>2. HandlersOK' BY <1>1, HandlersGo
<1>3. inserted \in Nat BY RowParts DEF TypeInvariant
<1>4. NotesOK' BY <1>3, NotesFinish
<1>5. Serving("insert")' \subseteq Serving("insert")
  BY <1>1 DEF Serving, Goto, NoRequest, TypeInvariant, HandlersOK
<1> QED BY <1>2, <1>4, <1>5, RoomKept DEF TypeInvariant

LEMMA StayType ==
  ASSUME TypeInvariant, RowsOK', Evolves, UNCHANGED <<inserted, pc, req, counted, passed, stripped>>
  PROVE  TypeInvariant'
<1>1. HandlersOK' BY HandlersStay
<1>2. NotesOK' BY DEF TypeInvariant, NotesOK
<1>3. RoomLeft' BY DEF TypeInvariant, RoomLeft, Serving
<1> QED BY <1>1, <1>2, <1>3 DEF TypeInvariant

LEMMA SubmitInsertType ==
  ASSUME TypeInvariant, NEW w \in Workers, SubmitInsert(w)
  PROVE  TypeInvariant'
<1>1. UNCHANGED <<rows, inserted, removals, counted, passed, stripped>>
  BY DEF SubmitInsert, ghosts
<1>2. RowsOK' /\ Evolves BY <1>1, RowsIdle DEF TypeInvariant
<1>3. PICK r : Goto(w, "insert", r) /\ Child(r) /\ r.op = "insert"
  <2>1. CASE Goto(w, "insert", [op |-> "insert", table |-> "spaces", of |-> NoRow])
    <3>1. Child([op |-> "insert", table |-> "spaces", of |-> NoRow])
      BY TablesDiffer DEF Child, InsertRequest
    <3> QED BY <2>1, <3>1
  <2>2. CASE \E table \in Tables : \E p \in {k \in DOMAIN rows : rows[k].table = Parent[table]} :
               table # "spaces" /\ Goto(w, "insert", [op |-> "insert", table |-> table, of |-> p])
    <3>1. PICK table \in Tables, p \in DOMAIN rows :
            /\ rows[p].table = Parent[table] /\ table # "spaces"
            /\ Goto(w, "insert", [op |-> "insert", table |-> table, of |-> p])
      BY <2>2
    <3>2. p \in 1 .. inserted /\ p \in RowIds /\ table \in AllTables
      BY <3>1, RowParts, RemovalConstants DEF TypeInvariant, RowIds
    <3>3. Child([op |-> "insert", table |-> table, of |-> p])
      BY <3>1, <3>2 DEF Child, InsertRequest
    <3> QED BY <3>1, <3>3
  <2> QED BY <2>1, <2>2 DEF SubmitInsert
<1>4. Handles("insert", r)
  BY <1>3 DEF Handles
<1>5. Handles("insert", r)' BY <1>2, <1>4, HandlesStable DEF TypeInvariant
<1>6. HandlersOK' BY <1>2, <1>3, <1>5, HandlersGo
<1>7. NotesOK' BY <1>1 DEF TypeInvariant, NotesOK
<1>8. RoomLeft'
  <2> DEFINE S == Serving("insert")
             T == Serving("insert")'
  <2>1. T \subseteq S \union {w} BY <1>3 DEF Serving, Goto, TypeInvariant, HandlersOK
  <2>2. /\ IsFiniteSet(S) /\ Cardinality(S) \in Nat /\ Cardinality(T) \in Nat
        /\ Cardinality(S) + inserted < MaxRows /\ inserted' = inserted
    BY <1>1, ServingFinite DEF SubmitInsert, RoomForRow
  <2>3. inserted \in Nat /\ MaxRows \in Nat BY RowParts, RemovalConstants DEF TypeInvariant
  <2> HIDE DEF S, T
  <2>4. IsFiniteSet(S \union {w}) /\ Cardinality(S \union {w}) <= Cardinality(S) + 1
    <3>1. /\ IsFiniteSet(S \union {w})
          /\ Cardinality(S \union {w}) = IF w \in S THEN Cardinality(S) ELSE Cardinality(S) + 1
      BY <2>2, FS_AddElement
    <3> QED BY <2>2, <3>1
  <2>5. Cardinality(T) <= Cardinality(S \union {w}) /\ Cardinality(S \union {w}) \in Nat
    BY <2>1, <2>4, FS_Subset, FS_CardinalityType
  <2>6. Cardinality(T) + inserted' <= MaxRows BY <2>2, <2>3, <2>4, <2>5
  <2> QED BY <2>6 DEF RoomLeft, T
<1> QED BY <1>2, <1>6, <1>7, <1>8 DEF TypeInvariant

(* A row is inserted, or refused: the request has used up its room.        *)
LEMMA InsertParts ==
  ASSUME TypeInvariant, NEW w \in Workers, InsertRow(w)
  PROVE  /\ RowsOK' /\ Evolves /\ (inserted' = inserted \/ inserted' = inserted + 1)
         /\ Cardinality(Serving("insert")') + inserted' <= MaxRows
<1>1. PICK r : r = req[w] OBVIOUS
<1>2. Child(r) /\ r.op = "insert" /\ w \in Serving("insert")
  BY <1>1, HandlerParts DEF InsertRow, Serving
<1> DEFINE S == Serving("insert")
           T == Serving("insert")'
<1>3. T \subseteq S \ {w}
  BY DEF InsertRow, Finish, Goto, Serving, TypeInvariant, HandlersOK, NoRequest
<1>4. /\ IsFiniteSet(S) /\ Cardinality(S) \in Nat /\ Cardinality(T) \in Nat
      /\ Cardinality(S) + inserted <= MaxRows
  BY ServingFinite DEF TypeInvariant, RoomLeft
<1>5. inserted \in Nat /\ MaxRows \in Nat BY RowParts, RemovalConstants DEF TypeInvariant
<1>6. w \in S BY <1>2
<1> HIDE DEF S, T
<1>7. /\ IsFiniteSet(S \ {w}) /\ Cardinality(S \ {w}) = Cardinality(S) - 1
  BY <1>4, <1>6, FS_RemoveElement
<1>8. Cardinality(T) <= Cardinality(S \ {w}) BY <1>3, <1>7, FS_Subset
<1>9. inserted < MaxRows /\ Cardinality(T) + inserted + 1 <= MaxRows
  BY <1>4, <1>5, <1>7, <1>8
<1>10. CASE Insertable(r)
  <2>1. /\ inserted' = inserted + 1 /\ UNCHANGED removals
        /\ rows' = [k \in DOMAIN rows \union {inserted + 1} |->
                      IF k = inserted + 1 THEN [table |-> r.table, of |-> r.of, active |-> TRUE]
                      ELSE rows[k]]
    BY <1>1, <1>10 DEF InsertRow
  <2>2. RowsOK' /\ Evolves BY <1>2, <1>9, <1>10, <2>1, InsertRows DEF TypeInvariant
  <2>3. Cardinality(T) + inserted' <= MaxRows BY <1>4, <1>5, <1>9, <2>1
  <2> QED BY <2>1, <2>2, <2>3 DEF T
<1>11. CASE ~Insertable(r)
  <2>1. UNCHANGED <<rows, inserted, removals>> BY <1>1, <1>11 DEF InsertRow
  <2>2. RowsOK' /\ Evolves BY <2>1, RowsIdle DEF TypeInvariant
  <2>3. Cardinality(T) + inserted' <= MaxRows BY <1>4, <1>5, <1>9, <2>1
  <2> QED BY <2>1, <2>2, <2>3 DEF T
<1> QED BY <1>10, <1>11

LEMMA InsertRowType ==
  ASSUME TypeInvariant, NEW w \in Workers, InsertRow(w)
  PROVE  TypeInvariant'
<1>1. RowsOK' /\ Evolves /\ inserted <= inserted' BY InsertParts DEF Evolves
<1>2. RoomLeft' BY InsertParts DEF RoomLeft
<1>3. Finish(w) /\ stripped' = stripped BY DEF InsertRow
<1>4. Goto(w, "idle", NoRequest) /\ Handles("idle", NoRequest)' BY <1>3 DEF Finish, Handles
<1>5. HandlersOK' BY <1>1, <1>4, HandlersGo
<1>6. NotesOK' BY <1>1, <1>3, NotesFinish
<1> QED BY <1>1, <1>2, <1>5, <1>6 DEF TypeInvariant

LEMMA SubmitRemoveType ==
  ASSUME TypeInvariant, NEW w \in Workers, SubmitRemove(w)
  PROVE  TypeInvariant'
<1>1. UNCHANGED <<rows, inserted, counted, passed, stripped>> /\ removals' = removals + 1
      /\ removals < MaxRemovals
  BY DEF SubmitRemove, ghosts
<1>2. RowsOK' /\ Evolves
  <2>1. removals' \in 0 .. MaxRemovals BY <1>1, RemovalConstants DEF TypeInvariant, RowsOK
  <2>2. RowsOK' BY <1>1, <2>1 DEF TypeInvariant, RowsOK
  <2> QED BY <1>1, <2>2, RowParts DEF TypeInvariant, Evolves
<1>3. PICK r : Goto(w, "count", r) /\ Removal("count", r) /\ r.op = "remove"
  <2>1. PICK s \in Spaces : Goto(w, "count", [op |-> "remove", space |-> s, step |-> 1])
    BY DEF SubmitRemove
  <2>2. s \in 1 .. inserted /\ s \in RowIds
    BY <2>1, RowParts, RemovalConstants DEF Spaces, RowsOf, RowIds, TypeInvariant
  <2>3. Removal("count", [op |-> "remove", space |-> s, step |-> 1])
    BY <2>2, RemovalStep DEF Removal, RemoveRequest
  <2> QED BY <2>1, <2>3
<1>4. Handles("count", r) BY <1>3 DEF Handles
<1>5. Handles("count", r)' BY <1>2, <1>4, HandlesStable DEF TypeInvariant
<1>6. HandlersOK' BY <1>2, <1>3, <1>5, HandlersGo
<1>7. NotesOK' BY <1>1 DEF TypeInvariant, NotesOK
<1>8. Serving("insert")' \subseteq Serving("insert")
  BY <1>3 DEF Serving, Goto, TypeInvariant, HandlersOK
<1> QED BY <1>1, <1>2, <1>6, <1>7, <1>8, RoomKept DEF TypeInvariant

(* The removal goes on to its next count or deletion.                      *)
LEMMA GoOnType ==
  ASSUME TypeInvariant, RowsOK', Evolves, inserted' = inserted, NEW w \in Workers,
         pc[w] \in {"count", "delete"}, NEW to \in {"count", "delete"}, NEW step \in 1 .. 5,
         to = "count" => step <= 2,
         Goto(w, to, [req[w] EXCEPT !.step = step]), NEW table \in AllTables,
         \/ counted' = [counted EXCEPT ![w][table] = inserted] /\ UNCHANGED passed
         \/ passed' = [passed EXCEPT ![w][table] = inserted] /\ UNCHANGED counted,
         \A f \in stripped' : f \in stripped \/ f.since \in 0 .. inserted
  PROVE  TypeInvariant'
<1>1. PICK r : r = [req[w] EXCEPT !.step = step] OBVIOUS
<1>2. r \in RemoveRequest /\ r.space = req[w].space /\ r.step = step /\ r.op = "remove"
  BY <1>1, HandlerParts DEF RemoveRequest
<1>3. Handles(to, r)
  <2>1. r.space \in 1 .. inserted BY <1>2, HandlerParts
  <2> QED BY <1>2, <2>1, RemovalStep DEF Handles, Removal
<1>4. Handles(to, r)' BY <1>3, HandlesStable DEF TypeInvariant
<1>5. HandlersOK' BY <1>1, <1>4, HandlersGo
<1>6. inserted \in 0 .. inserted BY RowParts DEF TypeInvariant
<1>7. NotesOK'
  <2>1. \A row \in [AllTables -> 0 .. inserted] :
          [row EXCEPT ![table] = inserted] \in [AllTables -> 0 .. inserted]
    BY <1>6
  <2>2. \A f \in [Workers -> [AllTables -> 0 .. inserted]] :
          [f EXCEPT ![w] = [f[w] EXCEPT ![table] = inserted]]
            \in [Workers -> [AllTables -> 0 .. inserted]]
    BY <2>1
  <2>3. counted' \in [Workers -> [AllTables -> 0 .. inserted]]
        /\ passed' \in [Workers -> [AllTables -> 0 .. inserted]]
    BY <2>2 DEF TypeInvariant, NotesOK
  <2>4. \A f \in stripped' : f.since \in 0 .. inserted BY DEF TypeInvariant, NotesOK
  <2> QED BY <2>3, <2>4 DEF NotesOK
<1>8. Serving("insert")' \subseteq Serving("insert")
  BY <1>1, <1>2 DEF Serving, Goto, TypeInvariant, HandlersOK
<1> QED BY <1>5, <1>7, <1>8, RoomKept DEF TypeInvariant

LEMMA CountType ==
  ASSUME TypeInvariant, NEW w \in Workers, CountActive(w)
  PROVE  TypeInvariant'
<1>1. PICK r : r = req[w] OBVIOUS
<1>2. UNCHANGED <<rows, inserted, removals, stripped>> /\ pc[w] = "count" BY DEF CountActive
<1>3. RowsOK' /\ Evolves BY <1>2, RowsIdle DEF TypeInvariant
<1>4. r.step \in 1 .. 2 BY <1>1, <1>2, HandlerParts
<1>5. CASE Holding(Counts[r.step], r.space) # {}
  <2>1. Finish(w) BY <1>1, <1>5 DEF CountActive
  <2> QED BY <1>2, <1>3, <2>1, FinishType
<1>6. CASE Holding(Counts[r.step], r.space) = {}
  <2>1. PICK table : table = Counts[r.step] OBVIOUS
  <2>2. table \in AllTables BY <1>4, <2>1, RemovalStep, TablesDiffer
  <2>3. counted' = [counted EXCEPT ![w][table] = inserted] /\ UNCHANGED passed
    BY <1>1, <1>6, <2>1 DEF CountActive
  <2>4. CASE r.step < 2
    <3>1. Goto(w, "count", [req[w] EXCEPT !.step = 2])
      <4>1. Goto(w, "count", [req[w] EXCEPT !.step = req[w].step + 1])
        BY <1>1, <1>6, <2>4, RemovalStep DEF CountActive
      <4>2. req[w].step + 1 = 2 BY <1>1, <1>4, <2>4
      <4> QED BY <4>1, <4>2
    <3>2. 2 \in 1 .. 5 /\ 2 <= 2 /\ \A f \in stripped' : f \in stripped BY <1>2
    <3> QED BY <1>2, <1>3, <2>2, <2>3, <3>1, <3>2, GoOnType
  <2>5. CASE ~(r.step < 2)
    <3>1. Goto(w, "delete", [req[w] EXCEPT !.step = 1])
      BY <1>1, <1>6, <2>5, RemovalStep DEF CountActive
    <3>2. 1 \in 1 .. 5 /\ \A f \in stripped' : f \in stripped BY <1>2
    <3> QED BY <1>2, <1>3, <2>2, <2>3, <3>1, <3>2, GoOnType
  <2> QED BY <2>4, <2>5
<1> QED BY <1>5, <1>6

(* A statement of a removal, if it is not refused.                         *)
Table(w) == Deletions[req[w].step]
DoomedBy(w) == Doomed(Table(w), req[w].space)
Emptied(w) == IF passed[w]["equipment"] = 0 THEN inserted ELSE passed[w]["equipment"]
Taken(w) == {k \in DoomedBy(w) : Table(w) \in {"reservations", "blockings"} /\ rows[k].active}

LEMMA DeleteParts ==
  ASSUME TypeInvariant, NEW w \in Workers, DeleteRows(w)
  PROVE  /\ RowsOK' /\ Evolves /\ UNCHANGED <<inserted, removals>> /\ pc[w] = "delete"
         /\ req[w].step \in 1 .. 5 /\ Table(w) \in AllTables
         /\ ReferredBy(DoomedBy(w)) # {} =>
              /\ Finish(w) /\ UNCHANGED <<rows, lost, stripped>>
              /\ refused' = refused \union
                   {[row |-> k, table |-> rows[k].table, since |-> passed[w][rows[k].table]] :
                      k \in ReferredBy(DoomedBy(w))}
         /\ ReferredBy(DoomedBy(w)) = {} =>
              /\ DOMAIN rows' = DOMAIN rows \ DoomedBy(w) /\ UNCHANGED refused
              /\ \A k \in DOMAIN rows' : rows'[k] = rows[k]
              /\ lost' = lost \union {[row |-> k, since |-> counted[w][Table(w)]] : k \in Taken(w)}
              /\ stripped' = IF DoomedBy(w) = {} \/ Table(w) = "spaces" THEN stripped
                             ELSE stripped \union {[space |-> req[w].space, since |-> Emptied(w)]}
              /\ \/ req[w].step = 5 /\ Finish(w)
                 \/ /\ req[w].step < 5 /\ Goto(w, "delete", [req[w] EXCEPT !.step = req[w].step + 1])
                    /\ passed' = [passed EXCEPT ![w][Table(w)] = inserted] /\ UNCHANGED counted
<1>1. pc[w] = "delete" /\ UNCHANGED <<inserted, removals>> BY DEF DeleteRows, Table, DoomedBy
<1>2. req[w].step \in 1 .. 5 BY <1>1, HandlerParts
<1>3. Table(w) \in AllTables BY <1>2, RemovalStep, TablesDiffer DEF Table
<1>4. ASSUME ReferredBy(DoomedBy(w)) # {}
      PROVE  /\ Finish(w) /\ UNCHANGED <<rows, lost, stripped>>
             /\ refused' = refused \union
                   {[row |-> k, table |-> rows[k].table, since |-> passed[w][rows[k].table]] :
                      k \in ReferredBy(DoomedBy(w))}
  BY <1>4 DEF DeleteRows, Table, DoomedBy
<1>5. ASSUME ReferredBy(DoomedBy(w)) = {}
      PROVE  /\ rows' = Restrict(rows, DOMAIN rows \ DoomedBy(w)) /\ UNCHANGED refused
             /\ lost' = lost \union {[row |-> k, since |-> counted[w][Table(w)]] : k \in Taken(w)}
             /\ stripped' = IF DoomedBy(w) = {} \/ Table(w) = "spaces" THEN stripped
                            ELSE stripped \union {[space |-> req[w].space, since |-> Emptied(w)]}
  BY <1>5 DEF DeleteRows, Table, DoomedBy, Emptied, Taken
<1>6. ASSUME ReferredBy(DoomedBy(w)) = {}
      PROVE  \/ req[w].step = 5 /\ Finish(w)
             \/ /\ req[w].step < 5 /\ Goto(w, "delete", [req[w] EXCEPT !.step = req[w].step + 1])
                /\ passed' = [passed EXCEPT ![w][Table(w)] = inserted] /\ UNCHANGED counted
  <2>1. CASE req[w].step < 5 BY <1>6, <2>1, RemovalStep DEF DeleteRows, Table, DoomedBy
  <2>2. CASE ~(req[w].step < 5) BY <1>2, <1>6, <2>2, RemovalStep DEF DeleteRows, Table, DoomedBy
  <2> QED BY <2>1, <2>2
<1>7. RowsOK' /\ Evolves
  <2>1. CASE ReferredBy(DoomedBy(w)) # {} BY <1>1, <1>4, <2>1, RowsIdle DEF TypeInvariant
  <2>2. CASE ReferredBy(DoomedBy(w)) = {} BY <1>1, <1>5, <2>2, RowsGone DEF TypeInvariant
  <2> QED BY <2>1, <2>2
<1>8. ReferredBy(DoomedBy(w)) = {} =>
        DOMAIN rows' = DOMAIN rows \ DoomedBy(w) /\ \A k \in DOMAIN rows' : rows'[k] = rows[k]
  BY <1>5 DEF Restrict
<1> QED BY <1>1, <1>2, <1>3, <1>4, <1>5, <1>6, <1>7, <1>8

LEMMA DeleteType ==
  ASSUME TypeInvariant, NEW w \in Workers, DeleteRows(w)
  PROVE  TypeInvariant'
<1>1. /\ RowsOK' /\ Evolves /\ inserted' = inserted /\ pc[w] = "delete"
      /\ req[w].step \in 1 .. 5 /\ Table(w) \in AllTables
  BY DeleteParts
<1>2. Emptied(w) \in 0 .. inserted
  <2>1. inserted \in 0 .. inserted BY RowParts DEF TypeInvariant
  <2>2. passed[w]["equipment"] \in 0 .. inserted BY TablesDiffer DEF TypeInvariant, NotesOK
  <2> QED BY <2>1, <2>2 DEF Emptied
<1>3. CASE ReferredBy(DoomedBy(w)) # {}
  <2>1. Finish(w) /\ UNCHANGED stripped BY <1>3, DeleteParts
  <2> QED BY <1>1, <2>1, FinishType
<1>4. CASE ReferredBy(DoomedBy(w)) = {}
  <2>1. \A f \in stripped' : f \in stripped \/ f.since \in 0 .. inserted
    <3>1. \/ stripped' = stripped
          \/ stripped' = stripped \union {[space |-> req[w].space, since |-> Emptied(w)]}
      BY <1>4, DeleteParts
    <3> QED BY <1>2, <3>1
  <2>2. CASE Finish(w) BY <1>1, <2>1, <2>2, FinishType
  <2>3. CASE ~Finish(w)
    <3>1. /\ Goto(w, "delete", [req[w] EXCEPT !.step = req[w].step + 1]) /\ req[w].step < 5
          /\ passed' = [passed EXCEPT ![w][Table(w)] = inserted] /\ UNCHANGED counted
      BY <1>4, <2>3, DeleteParts
    <3>2. PICK step \in 1 .. 5 : step = req[w].step + 1 BY <1>1, <3>1
    <3>3. Goto(w, "delete", [req[w] EXCEPT !.step = step]) BY <3>1, <3>2
    <3>4. PICK table \in AllTables : table = Table(w) BY <1>1
    <3>5. passed' = [passed EXCEPT ![w][table] = inserted] BY <3>1, <3>4
    <3> QED BY <1>1, <2>1, <3>1, <3>3, <3>5, GoOnType
  <2> QED BY <2>2, <2>3
<1> QED BY <1>3, <1>4

LEMMA TypeInit == Init => TypeInvariant
<1> SUFFICES ASSUME Init PROVE TypeInvariant
  OBVIOUS
<1>1. /\ inserted = 1 /\ removals = 0 /\ DOMAIN rows = {1}
      /\ rows[1] = [table |-> "spaces", of |-> NoRow, active |-> TRUE]
      /\ rows = [k \in {1} |-> rows[1]]
  BY DEF Init
<1>2. rows[1] \in Row BY <1>1, TablesDiffer DEF Row
<1>3. RowsOK
  <2>1. rows \in [DOMAIN rows -> Row] BY <1>1, <1>2
  <2> QED BY <1>1, <2>1, RemovalConstants DEF RowsOK, RowIds
<1>4. HandlersOK BY DEF Init, HandlersOK, Handles
<1>5. NotesOK BY <1>1 DEF Init, NotesOK, Nothing
<1>6. Serving("insert") = {} BY DEF Init, Serving, NoRequest
<1>7. RoomLeft BY <1>1, <1>6, FS_EmptySet, RemovalConstants DEF RoomLeft
<1> QED BY <1>3, <1>4, <1>5, <1>7 DEF TypeInvariant

LEMMA TypeNext == TypeInvariant /\ [Next]_vars => TypeInvariant'
<1> SUFFICES ASSUME TypeInvariant, [Next]_vars PROVE TypeInvariant'
  OBVIOUS
<1>1. CASE Settle \/ Unassign
  <2>1. UNCHANGED <<inserted, pc, req, counted, passed, stripped>>
    BY <1>1 DEF Settle, Unassign, ghosts
  <2> QED BY <1>1, <2>1, SettleRows, UnassignRows, StayType DEF TypeInvariant
<1>2. CASE UNCHANGED vars
  <2>1. UNCHANGED <<rows, inserted, removals, pc, req, counted, passed, stripped>>
    BY <1>2 DEF vars, ghosts
  <2> QED BY <2>1, RowsIdle, StayType DEF TypeInvariant
<1>3. ASSUME NEW w \in Workers, RefuseRequest(w) PROVE TypeInvariant'
  BY <1>2, <1>3 DEF RefuseRequest
<1>4. ASSUME NEW w \in Workers, Die(w) PROVE TypeInvariant'
  <2>1. UNCHANGED <<rows, inserted, removals, stripped>> /\ Finish(w) BY <1>4 DEF Die
  <2> QED BY <2>1, RowsIdle, FinishType DEF TypeInvariant
<1> QED BY <1>1, <1>2, <1>3, <1>4, SubmitInsertType, InsertRowType, SubmitRemoveType, CountType,
           DeleteType
        DEF Next

LEMMA TypeAlways == Spec => []TypeInvariant
BY TypeInit, TypeNext, PTL DEF Spec

(* Every table and handler has its type, and no row refers to one that is  *)
(* gone: the foreign keys stand between a space being removed and the      *)
(* handlers that insert rows for it, and no statement of a removal leaves  *)
(* a row behind.                                                           *)
THEOREM RemovalTypeCorrect == Spec => []TypeOK
<1>1. TypeInvariant => TypeOK
  <2> SUFFICES ASSUME TypeInvariant PROVE TypeOK
    OBVIOUS
  <2>1. \A w \in Workers : Fits(pc[w], req[w])
    BY DEF TypeInvariant, HandlersOK, Handles, Child, Removal, Fits
  <2> QED BY <2>1 DEF TypeInvariant, RowsOK, HandlersOK, NotesOK, TypeOK
<1> QED BY <1>1, TypeAlways, PTL

-------------------------------------------------------------------------------
(* What a removal may cost. *)

LEMMA CountedTables ==
  /\ \A label, step : CountedBy(label, step) \subseteq {"reservations", "blockings"}
  /\ \A label, step : label \notin {"count", "delete"} => CountedBy(label, step) = {}
  /\ CountedBy("count", 1) = {} /\ CountedBy("count", 2) = {"reservations"}
  /\ \A step : CountedBy("delete", step) = {"reservations", "blockings"}
<1>1. \A i \in 1 .. 2 : i = 1 \/ i = 2 OBVIOUS
<1> QED BY <1>1, RemovalStep DEF CountedBy

LEMMA EmptiedTables ==
  /\ \A label, step : EmptiedBy(label, step) \subseteq AllTables
  /\ \A label, step : label # "delete" => EmptiedBy(label, step) = {}
  /\ EmptiedBy("delete", 1) = {}
  /\ \A step \in 1 .. 4 :
       EmptiedBy("delete", step + 1) = EmptiedBy("delete", step) \union {Deletions[step]}
  /\ \A step \in 2 .. 5 : "equipment" \in EmptiedBy("delete", step)
  /\ EmptiedBy("delete", 5) = {"equipment", "space_managers", "reservations", "blockings"}
<1>1. \A i \in 1 .. 5 : i = 1 \/ i = 2 \/ i = 3 \/ i = 4 \/ i = 5 OBVIOUS
<1>2. \A label, step : EmptiedBy(label, step) \subseteq AllTables
  BY <1>1, RemovalStep, TablesDiffer DEF EmptiedBy
<1>3. \A label, step : label # "delete" => EmptiedBy(label, step) = {} BY DEF EmptiedBy
<1>4. EmptiedBy("delete", 1) = {} BY RemovalStep DEF EmptiedBy
<1>5. \A step \in 1 .. 4 :
        EmptiedBy("delete", step + 1) = EmptiedBy("delete", step) \union {Deletions[step]}
  BY RemovalStep DEF EmptiedBy
<1>6. \A step \in 2 .. 5 : "equipment" \in EmptiedBy("delete", step)
  BY RemovalStep DEF EmptiedBy
<1>7. EmptiedBy("delete", 5) = {"equipment", "space_managers", "reservations", "blockings"}
  BY <1>1, RemovalStep DEF EmptiedBy
<1> QED BY <1>2, <1>3, <1>4, <1>5, <1>6, <1>7

LEMMA RowsEvolve ==
  ASSUME RowsOK', Evolves, NEW table, NEW space
  PROVE  /\ \A k \in RowsOf(table, space)' :
              k \in Nat /\ (k \in RowsOf(table, space) \/ k > inserted)
         /\ \A k \in Holding(table, space)' :
              k \in Nat /\ (k \in Holding(table, space) \/ k > inserted)
<1>1. \A k \in DOMAIN rows' : k \in Nat BY DEF RowsOK, RowIds
<1> QED BY <1>1 DEF Evolves, RowsOf, Holding

LEMMA NotesKept ==
  ASSUME TypeInvariant, RowsOK', Evolves, NEW label, NEW r, NEW c \in [AllTables -> 0 .. inserted],
         NEW p \in [AllTables -> 0 .. inserted], CountsFor(label, r, c), PassedFor(label, r, p)
  PROVE  CountsFor(label, r, c)' /\ PassedFor(label, r, p)'
<1>1. \A k \in Nat : k > inserted => \A n \in 0 .. inserted : k > n
  <2>1. inserted \in Nat BY RowParts DEF TypeInvariant
  <2> QED BY <2>1
<1>2. ASSUME NEW table \in CountedBy(label, r.step), NEW k \in Holding(table, r.space)'
      PROVE  k > c[table]
  <2>1. k \in Nat /\ (k \in Holding(table, r.space) \/ k > inserted) BY <1>2, RowsEvolve
  <2>2. table \in AllTables BY <1>2, CountedTables, TablesDiffer
  <2> QED BY <1>1, <1>2, <2>1, <2>2 DEF CountsFor
<1>3. ASSUME NEW table \in EmptiedBy(label, r.step), NEW k \in RowsOf(table, r.space)'
      PROVE  k > p[table]
  <2>1. k \in Nat /\ (k \in RowsOf(table, r.space) \/ k > inserted) BY <1>3, RowsEvolve
  <2>2. table \in AllTables BY <1>3, EmptiedTables
  <2> QED BY <1>1, <1>3, <2>1, <2>2 DEF PassedFor
<1> QED BY <1>2, <1>3 DEF CountsFor, PassedFor

LEMMA StrippedKept ==
  ASSUME TypeInvariant, RemovalInvariant, RowsOK', Evolves, NEW f \in stripped
  PROVE  \A k \in RowsOf("equipment", f.space)' : k > f.since
<1>1. f.since \in 0 .. inserted /\ inserted \in Nat
  BY RowParts DEF TypeInvariant, NotesOK
<1>2. \A k \in RowsOf("equipment", f.space)' :
        k \in Nat /\ (k \in RowsOf("equipment", f.space) \/ k > inserted)
  BY RowsEvolve
<1>3. \A k \in RowsOf("equipment", f.space) : k > f.since
  BY DEF RemovalInvariant, StrippedKnown
<1> QED BY <1>1, <1>2, <1>3

(* A handler goes on, with the notes that it has now.                      *)
LEMMA NotesGo ==
  ASSUME TypeInvariant, RemovalInvariant, RowsOK', Evolves, NEW w \in Workers,
         NEW to, NEW request, Goto(w, to, request), NEW c, NEW p,
         counted' = [counted EXCEPT ![w] = c], passed' = [passed EXCEPT ![w] = p],
         CountsFor(to, request, c)', PassedFor(to, request, p)'
  PROVE  CountsKnown' /\ PassedKnown'
<1>1. ASSUME NEW v \in Workers
      PROVE  CountsFor(pc[v], req[v], counted[v])' /\ PassedFor(pc[v], req[v], passed[v])'
  <2>1. PICK label, r, a, b : label = pc'[v] /\ r = req'[v] /\ a = counted'[v] /\ b = passed'[v]
    OBVIOUS
  <2>2. CountsFor(label, r, a)' /\ PassedFor(label, r, b)'
    <3>1. CASE v = w
      <4>1. label = to /\ r = request /\ a = c /\ b = p
        BY <2>1, <3>1 DEF Goto, TypeInvariant, HandlersOK, NotesOK
      <4> QED BY <4>1
    <3>2. CASE v # w
      <4>1. label = pc[v] /\ r = req[v] /\ a = counted[v] /\ b = passed[v]
        BY <2>1, <3>2 DEF Goto, TypeInvariant, HandlersOK, NotesOK
      <4>2. CountsFor(label, r, a) /\ PassedFor(label, r, b)
        BY <4>1 DEF RemovalInvariant, CountsKnown, PassedKnown
      <4>3. a \in [AllTables -> 0 .. inserted] /\ b \in [AllTables -> 0 .. inserted]
        BY <4>1 DEF TypeInvariant, NotesOK
      <4> QED BY <4>2, <4>3, NotesKept
    <3> QED BY <3>1, <3>2
  <2> QED BY <2>1, <2>2 DEF CountsFor, PassedFor
<1> QED BY <1>1 DEF CountsKnown, PassedKnown

(* A handler ends.                                                         *)
LEMMA NotesFinished ==
  ASSUME TypeInvariant, RemovalInvariant, RowsOK', Evolves, NEW w \in Workers, Finish(w)
  PROVE  CountsKnown' /\ PassedKnown'
<1>1. CountsFor("idle", NoRequest, Nothing)' /\ PassedFor("idle", NoRequest, Nothing)'
  BY CountedTables, EmptiedTables DEF CountsFor, PassedFor
<1> QED BY <1>1, NotesGo DEF Finish

LEMMA NotesIdle ==
  ASSUME TypeInvariant, RemovalInvariant, RowsOK', Evolves,
         UNCHANGED <<pc, req, counted, passed>>
  PROVE  CountsKnown' /\ PassedKnown'
<1>1. ASSUME NEW v \in Workers
      PROVE  CountsFor(pc[v], req[v], counted[v])' /\ PassedFor(pc[v], req[v], passed[v])'
  <2>1. PICK label, r, a, b : label = pc[v] /\ r = req[v] /\ a = counted[v] /\ b = passed[v]
    OBVIOUS
  <2>2. CountsFor(label, r, a) /\ PassedFor(label, r, b)
    BY <2>1 DEF RemovalInvariant, CountsKnown, PassedKnown
  <2>3. a \in [AllTables -> 0 .. inserted] /\ b \in [AllTables -> 0 .. inserted]
    BY <2>1 DEF TypeInvariant, NotesOK
  <2>4. CountsFor(label, r, a)' /\ PassedFor(label, r, b)' BY <2>2, <2>3, NotesKept
  <2> QED BY <2>1, <2>4 DEF CountsFor, PassedFor
<1> QED BY <1>1 DEF CountsKnown, PassedKnown

(* What is not a deletion adds nothing to the history.                     *)
LEMMA HistoryStays ==
  ASSUME TypeInvariant, RemovalInvariant, RowsOK', Evolves, UNCHANGED <<lost, stripped, refused>>,
         CountsKnown' /\ PassedKnown'
  PROVE  RemovalInvariant'
<1>1. StrippedKnown' BY StrippedKept DEF StrippedKnown
<1>2. ActiveLostOnlyByRace' /\ RefusedByOutsiders'
  BY DEF RemovalInvariant, ActiveLostOnlyByRace, RefusedByOutsiders
<1> QED BY <1>1, <1>2 DEF RemovalInvariant

(* A count finds nothing active: whatever is found later is younger.       *)
LEMMA CountNoted ==
  ASSUME TypeInvariant, RemovalInvariant, NEW w \in Workers, CountActive(w)
  PROVE  RemovalInvariant'
<1>1. UNCHANGED <<rows, inserted, removals, lost, stripped, refused>> /\ pc[w] = "count"
  BY DEF CountActive
<1>2. RowsOK' /\ Evolves BY <1>1, RowsIdle DEF TypeInvariant
<1>3. PICK r : r = req[w] OBVIOUS
<1>4. r \in RemoveRequest /\ r.step \in 1 .. 2 BY <1>1, <1>3, HandlerParts
<1>5. PICK table : table = Counts[r.step] OBVIOUS
<1>6. table \in {"reservations", "blockings"} BY <1>4, <1>5, RemovalStep
<1>7. CASE Finish(w) BY <1>1, <1>2, <1>7, NotesFinished, HistoryStays
<1>8. CASE ~Finish(w)
  <2>1. Holding(table, r.space) = {} /\ UNCHANGED passed
        /\ counted' = [counted EXCEPT ![w][table] = inserted]
    BY <1>3, <1>5, <1>8 DEF CountActive
  <2>2. PICK c : c = [counted[w] EXCEPT ![table] = inserted] OBVIOUS
  <2>3. PICK p : p = passed[w] OBVIOUS
  <2>4. counted' = [counted EXCEPT ![w] = c] /\ passed' = [passed EXCEPT ![w] = p]
    BY <2>1, <2>2, <2>3 DEF TypeInvariant, NotesOK
  <2>5. counted[w] \in [AllTables -> 0 .. inserted] /\ inserted \in Nat
    BY RowParts DEF TypeInvariant, NotesOK
  <2>6. table \in AllTables BY <1>6, TablesDiffer
  <2>7. c[table] = inserted /\ \A t \in AllTables \ {table} : c[t] = counted[w][t]
    BY <2>2, <2>5, <2>6
  <2>8. Holding(table, r.space)' = {} BY <1>1, <2>1 DEF Holding, RowsOf
  <2>9. CASE r.step = 1
    <3>1. Goto(w, "count", [r EXCEPT !.step = 1 + 1])
      BY <1>3, <1>5, <1>8, <2>9, RemovalStep DEF CountActive
    <3>2. PICK q : q = [r EXCEPT !.step = 1 + 1] OBVIOUS
    <3>3. q.step = 2 /\ q.space = r.space BY <1>4, <3>2 DEF RemoveRequest
    <3>4. CountedBy("count", q.step) = {table} BY <1>5, <2>9, <3>3, CountedTables, RemovalStep
    <3>5. CountsFor("count", q, c)' BY <2>8, <3>3, <3>4 DEF CountsFor
    <3>6. PassedFor("count", q, p)' BY EmptiedTables DEF PassedFor
    <3>7. CountsKnown' /\ PassedKnown'
      BY <1>2, <2>4, <3>1, <3>2, <3>5, <3>6, NotesGo
    <3> QED BY <1>1, <1>2, <3>7, HistoryStays
  <2>10. CASE r.step = 2
    <3>1. Goto(w, "delete", [r EXCEPT !.step = 1])
      BY <1>3, <1>5, <1>8, <2>10, RemovalStep DEF CountActive
    <3>2. PICK q : q = [r EXCEPT !.step = 1] OBVIOUS
    <3>3. q.step = 1 /\ q.space = r.space BY <1>4, <3>2 DEF RemoveRequest
    <3>4. table = "blockings" /\ CountedBy("delete", q.step) = {"reservations", table}
      BY <1>5, <2>10, CountedTables, RemovalStep
    <3>5. \A k \in Holding("reservations", r.space)' : k > c["reservations"]
      <4>1. CountsFor("count", r, counted[w])
        BY <1>1, <1>3 DEF RemovalInvariant, CountsKnown
      <4>2. \A k \in Holding("reservations", r.space) : k > counted[w]["reservations"]
        BY <2>10, <4>1, CountedTables DEF CountsFor
      <4>3. Holding("reservations", r.space)' = Holding("reservations", r.space)
        BY <1>1 DEF Holding, RowsOf
      <4> QED BY <2>7, <3>4, <4>2, <4>3, TablesDiffer
    <3>6. CountsFor("delete", q, c)' BY <2>8, <3>3, <3>4, <3>5 DEF CountsFor
    <3>7. PassedFor("delete", q, p)' BY <3>3, EmptiedTables DEF PassedFor
    <3>8. CountsKnown' /\ PassedKnown'
      BY <1>2, <2>4, <3>1, <3>2, <3>6, <3>7, NotesGo
    <3> QED BY <1>1, <1>2, <3>8, HistoryStays
  <2> QED BY <1>4, <2>9, <2>10
<1> QED BY <1>7, <1>8

(* What stands in the way of a deletion: the records of an equipment, or,  *)
(* when it is the space's turn, what refers to the space.                  *)
LEMMA InTheWay ==
  ASSUME TypeInvariant, RemovalInvariant, NEW w \in Workers, DeleteRows(w),
         NEW k \in ReferredBy(DoomedBy(w))
  PROVE  \/ rows[k].table \in {"room_tickets", "sensor_devices", "equipment_tickets",
                               "equipment_status_history"}
         \/ passed[w][rows[k].table] # 0 /\ k > passed[w][rows[k].table]
<1>1. pc[w] = "delete" /\ req[w].step \in 1 .. 5 BY DeleteParts
<1>2. PICK p \in DoomedBy(w) : k \in DOMAIN rows /\ rows[k].of = p
  BY DEF ReferredBy, Refers
<1>3. p \in DOMAIN rows /\ rows[p].table = Table(w)
  BY <1>2 DEF DoomedBy, Doomed, Spaces, RowsOf
<1>4. rows[k].table # "spaces" /\ rows[k].table \in AllTables
  BY <1>2, <1>3, RowParts DEF TypeInvariant, RowsOK
<1>5. Parent[rows[k].table] = Table(w) BY <1>2, <1>3, <1>4 DEF TypeInvariant, RowsOK
<1>6. CASE Table(w) # "spaces" BY <1>4, <1>5, <1>6, TablesDiffer
<1>7. CASE Table(w) = "spaces"
  <2>1. req[w].step = 5
    <3>1. \A i \in 1 .. 5 : i = 1 \/ i = 2 \/ i = 3 \/ i = 4 \/ i = 5 OBVIOUS
    <3> QED BY <1>1, <1>7, <3>1, RemovalStep DEF Table
  <2>2. p = req[w].space BY <1>2, <1>7 DEF DoomedBy, Doomed
  <2>3. PassedFor("delete", req[w], passed[w])
    BY <1>1 DEF RemovalInvariant, PassedKnown
  <2>4. k \in RowsOf(rows[k].table, req[w].space) BY <1>2, <2>2 DEF RowsOf
  <2>5. CASE rows[k].table \in {"equipment", "space_managers", "reservations", "blockings"}
    <3>1. rows[k].table \in EmptiedBy("delete", req[w].step) BY <2>1, <2>5, EmptiedTables
    <3> QED BY <2>3, <2>4, <3>1 DEF PassedFor
  <2>6. CASE rows[k].table \notin {"equipment", "space_managers", "reservations", "blockings"}
    BY <1>4, <2>6, TablesDiffer
  <2> QED BY <2>5, <2>6
<1> QED BY <1>6, <1>7

LEMMA DeleteNoted ==
  ASSUME TypeInvariant, RemovalInvariant, NEW w \in Workers, DeleteRows(w)
  PROVE  RemovalInvariant'
<1>1. /\ RowsOK' /\ Evolves /\ inserted' = inserted /\ pc[w] = "delete"
      /\ req[w].step \in 1 .. 5 /\ Table(w) \in AllTables
  BY DeleteParts
<1>2. PICK space, c, p : space = req[w].space /\ c = counted[w] /\ p = passed[w] OBVIOUS
<1>3. CountsFor("delete", req[w], c) /\ PassedFor("delete", req[w], p)
  BY <1>1, <1>2 DEF RemovalInvariant, CountsKnown, PassedKnown
<1>4. c \in [AllTables -> 0 .. inserted] /\ p \in [AllTables -> 0 .. inserted]
      /\ inserted \in Nat /\ inserted # 0
  BY <1>2, RowParts DEF TypeInvariant, NotesOK
<1>5. CASE ReferredBy(DoomedBy(w)) # {}
  <2>1. /\ Finish(w) /\ UNCHANGED <<rows, lost, stripped>>
        /\ refused' = refused \union
             {[row |-> k, table |-> rows[k].table, since |-> passed[w][rows[k].table]] :
                k \in ReferredBy(DoomedBy(w))}
    BY <1>5, DeleteParts
  <2>2. RefusedByOutsiders'
    <3> SUFFICES ASSUME NEW f \in refused'
                 PROVE  \/ f.table \in {"room_tickets", "sensor_devices", "equipment_tickets",
                                        "equipment_status_history"}
                        \/ f.since # 0 /\ f.row > f.since
      BY DEF RefusedByOutsiders
    <3>1. CASE f \in refused BY <3>1 DEF RemovalInvariant, RefusedByOutsiders
    <3>2. CASE f \notin refused
      <4>1. PICK k \in ReferredBy(DoomedBy(w)) :
              f = [row |-> k, table |-> rows[k].table, since |-> passed[w][rows[k].table]]
        BY <2>1, <3>2
      <4> QED BY <4>1, InTheWay
    <3> QED BY <3>1, <3>2
  <2>3. ActiveLostOnlyByRace' BY <2>1 DEF RemovalInvariant, ActiveLostOnlyByRace
  <2>4. StrippedKnown' BY <1>1, <2>1, StrippedKept DEF StrippedKnown
  <2>5. CountsKnown' /\ PassedKnown' BY <1>1, <2>1, NotesFinished
  <2> QED BY <2>2, <2>3, <2>4, <2>5 DEF RemovalInvariant
<1>6. CASE ReferredBy(DoomedBy(w)) = {}
  <2>1. /\ DOMAIN rows' = DOMAIN rows \ DoomedBy(w) /\ UNCHANGED refused
        /\ \A k \in DOMAIN rows' : rows'[k] = rows[k]
        /\ lost' = lost \union {[row |-> k, since |-> c[Table(w)]] : k \in Taken(w)}
        /\ stripped' = IF DoomedBy(w) = {} \/ Table(w) = "spaces" THEN stripped
                       ELSE stripped \union {[space |-> space, since |-> Emptied(w)]}
    BY <1>2, <1>6, DeleteParts
  <2>2. RefusedByOutsiders' BY <2>1 DEF RemovalInvariant, RefusedByOutsiders
  <2>3. ActiveLostOnlyByRace'
    <3> SUFFICES ASSUME NEW f \in lost', f \notin lost PROVE f.row > f.since
      BY DEF ActiveLostOnlyByRace, RemovalInvariant
    <3>1. PICK k \in Taken(w) : f = [row |-> k, since |-> c[Table(w)]] BY <2>1
    <3>2. Table(w) \in CountedBy("delete", req[w].step) BY <3>1, CountedTables DEF Taken
    <3>3. k \in Holding(Table(w), req[w].space)
      BY <3>1 DEF Taken, DoomedBy, Doomed, Holding
    <3> QED BY <1>3, <3>1, <3>2, <3>3 DEF CountsFor
  <2>4. PICK table \in AllTables : table = Table(w) BY <1>1
  <2>5. table # "spaces" => RowsOf(table, space)' = {}
    <3>1. table # "spaces" => DoomedBy(w) = RowsOf(table, space)
      BY <1>2, <2>4 DEF DoomedBy, Doomed
    <3> QED BY <2>1, <3>1 DEF RowsOf
  <2>6. StrippedKnown'
    <3> SUFFICES ASSUME NEW f \in stripped', NEW k \in RowsOf("equipment", f.space)'
                 PROVE  k > f.since
      BY DEF StrippedKnown
    <3>1. CASE f \in stripped BY <1>1, <3>1, StrippedKept
    <3>2. CASE f \notin stripped
      <4>1. f = [space |-> space, since |-> Emptied(w)] /\ Table(w) # "spaces" BY <2>1, <3>2
      <4>2. f.space = space /\ f.since = Emptied(w) BY <4>1
      <4>3. Table(w) # "equipment" BY <2>4, <2>5, <4>1, <4>2
      <4>4. req[w].step \in 2 .. 5 BY <1>1, <4>3, RemovalStep DEF Table
      <4>5. "equipment" \in EmptiedBy("delete", req[w].step) BY <4>4, EmptiedTables
      <4>6. k \in RowsOf("equipment", space) BY <2>1, <4>2 DEF RowsOf
      <4> QED BY <1>2, <1>3, <4>2, <4>5, <4>6 DEF PassedFor, Emptied
    <3> QED BY <3>1, <3>2
  <2>7. CASE Finish(w)
    <3>1. CountsKnown' /\ PassedKnown' BY <1>1, <2>7, NotesFinished
    <3> QED BY <2>2, <2>3, <2>6, <3>1 DEF RemovalInvariant
  <2>8. CASE ~Finish(w)
    <3>1. /\ Goto(w, "delete", [req[w] EXCEPT !.step = req[w].step + 1]) /\ req[w].step < 5
          /\ passed' = [passed EXCEPT ![w][Table(w)] = inserted] /\ UNCHANGED counted
      BY <1>6, <2>8, DeleteParts
    <3>2. PICK q, r : q = [req[w] EXCEPT !.step = req[w].step + 1] /\ r = req[w] OBVIOUS
    <3>3. PICK step \in 1 .. 4 : step = req[w].step BY <1>1, <3>1
    <3>4. q.step = step + 1 /\ q.space = r.space /\ r.space = space /\ r.step = step
      BY <1>1, <1>2, <3>2, <3>3, HandlerParts DEF RemoveRequest
    <3>5. CountsFor("delete", r, c)' /\ PassedFor("delete", r, p)'
      BY <1>1, <1>3, <1>4, <3>2, NotesKept
    <3>6. table = Table(w) BY <2>4
    <3>7. table = Deletions[step] /\ table # "spaces"
      <4>1. step = 1 \/ step = 2 \/ step = 3 \/ step = 4 BY <3>3
      <4> QED BY <3>3, <3>6, <4>1, RemovalStep DEF Table
    <3>8. PICK p1 : p1 = [p EXCEPT ![table] = inserted] OBVIOUS
    <3>9. p1[table] = inserted /\ \A t \in AllTables \ {table} : p1[t] = p[t]
      BY <1>4, <3>8
    <3>10. CountsFor("delete", q, c)' BY <3>4, <3>5, CountedTables DEF CountsFor
    <3>11. PassedFor("delete", q, p1)'
      <4> SUFFICES ASSUME NEW t \in EmptiedBy("delete", step + 1)
                   PROVE  p1[t] # 0 /\ \A k \in RowsOf(t, space)' : k > p1[t]
        BY <3>4 DEF PassedFor
      <4>1. t \in EmptiedBy("delete", step) \union {table} /\ t \in AllTables
        BY <3>3, <3>7, EmptiedTables
      <4>2. CASE t = table BY <1>4, <2>5, <3>7, <3>9, <4>2
      <4>3. CASE t # table BY <3>4, <3>5, <3>9, <4>1, <4>3 DEF PassedFor
      <4> QED BY <4>2, <4>3
    <3>12. counted' = [counted EXCEPT ![w] = c] /\ passed' = [passed EXCEPT ![w] = p1]
      BY <1>2, <3>1, <3>6, <3>8 DEF TypeInvariant, NotesOK
    <3>13. CountsKnown' /\ PassedKnown'
      BY <1>1, <3>1, <3>2, <3>10, <3>11, <3>12, NotesGo
    <3> QED BY <2>2, <2>3, <2>6, <3>13 DEF RemovalInvariant
  <2> QED BY <2>7, <2>8
<1> QED BY <1>5, <1>6

LEMMA RemovalNext ==
  ASSUME TypeInvariant, RemovalInvariant, [Next]_vars
  PROVE  RemovalInvariant'
<1>1. CASE Settle \/ Unassign
  <2>1. RowsOK' /\ Evolves BY <1>1, SettleRows, UnassignRows DEF TypeInvariant
  <2>2. UNCHANGED <<pc, req, counted, passed, lost, stripped, refused>>
    BY <1>1 DEF Settle, Unassign, ghosts
  <2>3. CountsKnown' /\ PassedKnown' BY <2>1, <2>2, NotesIdle
  <2> QED BY <2>1, <2>2, <2>3, HistoryStays
<1>2. CASE UNCHANGED vars
  <2>1. UNCHANGED <<rows, inserted, removals, pc, req, counted, passed, lost, stripped, refused>>
    BY <1>2 DEF vars, ghosts
  <2>2. RowsOK' /\ Evolves BY <2>1, RowsIdle DEF TypeInvariant
  <2>3. CountsKnown' /\ PassedKnown' BY <2>1, <2>2, NotesIdle
  <2> QED BY <2>1, <2>2, <2>3, HistoryStays
<1>3. ASSUME NEW w \in Workers, RefuseRequest(w) PROVE RemovalInvariant'
  BY <1>2, <1>3 DEF RefuseRequest
<1>4. ASSUME NEW w \in Workers, Die(w) \/ InsertRow(w) PROVE RemovalInvariant'
  <2>1. Finish(w) /\ UNCHANGED <<lost, stripped, refused>> BY <1>4 DEF Die, InsertRow
  <2>2. CASE Die(w)
    <3>1. RowsOK' /\ Evolves BY <2>2, RowsIdle DEF Die, TypeInvariant
    <3>2. CountsKnown' /\ PassedKnown' BY <2>1, <3>1, NotesFinished
    <3> QED BY <2>1, <3>1, <3>2, HistoryStays
  <2>3. CASE InsertRow(w)
    <3>1. RowsOK' /\ Evolves BY <2>3, InsertParts
    <3>2. CountsKnown' /\ PassedKnown' BY <2>1, <3>1, NotesFinished
    <3> QED BY <2>1, <3>1, <3>2, HistoryStays
  <2> QED BY <1>4, <2>2, <2>3
<1>5. ASSUME NEW w \in Workers, SubmitInsert(w) \/ SubmitRemove(w) PROVE RemovalInvariant'
  <2>1. /\ UNCHANGED <<rows, inserted, counted, passed, lost, stripped, refused>>
    BY <1>5 DEF SubmitInsert, SubmitRemove, ghosts
  <2>2. TypeInvariant' BY <1>5, SubmitInsertType, SubmitRemoveType
  <2>3. RowsOK' /\ Evolves BY <2>1, <2>2, RowParts DEF TypeInvariant, Evolves
  <2>4. PICK to, request :
          /\ Goto(w, to, request)
          /\ to = "insert" \/ (to = "count" /\ request.step = 1)
    <3>1. CASE SubmitInsert(w) BY <3>1 DEF SubmitInsert
    <3>2. CASE SubmitRemove(w)
      <4>1. PICK s : Goto(w, "count", [op |-> "remove", space |-> s, step |-> 1])
        BY <3>2 DEF SubmitRemove
      <4> QED BY <4>1
    <3> QED BY <1>5, <3>1, <3>2
  <2>5. PICK c, p : c = counted[w] /\ p = passed[w] OBVIOUS
  <2>6. CountsFor(to, request, c)' /\ PassedFor(to, request, p)'
    BY <2>4, CountedTables, EmptiedTables DEF CountsFor, PassedFor
  <2>7. counted' = [counted EXCEPT ![w] = c] /\ passed' = [passed EXCEPT ![w] = p]
    BY <2>1, <2>5 DEF TypeInvariant, NotesOK
  <2>8. CountsKnown' /\ PassedKnown' BY <2>3, <2>4, <2>6, <2>7, NotesGo
  <2> QED BY <2>1, <2>3, <2>8, HistoryStays
<1> QED BY <1>1, <1>2, <1>3, <1>4, <1>5, CountNoted, DeleteNoted DEF Next

LEMMA RemovalAlways == Spec => []RemovalInvariant
<1>1. Init => RemovalInvariant
  BY CountedTables, EmptiedTables
  DEF Init, RemovalInvariant, CountsKnown, PassedKnown, CountsFor, PassedFor, StrippedKnown,
      ActiveLostOnlyByRace, RefusedByOutsiders
<1> QED BY <1>1, RemovalNext, TypeAlways, PTL DEF Spec

(* A removal takes an active reservation or blocking with it only if it    *)
(* was inserted after the removal had counted them.                        *)
THEOREM ActiveRowsAreLostToRaces == Spec => []ActiveLostOnlyByRace
<1>1. RemovalInvariant => ActiveLostOnlyByRace BY DEF RemovalInvariant
<1> QED BY <1>1, RemovalAlways, PTL

(* Past its counts a removal is refused only because of what it does not   *)
(* delete, or of a row inserted after it had emptied the table.            *)
THEOREM OutsidersRefuse == Spec => []RefusedByOutsiders
<1>1. RemovalInvariant => RefusedByOutsiders BY DEF RemovalInvariant
<1> QED BY <1>1, RemovalAlways, PTL

(* No space loses a row to a removal while one of its equipments has       *)
(* records, except one registered after its equipment was deleted.         *)
THEOREM RecordsProtect == Spec => []RecordsProtectSpace
<1>1. TypeInvariant /\ RemovalInvariant => RecordsProtectSpace
  <2> SUFFICES ASSUME TypeInvariant, RemovalInvariant, NEW k \in DOMAIN rows,
                      rows[k].table \in {"equipment_tickets", "equipment_status_history"},
                      NEW f \in stripped, rows[rows[k].of].of = f.space
               PROVE  rows[k].of > f.since
    BY DEF RecordsProtectSpace
  <2>1. rows[k].of \in DOMAIN rows /\ rows[rows[k].of].table = "equipment"
    BY TablesDiffer DEF TypeInvariant, RowsOK
  <2>2. rows[k].of \in RowsOf("equipment", f.space) BY <2>1 DEF RowsOf
  <2> QED BY <2>2 DEF RemovalInvariant, StrippedKnown
<1> QED BY <1>1, TypeAlways, RemovalAlways, PTL
=================================================================================
