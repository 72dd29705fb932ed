------------------------------ MODULE RoomCalendar ------------------------------
(***************************************************************************)
(* What the booking of spaces promises, with every operation atomic: a     *)
(* calendar in which no two reservations collide and none lies under a     *)
(* blocking.  A blocking evicts the reservations it collides with.         *)
(***************************************************************************)
CONSTANTS Ids, BlockIds, Slots, Collide(_, _)

VARIABLES held, blocks   \* id -> slot, for what is held and what is blocked

cvars == <<held, blocks>>

Free(slot, except) ==
  /\ \A r \in DOMAIN held \ {except} : ~Collide(slot, held[r])
  /\ \A b \in DOMAIN blocks : ~Collide(slot, blocks[b])

With(table, id, slot) == [k \in DOMAIN table \union {id} |-> IF k = id THEN slot ELSE table[k]]
Only(table, ids) == [k \in ids |-> table[k]]

CalendarInit == held = <<>> /\ blocks = <<>>

Reserve(id, slot) ==
  /\ id \notin DOMAIN held /\ Free(slot, id)
  /\ held' = With(held, id, slot) /\ UNCHANGED blocks

Move(id, slot) ==
  /\ id \in DOMAIN held /\ Free(slot, id)
  /\ held' = With(held, id, slot) /\ UNCHANGED blocks

Release(ids) ==
  /\ ids # {} /\ held' = Only(held, DOMAIN held \ ids) /\ UNCHANGED blocks

Block(id, slot) ==
  /\ id \notin DOMAIN blocks
  /\ \A b \in DOMAIN blocks : ~Collide(slot, blocks[b])
  /\ blocks' = With(blocks, id, slot)
  /\ held' = Only(held, {r \in DOMAIN held : ~Collide(slot, held[r])})

Unblock(id) ==
  /\ id \in DOMAIN blocks
  /\ blocks' = Only(blocks, DOMAIN blocks \ {id}) /\ UNCHANGED held

CalendarNext ==
  \/ \E id \in Ids, slot \in Slots : Reserve(id, slot) \/ Move(id, slot)
  \/ \E ids \in SUBSET DOMAIN held : Release(ids)
  \/ \E id \in BlockIds, slot \in Slots : Block(id, slot)
  \/ \E id \in DOMAIN blocks : Unblock(id)

CalendarSpec == CalendarInit /\ [][CalendarNext]_cvars
=================================================================================
