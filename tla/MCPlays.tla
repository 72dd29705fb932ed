-------------------------------- MODULE MCPlays --------------------------------
(***************************************************************************)
(* An instance of Booking that is two in one: TLC looks at the states that *)
(* belong to one of two plays, so that each can have the bounds it needs.  *)
(***************************************************************************)
EXTENDS MCBooking

(* Everyone does everything on one day while the clock stands still; and a *)
(* student books on two days while it runs.                                *)
MCRace == [users |-> {student, staff}, ops |-> {"create", "update", "cancel", "block"},
           intervals |-> {<<0, 2>>, <<1, 3>>}, days |-> {1}, rows |-> 2,
           clockRuns |-> FALSE, failures |-> 1]
MCQuota == [users |-> {student}, ops |-> {"create", "cancel"},
            intervals |-> {<<0, 2>>, <<2, 4>>}, days |-> {1, 2}, rows |-> 3,
            clockRuns |-> TRUE, failures |-> 0]
MCAllIntervals == MCIntervals \union MCEarlyIntervals

(* A slot, and a request, that are of the play. *)
SlotIn(play, slot) == <<slot.start, slot.end>> \in play.intervals /\ slot.date \in play.days
RequestIn(play, r) ==
  /\ r.op \in play.ops /\ r.user \in play.users
  /\ r.op \in {"create", "update", "block"} => SlotIn(play, r.slot)
  /\ r.op = "block" => r.dates \subseteq play.days

(* What was done so far is of the play, with room for the rows to come; a  *)
(* handler that is left with its notices has forgotten its request.        *)
StateIn(play) ==
  /\ play.clockRuns \/ (today = 1 /\ now = 0)
  /\ failures <= play.failures
  /\ \A r \in DOMAIN reservations :
       reservations[r].user \in play.users /\ SlotIn(play, reservations[r].slot)
  /\ DOMAIN blockings # {} => "block" \in play.ops
  /\ \A w \in Workers : pc[w] \notin {"idle", "notify"} => RequestIn(play, req[w])
  /\ MapThenSumSet(RowsOf, Workers) + Cardinality(DOMAIN reservations) <= play.rows

InAPlay == \E play \in {MCRace, MCQuota} : StateIn(play)
================================================================================
