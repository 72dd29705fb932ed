----------------------------- MODULE MCTicketPlays -----------------------------
(***************************************************************************)
(* An instance of EquipmentTickets that is two in one: a behaviour keeps   *)
(* to one of two plays, so that each can have the bounds it needs.         *)
(***************************************************************************)
EXTENDS MCTickets

(* Two people report equipment and a room while tickets are worked on; and *)
(* the equipment changes its status again and again, by hand and through   *)
(* a report.  Either works at a few ticks only (moments) and leaves the    *)
(* others to the clock: early, late and at the last tick of a day, and on  *)
(* the first of the third.                                                 *)
VARIABLE play
MCDesk == [ops |-> {"report", "resolve"}, targets |-> Targets, initial |-> {"under_repair"},
           ticketsIn |-> {"pending", "acknowledged", "resolved"}, tickets |-> 2,
           moments |-> {2, 5, 6}]
MCWorkshop == [ops |-> {"report", "status"}, targets |-> Equipment, initial |-> {"working"},
               ticketsIn |-> {"pending", "dismissed"}, tickets |-> 1,
               moments |-> {0, 2, 6}]

Belongs(r) ==
  /\ r.op \in play.ops
  /\ r.op = "report" =>
       /\ r.target \in play.targets
       /\ Cardinality(Serving({"report"})) + Cardinality(DOMAIN tickets) < play.tickets

PlayNext ==
  /\ \A w \in Workers : pc[w] = "idle" /\ pc'[w] # "idle" => Belongs(req'[w])
  /\ \A t \in DOMAIN tickets' : tickets'[t].status \in play.ticketsIn
  /\ time \in play.moments \/ time' # time
  /\ UNCHANGED play
MCNext == Next /\ PlayNext
MCInit ==
  /\ Init
  /\ play \in {MCDesk, MCWorkshop}
  /\ \A e \in Equipment : status[e] \in play.initial
MCSpec == MCInit /\ [][MCNext]_<<vars, play>>
================================================================================
