--------------------------- MODULE ReservationPrivacy ---------------------------
(***************************************************************************)
(* lib/reservation-privacy, and what the calendar of a space, the report   *)
(* and "Minhas Reservas" make of it: whom a reservation is shown as        *)
(* belonging to, to whom the name and the contact of the requester are     *)
(* shown, and how that fits with who may edit or cancel it                 *)
(* (lib/reservation-permissions, in Schedule).  Everything here is a       *)
(* function of a row and its viewer.                                       *)
(***************************************************************************)
EXTENDS Schedule

CONSTANTS People, RoleOf, NoOne, Stranger, RoleLabel

(* Staff book for somebody with an account, or write down a name.          *)
ASSUME PrivacyAssumption ==
  /\ RoleOf \in [People -> {"student", "professor", "staff", "maintenance"}]
  /\ NoOne \notin People /\ Stranger \notin People /\ RoleLabel \notin People
  /\ RoleLabel # Stranger

Privileged == {"professor", "staff", "maintenance"}

(* `named` tells whether a requester without an account was written down,  *)
(* `contact` whether a contact was.                                        *)
Reservation ==
  [user : People, requester : People \union {NoOne}, named : BOOLEAN, contact : BOOLEAN]

(* reservationAuthorInput: the registered requester, else the name, which  *)
(* has no account and borrows the owner's role, else the owner.            *)
Author(r) ==
  IF r.requester # NoOne THEN [owner |-> r.requester, name |-> r.requester]
  ELSE IF r.named THEN [owner |-> NoOne, name |-> Stranger]
  ELSE [owner |-> r.user, name |-> r.user]

(* formatReservationAuthor; managers are those of the space.               *)
IsSelf(author, viewer) == author.owner = viewer
DisplayName(author, viewer, isManager) ==
  IF IsSelf(author, viewer) \/ RoleOf[viewer] \in Privileged \/ isManager
  THEN author.name
  ELSE RoleLabel

(* requesterContactFor and withRequesterContactFor: the key is left out    *)
(* for everyone but staff.                                                 *)
ContactShown(r, viewer) == RoleOf[viewer] = "staff" /\ r.contact

(* enrichSlots: a slot of the calendar that the reservation occupies.      *)
CalendarEntry(r, viewer, isManager) ==
  LET author == Author(r)
  IN  [isSelf |-> IsSelf(author, viewer),
       name |-> DisplayName(author, viewer, isManager),
       contact |-> ContactShown(r, viewer)]

(* getSpaceReport passes no managers, and no contact.                      *)
ReportEntry(r, viewer) == [name |-> DisplayName(Author(r), viewer, FALSE)]

(* listByUser and presentReservationForViewer.  The creator of a row is    *)
(* its owner in every INSERT of the code.                                  *)
Mine(rows, viewer) == {r \in rows : r.user = viewer \/ r.requester = viewer}
MineEntry(r, viewer) ==
  [requester |-> IF r.requester # NoOne THEN r.requester
                 ELSE IF r.named THEN Stranger ELSE NoOne,
   registeredBy |-> r.user,
   onBehalfOfMe |-> r.requester = viewer /\ r.user # viewer,
   contact |-> ContactShown(r, viewer)]

May(viewer, r, action) == CanManage(viewer, RoleOf[viewer], r.user, r.requester, action)

================================================================================
