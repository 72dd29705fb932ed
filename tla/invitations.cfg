SPECIFICATION Spec
CONSTANTS
  ana = ana  rui = rui  w1 = w1  w2 = w2
  Emails = {ana}  Registered = {}  Workers = {w1, w2}
  Operations = {"invite", "request", "approve", "reject", "reset", "revoke", "resend", "accept"}
  InvitationIds = {1, 2}  RequestIds = {1, 2}
  MaxRows = 3  MaxToken = 1  TtlOf <- MCTtlOf  Grace = 0  MaxTime = 2
INVARIANTS TypeOK DuplicatesExplained OneAccountPerPerson ApprovedIsInvited
PROPERTIES DecisionsStand
SYMMETRY Symmetry
