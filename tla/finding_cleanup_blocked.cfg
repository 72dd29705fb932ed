SPECIFICATION FairSpec
CONSTANTS
  ana = ana  rui = rui  w1 = w1  w2 = w2
  Emails = {ana}  Registered = {}  Workers = {w1}
  Operations = {"request", "approve", "accept"}
  InvitationIds = {1}  RequestIds = {1}
  MaxRows = 2  MaxToken = 0  TtlOf <- MCTtlOf  Grace = 0  MaxTime = 2
PROPERTIES SettledGo
