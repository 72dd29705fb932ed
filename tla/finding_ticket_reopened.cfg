SPECIFICATION Spec
CONSTANTS
  projector = projector  lighting = lighting  ana = ana  rui = rui  w1 = w1  w2 = w2
  Equipment = {projector}  Topics = {}  Users = {ana, rui}  Workers = {w1}
  Operations = {"report", "resolve", "acknowledge", "dismiss"}
  InitialStatus = {"working"}  Written = {"working"}
  TicketIds = {1, 2}  Window = 1  MaxTime = 2  MaxChanges = 2
  MaxRange = 2  DayTicks = 1  RowParts = 10  SeriesParts = 100
INVARIANTS AtMostOneOpen
