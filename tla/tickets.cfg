SPECIFICATION MCSpec
CONSTANTS
  projector = projector  lighting = lighting  ana = ana  rui = rui  w1 = w1  w2 = w2
  Equipment = {projector}  Topics = {lighting}  Users = {ana, rui}  Workers = {w1, w2}
  Operations = {"report", "acknowledge", "resolve", "dismiss", "status"}
  InitialStatus = {"working", "broken", "under_repair"}
  Written = {"working", "broken", "under_repair"}
  TicketIds = {1, 2}  Window = 3  MaxTime = 6  MaxChanges = 3
  MaxRange = 2  DayTicks = 3  RowParts = 1  SeriesParts = 2
INVARIANTS OpenTicketsExplained RecentTicketsOnlyByRace HistoryTellsStatus DowntimeExact BrokenIsListed
PROPERTIES PastReportsStand
SYMMETRY Symmetry
