SPECIFICATION Spec
CONSTANTS
  DayEnd = 8  MinDuration = 2  DefaultFrom = 6  DefaultTo = 2
  room = room  lab = lab  Others = {lab}  Days = {1, 2}  MaxRange = 2  Noon = 1  Evening = 2
  HoursOf <- MCHoursOf  Rows <- MCRows
  FromTimes = {0, 2, 6, 8}  ToTimes = {0, 2, 8}
  ana = ana  rui = rui  People = {ana, rui}  RoleOf <- MCRoleOf
  NoOne = NoOne  Stranger = Stranger  RoleLabel = RoleLabel
INVARIANTS CalendarAgrees ReportsAgree TotalsAddUp
