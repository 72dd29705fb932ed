SPECIFICATION Spec
CONSTANTS
  DayEnd = 6  MinDuration = 2  DefaultFrom = 4  DefaultTo = 6
  student = student  professor = professor  staff = staff  caretaker = caretaker
  room = room  w1 = w1  w2 = w2
  NoUser = NoUser  Unlimited = Unlimited
  Users <- MCUsers  RoleOf <- MCRoleOf  DeptOf <- MCDeptOf
  Requesters = {}
  Spaces = {room}  Reservable = {room}
  SpaceDept <- MCSpaceDept  ClosedFrom <- MCClosedFrom  ClosedTo <- MCClosedTo
  Limit <- MCLimit
  Workers = {w1}
  Operations = {"recurring", "cancelSeries", "block"}
  Intervals <- MCIntervals
  MaxDay = 2  ClockRuns = FALSE
  ReservationIds = {1, 2}  SeriesIds = {1}  BlockingIds = {1}
  Recorded = {}  MaxFailures = 0
PROPERTIES SeriesCancelsOnlyConfirmed
