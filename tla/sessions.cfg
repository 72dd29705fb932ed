SPECIFICATION MCSpec
CONSTANTS
  ana = ana  w1 = w1  w2 = w2  login = login  c1 = c1  c2 = c2
  Users = {ana}  Masters = {}  FirstRole = "maintenance"  Roles = {"staff", "maintenance"}  Workers = {w1, w2}
  Threshold = 3  Mixes <- MCMixes
  Buckets = {login}  MaxOf <- MCMax  WindowOf <- MCWindow  Retention = 4  Calls = {c1, c2}
  Life = 1  MaxCount = 3  Horizon = 7
INVARIANTS TypeOK OneValidToken ReuseEndsSession DisabledStayOut RoleFollowsAdministrator LockoutBounded LimitHolds
SYMMETRY Symmetry
