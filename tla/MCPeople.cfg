SPECIFICATION PeopleSpec
CONSTANTS
  NULL = NULL
  Customers = {c1, c2}
  Emails = {m1, m2}
  Callers = {r1, r2}
  ChangeTokens = {t1}
  Devices = {d1, d2}
  RefreshTokens = {f1, f2}
  ResetTokens = {p1}
  MaxChanges = 2
  EmployeeRoles = {g1, g2}
  Staff = {n1, n2}
  Workplaces = {x1}
  Tellings = {z1}
  Clerks = {k1}
  MaxStaffEdits = 2
  Attempts = {q1, q2}
  MaxAttempts = 3
  Burst = 2
  Unit = 2
  StaleAfter = 4
  Buckets = 2
  LastTick = 5
  Items = {i1}
  ClothingTypes = {k1}
  Prices = {2, 4}
  MaxCatalogueEdits = 2
  Filers = {f1, f2}
  Halves = {3}
  MaxLines = 2
  DeliveryFee = 5
  OutletIds = {x1, x2}
  Buyers = {y1}
  Places = {0, 2, 3}
  Radii = {1, 3}
  FreeDeliveryRadiusKM = 2
  FlatDeliveryFee = 5
  MaxOutletEdits = 2
  Viewed = theorder
  Viewers = {v1}
SYMMETRY Interchangeable
CHECK_DEADLOCK FALSE
INVARIANTS PeopleTypeOK EveryAccountReachable VerifiedOwnsEmail OneCustomerPerGoogle
  InactiveNeverActivated SessionsKnowRole OutletIsTold BudgetKept
  TotalMatchesItems StationJudgesCount ServedByNearest DetailIsCoherent
PROPERTIES ChangeEndsAccess
