SPECIFICATION ServicesSpec
CONSTANTS
  NULL = NULL
  Employees = {e1}
  WorkShifts = {s1, s2}
  SlotsPerDay = 2
  DaysPerWeek = 2
  LastDay = 1
  MaxEdits = 3
  Tolerance = 1
  MaxVisits = 2
  Sweepers = {timer, admin}
  Timer = timer
  SweepSlot = 1
  MaxRestarts = 1
  Orders = {o1}
  Admins = {a1, a2}
  MaxRequests = 2
  MaxReviews = 3
  Requests = {r1, r2}
  MaxAddresses = 3
  MaxFailures = 1
  Streams = {s1, s2}
  Channels = {user, outlet}
  Broadcasters = {b1, b2}
  Buffer = 1
  MaxEvents = 2
CHECK_DEADLOCK FALSE
INVARIANTS TypeOK SweptHaveRows SweepSeesSchedule ComplaintTypeOK NewestNoticeIsStatus
  ResolverMatchesStatus AddressTypeOK EventTypeOK NoSendOnClosed
PROPERTIES ImplementsLedger PrimaryLostByDeletionOnly BroadcastReturns LeaversGo
