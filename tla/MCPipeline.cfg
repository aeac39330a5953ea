SPECIFICATION Spec
CONSTANTS
  NULL = NULL
  Orders = {o1, o2}
  Drivers = {d1, d2}
  GatewayTxs = {g1}
  BypassIds = {b1, b2}
  BypassWorkers = {w1, w2}
  MaxBypassAttemptsPerStation = 2
  Sweepers = {ticker}
  Ticker = ticker
  MaxClaims = 2
  MaxPackings = 1
  MaxFilings = 2
  MaxPayCalls = 1
  MaxCrashes = 1
  MaxNotices = 1
  Redeliver = FALSE
ACTION_CONSTRAINT OneOrTheOther
CHECK_DEADLOCK FALSE
SYMMETRY Symmetry
INVARIANTS TaskOrderAgreement OneWorklistOrHidden HistoryIsPath BypassSettlesStation ForcedApprovalIsEarned
PROPERTIES TaskKeepsDriver
