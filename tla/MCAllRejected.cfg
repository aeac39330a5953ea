SPECIFICATION Spec
CONSTANTS
  NULL = NULL
  Orders = {o1}
  Drivers = {d1}
  GatewayTxs = {}
  BypassIds = {b1, b2}
  BypassWorkers = {w1, w2}
  MaxBypassAttemptsPerStation = 2
  Sweepers = {ticker}
  Ticker = ticker
  MaxClaims = 1
  MaxPackings = 1
  MaxFilings = 2
  MaxPayCalls = 0
  MaxCrashes = 0
  MaxNotices = 0
  Redeliver = FALSE
CHECK_DEADLOCK FALSE
SYMMETRY Symmetry
INVARIANTS AllowedAttemptsNeverAllRejected
