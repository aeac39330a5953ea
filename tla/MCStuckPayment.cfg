SPECIFICATION Spec
CONSTANTS
  NULL = NULL
  Orders = {o1}
  Drivers = {d1}
  GatewayTxs = {g1}
  BypassIds = {}
  BypassWorkers = {}
  MaxBypassAttemptsPerStation = 2
  Sweepers = {ticker}
  Ticker = ticker
  MaxClaims = 1
  MaxPackings = 1
  MaxFilings = 0
  MaxPayCalls = 1
  MaxCrashes = 0
  MaxNotices = 1
  Redeliver = FALSE
CHECK_DEADLOCK FALSE
SYMMETRY Symmetry
INVARIANTS NeverStuckAtWaitingPayment
