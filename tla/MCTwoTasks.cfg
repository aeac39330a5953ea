SPECIFICATION Spec
CONSTANTS
  NULL = NULL
  Orders = {o1, o2}
  Drivers = {d1}
  GatewayTxs = {}
  BypassIds = {}
  BypassWorkers = {}
  MaxBypassAttemptsPerStation = 2
  Sweepers = {ticker}
  Ticker = ticker
  MaxClaims = 2
  MaxPackings = 1
  MaxFilings = 0
  MaxPayCalls = 0
  MaxCrashes = 0
  MaxNotices = 0
  Redeliver = FALSE
CHECK_DEADLOCK FALSE
SYMMETRY Symmetry
INVARIANTS OneActiveTaskPerDriver
