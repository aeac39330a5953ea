SPECIFICATION OnTheWaySpec
CONSTANTS
  NULL = NULL
  Orders = {o1, o2, o3}
  Drivers = {d1}
  GatewayTxs = {g1, g2, g3}
  BypassIds = {}
  BypassWorkers = {}
  MaxBypassAttemptsPerStation = 2
  Sweepers = {ticker, admin}
  Ticker = ticker
  MaxClaims = 0
  MaxPackings = 0
  MaxFilings = 0
  MaxPayCalls = 0
  MaxCrashes = 2
  MaxNotices = 0
  Redeliver = FALSE
CHECK_DEADLOCK FALSE
PROPERTIES ReceivedOrderCompletes
