SPECIFICATION WebhookSpec
CONSTANTS
  NULL = NULL
  Orders = {o1}
  Drivers = {d1}
  GatewayTxs = {g1, g2}
  BypassIds = {}
  BypassWorkers = {}
  MaxBypassAttemptsPerStation = 2
  Sweepers = {ticker}
  Ticker = ticker
  MaxClaims = 1
  MaxPackings = 1
  MaxFilings = 0
  MaxPayCalls = 2
  MaxCrashes = 0
  MaxNotices = 2
  Redeliver = TRUE
CHECK_DEADLOCK FALSE
PROPERTIES SettlementAdvancesOrder
