SPECIFICATION AddressSpec
CONSTANTS
  NULL = NULL
  Requests = {r1, r2}
  MaxAddresses = 3
  MaxFailures = 0
CHECK_DEADLOCK FALSE
INVARIANTS NeverWithoutPrimary
