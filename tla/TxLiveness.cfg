SPECIFICATION FairSpec
CONSTANTS
  c1 = c1
  c2 = c2
  c3 = c3
  alice = alice
  p1 = p1
  p2 = p2
  Accounts = {alice}
  Payloads = {p1, p2}
  Calls = {c1, c2}
  Kind <- KindsOfRetry
  From <- AllFromAlice
  Pay <- OwnPay
  Market <- TwoQuotes
  ChainID = 1
  NetworkID = 1
  Unprotected = Unprotected
  AllowUnprotected = TRUE
  PriceBump = 10
  MaxSends = 2
  MaxUndone = 1
  MaxNonce = 3
CHECK_DEADLOCK FALSE
PROPERTIES OkSettles
