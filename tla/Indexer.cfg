SPECIFICATION FairSpec
CONSTANTS
  r1 = r1
  r2 = r2
  None = None
  Replicas = {r1, r2}
  MaxLedger = 3
  PerLedger = 2
  RpcLimit = 2
  PageLedgers = 2
  MaxFaults = 1
CHECK_DEADLOCK FALSE
PROPERTIES
  DeliverySpec
  CatchesUp
