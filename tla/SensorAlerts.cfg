SPECIFICATION FairAlertsSpec
CONSTANTS
  w1 = w1
  w2 = w2
  p1 = p1
  s1 = s1
  s2 = s2
  d1 = d1
  low = low
  high = high
  Processors = {w1, w2}
  Watchers = {p1}
  Arrivals = {s1, s2}
  Devices = {d1}
  Kinds = {low, high}
  DeviceOf <- MCDeviceOf
  BreachesOf <- MCBreachesOf
  MaxAttempts = 2
  MaxFaults = 1
  NoWorker = NoWorker
  NoAlert = NoAlert
CHECK_DEADLOCK FALSE
INVARIANTS
  
  BroadcastsConsistent
PROPERTIES
  EveryReadingIsBroadcast
  
