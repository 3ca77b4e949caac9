SPECIFICATION AllowlistSpec
CONSTANTS
  x1 = x1
  x2 = x2
  a1 = a1
  Runs = {x1, x2}
  Assets = {a1}
  Network = "mainnet"
  MaxAttempts = 2
  TimeBound = 1
  MaxSequence = 1
CHECK_DEADLOCK FALSE
INVARIANTS
  OutcomesHold
PROPERTIES
  GivenUpNeverLands
