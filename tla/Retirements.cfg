SPECIFICATION FairSpec
CONSTANTS
  u1 = u1
  w1 = w1
  w2 = w2
  Wallets = {u1}
  Supply = 2
  Amounts = {2, 3}
  MaxRets = 2
  Attempts = 2
  Workers = {w1, w2}
  BlockSize = 2
  MaxErrors = 1
  MaxCrashes = 1
CHECK_DEADLOCK FALSE
INVARIANTS
  RowsTruthful
  
  
PROPERTIES
  PendingSettles
