SPECIFICATION FairSpec
CONSTANTS
  v1 = v1
  v2 = v2
  x1 = x1
  x2 = x2
  MaxProposals = 1
  Voters = {v1, v2}
  Executors = {x1, x2}
  MaxIds = 3
  QuorumBps = 5000
  Quorum = 2
  EligibleCounts = {2, 3}
  MaxFaults = 1
CHECK_DEADLOCK FALSE
INVARIANTS
  StatusIsBacked
  CountersAreBallots
  ExecutedOnce

  
