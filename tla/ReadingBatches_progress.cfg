SPECIFICATION FairSpec
CONSTANTS
  r1 = r1
  r2 = r2
  c1 = c1
  c2 = c2
  s1 = s1
  s2 = s2
  w1 = w1
  Readings = {r1, r2}
  Requests = {c1}
  Replicas = {s1}
  Workers = {}
  NumProjects = 2
  MaxBatches = 1
  MaxSubs = 4
  MaxErrors = 1
  MaxStops = 1
  MaxManual = 1
  ProjectOf <- MCTwoProjects
  NoBatch = NoBatch
  NoReading = NoReading
PROPERTIES
  OpenBatchLeaves
  ClaimIsSettled
