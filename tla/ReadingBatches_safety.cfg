SPECIFICATION Spec
CONSTANTS
  r1 = r1
  r2 = r2
  c1 = c1
  c2 = c2
  s1 = s1
  s2 = s2
  w1 = w1
  Readings = {r1, r2}
  Requests = {c1, c2}
  Replicas = {s1, s2}
  Workers = {w1}
  NumProjects = 1
  MaxBatches = 2
  MaxSubs = 3
  MaxErrors = 1
  MaxStops = 0
  MaxManual = 0
  ProjectOf <- MCOneProject
  NoBatch = NoBatch
  NoReading = NoReading
SYMMETRY MCSymmetry
INVARIANTS CountExact  ClaimExclusive SingleHandOff
PROPERTY ConfirmedIsFinal
