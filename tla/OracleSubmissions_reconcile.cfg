SPECIFICATION FairSpec
CONSTANTS
  p1 = p1
  p2 = p2
  w1 = w1
  w2 = w2
  NoProject = NoProject
  Projects = {p1}
  Workers = {w1}
  Reconcilers = {"r"}
  Indexers = {}
  MaxSubs = 3
  Attempts = 2
  Unmappable = {3}
  MaxErrors = 0
  MaxCrashes = 1
  MaxResets = 0
CHECK_DEADLOCK FALSE
PROPERTIES
  LandedIsConfirmed
INVARIANTS
 
 ConfirmedNotAhead
 SubmittedHasJob
