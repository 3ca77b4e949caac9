SPECIFICATION Spec
CONSTANTS
  p1 = p1
  p2 = p2
  w1 = w1
  w2 = w2
  NoProject = NoProject
  Projects = {p1, p2}
  Workers = {w1, w2}
  Reconcilers = {}
  Indexers = {"i"}
  MaxSubs = 2
  Attempts = 2
  Unmappable = {}
  MaxErrors = 1
  MaxCrashes = 1
  MaxResets = 1
SYMMETRY Symmetry
CHECK_DEADLOCK FALSE
INVARIANTS
  OneNoncePerSubmission
  FalseConfirmationIsForeign
