SPECIFICATION Spec
CONSTANTS
  c1 = c1
  c2 = c2
  Ids = {1, 2, 3}
  Editable = {2}
  StartStatuses = {"draft", "active"}
  Calls = {c1, c2}
  Times = {0, 1, 2}
  MaxCalls = 2
  MaxErrors = 1
  TicksPerMs = 2
  Limits = {1, 2}
SYMMETRY MCSymmetry
CHECK_DEADLOCK FALSE
INVARIANTS
  RemovalHolds
  PagesExact
PROPERTIES
  LifecycleMovesForward
