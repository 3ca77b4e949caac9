SPECIFICATION Spec
CONSTANTS
  u1 = u1
  u2 = u2
  c1 = c1
  c2 = c2
  Users = {u1, u2}
  Wallets = {u1}
  Calls = {c1, c2}
  MaxChallenges = 1
  MaxTokens = 3
  Nobody = Nobody
  Unselected = Unselected
SYMMETRY Symmetry
CHECK_DEADLOCK FALSE
INVARIANTS
  AdminRemains
  SignInConsistent
PROPERTIES
  RefreshTokenOnce
  DeactivatedStaysOut
