SPECIFICATION MCSpec
CONSTANTS
  Key <- Keys
  Value = {1, 2}
  Maps = {"sparse"}
  Moving = {"sparse"}
  Refused = FALSE
  Queried = FALSE
INVARIANTS
  Consistent
