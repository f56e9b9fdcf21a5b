SPECIFICATION MCSpec
CONSTANTS
  Key <- Keys
  Value = {1, 2}
  Maps = {"array", "sparse"}
  Moving = {"array"}
  Refused = FALSE
  Queried = TRUE
INVARIANTS
  Consistent
  Canonical
  PointersValid
  QueriesExact
PROPERTIES
  ImplementsMultiMap
