SPECIFICATION Spec
CONSTANTS
  c1 = c1
  c2 = c2
  Calls = {c1, c2}
  Kind <- MCKind
  NRuns = 1
  MaxCrashes = 0
  Allowed = {}
CHECK_DEADLOCK FALSE
INVARIANT CanceledNeverRan
