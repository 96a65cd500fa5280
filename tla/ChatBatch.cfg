SPECIFICATION Spec
CONSTANTS
  c1 = c1
  c2 = c2
  Calls = {c1, c2}
  Kind <- MCKind
  NRuns = 2
  MaxCrashes = 0
  Allowed = {"early_answer"}
CHECK_DEADLOCK FALSE
INVARIANT BatchIsComplete
