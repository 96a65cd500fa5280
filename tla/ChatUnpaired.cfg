SPECIFICATION Spec
CONSTANTS
  c1 = c1
  c2 = c2
  Calls = {c1, c2}
  Kind <- MCKind
  NRuns = 3
  MaxCrashes = 0
  Allowed = {"abandon"}
CHECK_DEADLOCK FALSE
INVARIANT PromptIsPaired
