SPECIFICATION Spec
CONSTANTS
  c1 = c1
  c2 = c2
  Calls = {c1, c2}
  Kind <- MCKind
  NRuns = 3
  MaxCrashes = 1
  Allowed = {"run_error", "abandon", "resume_error"}
CHECK_DEADLOCK FALSE
INVARIANT TypeOK
INVARIANT WaitingIsResumable
PROPERTY CallLifeSpec
