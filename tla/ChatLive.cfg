SPECIFICATION FairSpec
CONSTANTS
  c1 = c1
  c2 = c2
  Calls = {c1, c2}
  Kind <- MCKind
  NRuns = 2
  MaxCrashes = 1
  Allowed = {"run_error", "answers_together"}
CHECK_DEADLOCK FALSE
PROPERTY StreamCompletes
PROPERTY AnsweredCallSettles
