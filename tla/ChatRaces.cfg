SPECIFICATION Spec
CONSTANTS
  c1 = c1
  c2 = c2
  Calls = {c1}
  Kind <- MCKind
  NRuns = 2
  MaxCrashes = 1
  Allowed = {"early_answer", "answers_together", "abandon", "double_post", "run_error", "resume_error"}
CHECK_DEADLOCK FALSE
INVARIANT OneResultPerCall
INVARIANT RunsOnlyOnYes
