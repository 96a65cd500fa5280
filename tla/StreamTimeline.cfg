SPECIFICATION Spec
CONSTANTS
  w1 = w1
  c1 = c1
  c2 = c2
  Clients = {w1}
  Nobody = Nobody
  Calls = {c1}
  NRuns = 2
  MaxText = 2
  MaxSub = 2
  Cap = 2
  Attempts = 2
CHECK_DEADLOCK FALSE
INVARIANT TimelineReplayable
