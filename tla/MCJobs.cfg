\* Two Jobs over a store whose writes may fail, one crash or restart, one yield, one slot
\* shared with a proxied request.
SPECIFICATION JobSpec
CONSTANTS
  w = w
  i1 = i1
  b1 = b1
  k1 = k1
  k2 = k2
  worker = w
  Interactive = {i1}
  Batch = {w}
  MaxInflight = 1
  MaxWaiters = 1
  MaxJobs = 2
  Keys = {k1, k2}
  MaxAttempts = 2
  StoreFails = TRUE
  MaxYields = 1
  MaxCrashes = 1
  MaxVisits = 1
  Watched = {1}
SYMMETRY Alike
INVARIANTS
  JobTypeOK
  AttemptsSpent
  ResumeFirst
  PositionNotFlattering
PROPERTIES
  TerminalStable
CHECK_DEADLOCK FALSE
