\* A Cancel between ClaimNext and startRun finds no run to abort.
SPECIFICATION JobSpec
CONSTANTS
  w = w
  i1 = i1
  b1 = b1
  k1 = k1
  k2 = k2
  worker = w
  Interactive = {i1}
  Batch = {w}
  MaxInflight = 1
  MaxWaiters = 1
  MaxJobs = 1
  Keys = {k1}
  MaxAttempts = 2
  StoreFails = FALSE
  MaxYields = 1
  MaxCrashes = 0
  MaxVisits = 0
  Watched = {}
INVARIANTS
  CancelAborts
CHECK_DEADLOCK FALSE
