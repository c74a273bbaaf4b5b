\* One Job over a store that does not fail, with a request of each class, a yield and a restart.
SPECIFICATION FairJobSpec
CONSTANTS
  w = w
  i1 = i1
  b1 = b1
  k1 = k1
  k2 = k2
  worker = w
  Interactive = {i1}
  Batch = {w, b1}
  MaxInflight = 1
  MaxWaiters = 1
  MaxJobs = 1
  Keys = {k1}
  MaxAttempts = 2
  StoreFails = FALSE
  MaxYields = 1
  MaxCrashes = 1
  MaxVisits = 2
  Watched = {}
INVARIANTS
  RunningIsRun
PROPERTIES
  InteractiveNotStarved
  EveryJobEnds
CHECK_DEADLOCK FALSE
