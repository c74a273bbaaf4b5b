\* One Interactive and one Batch request for one slot, two yields: the waits, the park, the
\* bound of the upstream call and the preemption by a yield, under fair scheduling.
SPECIFICATION FairGateSpec
CONSTANTS
  i1 = i1
  b1 = b1
  b2 = b2
  b3 = b3
  Interactive = {i1}
  Batch = {b1}
  MaxInflight = 1
  MaxWaiters = 1
  MaxQueue = 1
  DrainBurst = 2
  Bounded = {b1}
  MaxYields = 2
  Leavers = {b1}
  Stallers = {i1, b1}
PROPERTIES
  YieldPreempts
  EveryRequestSettles
  BoundedReturns
CHECK_DEADLOCK FALSE
