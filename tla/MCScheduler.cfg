\* Two slots contended by two Interactive and three Batch callers: with both slots held by
\* Interactive callers the third Batch arrival finds its queue full, with both held by Batch
\* callers two Interactive ones queue behind each other.
SPECIFICATION FairSchedSpec
CONSTANTS
  i1 = i1
  i2 = i2
  b1 = b1
  b2 = b2
  b3 = b3
  Interactive = {i1, i2}
  Batch = {b1, b2, b3}
  MaxInflight = 2
  MaxWaiters = 2
INVARIANTS
  SchedTypeOK
  SlotAccounting
  NoIdleSlot
  QueueExact
PROPERTIES
  NoOvertaking
  ImplementsPool
  InteractiveServed
