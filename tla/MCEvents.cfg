\* A stream that is read and one that stalls, a Cancel, two runs, full channels.
SPECIFICATION FairEventsSpec
CONSTANTS
  s1 = s1
  s2 = s2
  c1 = c1
  Streams = {s1, s2}
  Readers = {s1}
  Cancels = {c1}
  BufSize = 2
  MaxRuns = 2
  MaxTicks = 1
INVARIANTS
  EventsTypeOK
  DoneIsFinal
PROPERTIES
  WorkerNeverStalls
  DoneReachesStream
CHECK_DEADLOCK FALSE
