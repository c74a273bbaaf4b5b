\* The Job ends between the read of its state and the subscription.
SPECIFICATION FairEventsSpec
CONSTANTS
  s1 = s1
  s2 = s2
  c1 = c1
  Streams = {s1}
  Readers = {s1}
  Cancels = {}
  BufSize = 16
  MaxRuns = 1
  MaxTicks = 0
PROPERTIES
  StreamEnds
CHECK_DEADLOCK FALSE
