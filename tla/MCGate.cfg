\* One slot, three Batch requests and two parking places: requests wait, park, overflow the
\* park queue and are drained one at a time, across two yields and a shutdown; the client of
\* one may disconnect at any time.
SPECIFICATION GateSpec
CONSTANTS
  i1 = i1
  b1 = b1
  b2 = b2
  b3 = b3
  Interactive = {}
  Batch = {b1, b2, b3}
  MaxInflight = 1
  MaxWaiters = 1
  MaxQueue = 2
  DrainBurst = 1
  Bounded = {}
  MaxYields = 2
  Leavers = {b1}
  Stallers = {}
SYMMETRY Alike
INVARIANTS
  GateTypeOK
  ParkExact
  SlotDiscipline
PROPERTIES
  ReleaseWins
  ParkFIFO
CHECK_DEADLOCK FALSE
