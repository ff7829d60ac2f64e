\* A caller gives up: the descriptors of its request stay in the ring and the
\* credit for them goes to the next request.
SPECIFICATION Spec
CONSTANTS
  big = big  small = small  empty = empty  None = None
  Reqs <- MCReqs2
  NDesc <- MCNDesc2
  RngSz = 3
  Waiters = {big, small}
  Impatient = {big}
INVARIANTS NoEarlyCompletion
CHECK_DEADLOCK FALSE
