\* Safety of one queue with a ring of three slots, polled and by interrupts:
\* a request longer than the ring, one that fits, one without data.
SPECIFICATION Spec
CONSTANTS
  big = big  small = small  empty = empty  None = None
  Reqs <- MCReqs
  NDesc <- MCNDesc
  RngSz = 3
  Waiters = {small, empty}
  Impatient = {}
INVARIANTS TypeOK RingAccounting CursorOrder NoEarlyCompletion MappedWhileInRing NoStrayCredit
PROPERTIES NoOverwrite ImplementsService
\* The system may stop: every request done, no interrupt pending.
CHECK_DEADLOCK FALSE
