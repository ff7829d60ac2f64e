\* Progress of one queue, polled and by interrupts: every request completes,
\* though a blocking caller may time out or catch a signal while its request is
\* waiting, in the ring, or being completed.
SPECIFICATION FairSpec
CONSTANTS
  big = big  small = small  empty = empty  None = None
  Reqs <- MCReqs2
  NDesc <- MCNDesc2
  RngSz = 3
  Waiters = {big, small}
  Impatient = {big}
INVARIANTS ListsLive
PROPERTIES EveryRequestCompletes EveryCallerReturns
\* The system may stop: every request done, no interrupt pending.
CHECK_DEADLOCK FALSE
