\* Two pairs of queues of a virtual function, polled or with one vector;
\* callers of one queue.
SPECIFICATION Spec
CONSTANTS
  QMax = 2
  Vectors = {2}
  PrepFails = TRUE
  Users <- MCUsers
  MaxIrq = 2
  None = None
INVARIANTS RingsBacked AllOrNothing CountsExact
CHECK_DEADLOCK FALSE
