\* A pair of queues of the physical function, a streaming C2H queue of a virtual
\* one; one command times out and one write is lost.
SPECIFICATION Spec
CONSTANTS
  Queues <- MCQueues
  Streaming = {2}
  Virtual = {2}
  Rings = {r1}
  Cleared = Cleared
  Invalid = Invalid
  Used = Used
  Cpus = {"other"}
  TimeoutOps <- MCTimeoutOps
  MaxTimeouts = 1
  MaxLost = 1
INVARIANTS Programmed NothingPoints
