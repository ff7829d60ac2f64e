\* One character device: an asynchronous read and a vectored write that may
\* be cancelled, blocking calls of both directions, two processors.
SPECIFICATION FairSpec
CONSTANTS
  single = single  vector = vector  writer = writer  reader = reader
  None = None
  Iocbs <- MCIocbs
  Segs <- MCSegs
  Dir <- MCDir
  Callers = {writer, reader}
  Cpus = {c1, c2}
  Cancellable = {vector}
  MapFails = TRUE
INVARIANTS PartsExact EndsProperly
PROPERTIES CancelledNotMoved EveryPartEnds
\* The system may stop: every request done, the device destroyed.
CHECK_DEADLOCK FALSE
