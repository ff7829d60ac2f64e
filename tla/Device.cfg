\* One device that is probed, configured, used, reset, struck by bus errors and
\* removed, in all interrupt modes; every step of MCFaults may fail.
SPECIFICATION Spec
CONSTANTS
  TableSize = 2
  Qsets = {1, 2}
  Vectors = 1
  MaxMisused = 1
  Modes = {"poll", "direct", "aggregate"}
  ResetModes = {"poll", "direct"}
  Faults <- MCFaults
INVARIANTS
  NothingLeft
  ReleasedOnce
  
  ContextsBacked
  CdevsExact
