\* Completion entries of one ST C2H queue, polled and by interrupts: the ring
\* has three entries and is gone round almost twice, so that their color changes.
SPECIFICATION FairSpec
CONSTANTS
  whole = whole  half = half
  Readers <- MCReaders
  Count <- MCCount
  Impatient = {half}
  RngSz = 3
  PgSz = 2
  Lens = {0, 3}
  Flawed = TRUE
  UddOnly = TRUE
  Budgets = {0, 1}
  MaxCmpl = 5
  MaxStarts = 2
INVARIANTS EntriesInOrder
PROPERTIES EntriesParsed
\* The system may stop: nothing received, no reader.
CHECK_DEADLOCK FALSE
