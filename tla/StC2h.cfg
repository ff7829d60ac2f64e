\* Safety of one ST C2H queue with a ring of five pages of two units and five
\* completion entries; packets of three units (two pages) and of none, bad
\* entries and entries without a packet; readers of one and of two packets.
SPECIFICATION Spec
CONSTANTS
  whole = whole  half = half
  Readers <- MCReaders
  Count <- MCCount
  Impatient = {half}
  RngSz = 5
  PgSz = 2
  Lens = {0, 3}
  Flawed = TRUE
  UddOnly = TRUE
  Budgets = {0, 1}
  MaxCmpl = 5
  MaxStarts = 2
INVARIANTS StreamInOrder FreeListExact CmplReturned
PROPERTIES UnreadKept
\* The system may stop: nothing received, no reader.
CHECK_DEADLOCK FALSE
