\* Two readers ask for one unit each, a packet has two units on one page.
SPECIFICATION Spec
CONSTANTS
  whole = whole  half = half
  Readers <- MCReaders
  Count <- MCCountPart
  Impatient = {}
  RngSz = 3
  PgSz = 2
  Lens = {2}
  Flawed = FALSE
  UddOnly = FALSE
  Budgets = {0}
  MaxCmpl = 2
  MaxStarts = 1
INVARIANTS StreamInOrder
CHECK_DEADLOCK FALSE
