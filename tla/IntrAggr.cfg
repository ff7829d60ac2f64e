\* Two queues and three errors in two registers, with and without aggregation:
\* up to four entries in a ring of three, so that its second lap begins.
SPECIFICATION FairSpec
CONSTANTS
  parity = parity  timeout = timeout  poison = poison
  Error = Error
  Queues = {q1, q2}
  Errors <- MCErrors
  NRegs = 2
  Reg <- MCReg
  Entries = 3
  MaxEvents = 2
  MaxErrors = 2
INVARIANTS EntriesInOrder
PROPERTIES NoErrorLost QueuesServed ErrorsHandled
\* The system may stop: nothing to report.
CHECK_DEADLOCK FALSE
