\* Two virtual functions that send up to four and two messages, and one more
\* when they clear a context afterwards.
SPECIFICATION FairSpec
CONSTANTS
  VFs <- MCVFs
  PfQueues = 2
  PerVf = 1
  MaxSent <- MCMaxSent
  None = None
INVARIANTS RangeAgreed TableExact QueueBacked
PROPERTIES EveryCallReturns ImplementsService
CHECK_DEADLOCK FALSE
