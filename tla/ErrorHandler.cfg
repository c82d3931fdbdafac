\* Four reports of two tasks through a queue of two: the queue fills up while
\* the handler works on a report, and a fatal report may be any of the four.
SPECIFICATION FairSpec
CONSTANTS
  Tasks = {t1, t2}
  ERROR_QUEUE_SIZE = 2
  MAX_REPORTS = 4
\* A behaviour ends when MAX_REPORTS reports are handled and none is fatal.
CHECK_DEADLOCK FALSE
INVARIANTS
  InOrder
  FatalIsLast
PROPERTIES
  AcceptedFatalRestarts
