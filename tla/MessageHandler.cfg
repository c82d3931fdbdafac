\* Two calls of two tasks and two retries of each; the pool can hold two pending
\* messages and a copy, or one and two copies.
SPECIFICATION FairSpec
CONSTANTS
  Tasks = {t1, t2}
  RETRY_COUNT = 2
  MAX_ID = 2
  CELLS = 5
  MAX_QUEUE_SIZE = 2
  NULL = NULL
INVARIANTS
  AttemptsBounded
  AtMostOnce
  PoolConserved
PROPERTIES
  PublishedIsDelivered
  RetriesEnd
