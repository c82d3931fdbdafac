\* A pool that holds four of the smallest blocks and 4 bytes more; 5 and 20 are
\* rounded up to 8 and 24 bytes, and some rests are too small to be blocks.
SPECIFICATION FairSpec
CONSTANTS
  Clients = {k1, k2}
  Sizes = {5, 20}
  POOL_SIZE = 84
  HEADER = 12
  NULL = NULL
INVARIANTS
  Accounting
PROPERTIES
  ContractSpec
  CallsReturn
